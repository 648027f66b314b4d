# Verification of the G3MOD kernel's modem IPC and power management

G3MOD is a Linux 2.6.32 kernel for the Samsung Galaxy 3 (board Apollo, SoC
S5P6442) with ClockworkMod recovery and an initramfs. Nearly all of it is
upstream Linux and Android code. The logic of its own is the link to the modem
(`onedram.ko`, `svnet.ko`, `modemctl.ko`, see `Kernel/HowToBuild`), and the place
where concurrency decides whether the phone works is its power management: wake
locks, early suspend and the suspend core as changed for this board. These two
parts are the subject of this project.

Paths below are relative to `Kernel/`.

## 1. Inventory

### The link to the modem

The application processor (AP) and the modem (CP) share a OneDRAM: a memory bank
that one of them owns at a time, a semaphore register that says which, and two
mailbox registers, one for each direction. Writing a mailbox raises an interrupt
on the other side, reading it clears the interrupt.

| part | state | operations |
|---|---|---|
| `drivers/onedram/onedram.c` | `reg->sem`, `reg->mailbox_AB/BA`, `ref_sem`, `comp`, `flags`, `mailbox` | `get_auth`, `put_auth`, `rel_sem`, the interrupt handler, and on the device node `ioctl`, `mmap`, `read`, `write`, `poll` |
| `drivers/svnet/sipc4.c` | `od_rel`, three rings (FMT, RAW, RFS), fragment map, half-sent packet, PDP devices | `sipc_handler` (in the interrupt), `sipc_read`, `sipc_write`, `sipc_rx`, open and close, PDP activation |
| `drivers/svnet/main.c` | `txq`, `rxq`, four works, `exit_flag`, a wake lock | `svnet_xmit`, `svnet_queue_event`, the read, write, rx and exit works |
| `drivers/modemctl/modemctl.c` | modem and SIM lines, a work, a debounce timer, a wake lock | power on and off, interrupts, suspend and resume |

How they interact: `svnet` registers `sipc_handler` with `onedram`, which calls
it from its interrupt handler. The handler answers the modem's commands
(`REQ_SEM`: give me the bank) at once and queues data events for the `svnetd`
work queue, whose works take the bank with `onedram_get_auth`, read or write the
rings and give it back. User space uses the same semaphore through the device
node. If the bank is in use when the modem asks, the request is remembered in
`od_rel` and the last user has to honour it.

What is hard: three kinds of actors (interrupt handler, kernel threads, a second
processor with no common lock), single-slot mailboxes that are overwritten,
requests with retries and a time limit, a reference count kept by hand on many
paths, a release that is done by somebody other than the one who was asked.

What makes it correct: nobody on the AP touches the bank while the CP owns it;
the count is exact; a modem that asks gets the bank; a packet handed to `svnet`
is written to its ring once, whole and in order, and is not forgotten.

### Power management

| part | state | operations |
|---|---|---|
| `kernel/power/wakelock.c`, `userwakelock.c` | list of active locks, `expire_timer`, `suspend_work`, `current_event_num` | `wake_lock`, `wake_lock_timeout`, `wake_unlock`, `wake_lock_destroy`, `expire_wake_locks`, `suspend()`, `power_suspend_late` |
| `kernel/power/earlysuspend.c` | two state bits, `requested_suspend_state`, the handler list, two works | `request_suspend_state`, `early_suspend`, `late_resume`, `register_early_suspend`, `unregister_early_suspend` |
| `kernel/power/suspend.c`, `process.c` | how far the suspend has come, the full-speed lock of the CPU clock | `pm_suspend` .. `suspend_enter`, `try_to_freeze_tasks` |

How they interact: user space writes to `/sys/power/state`; `early_suspend` calls
the drivers' handlers and drops `main_wake_lock`; the last lock to go queues
`suspend_work` on the same single-threaded work queue; `suspend()` runs the
suspend core, which looks at the locks while it freezes processes and once more
from `power_suspend_late`. Drivers and user space take and drop locks at any time.

What is hard: locks that come and go between any two steps of a suspend, timers
that fire while the lock they were set for has changed, works that are queued
once however often they are asked for, suspends that fail half way, requests that
are taken back.

What makes it correct: no sleep while a lock is active; sleep eventually when
none is; each handler is suspended and resumed in turn and in order; the last
request wins; whatever a suspend sets up it also takes down.

### Everything else

Binder, logger and the low memory killer (Android), the flash translation layer
(vendor), the Korean variants of the modem drivers, small register drivers
(vibrator, FM radio, sensors), Wi-Fi, compressed swap, recovery and initramfs, and
upstream Linux are not modelled; `PROJECT.json` gives the reason for each. Work
queues, timers and completions are modelled as far as the parts above use them.

## 2. Modules

| module | models |
|---|---|
| `OnedramAuth` | abstract: a bank owned by AP or CP, clients acquire only under the AP, the AP hands over only when nobody uses it |
| `Onedram` | the semaphore protocol with its clients, interrupt handler and modem |
| `OnedramProof` | proofs about `Onedram`, with the refinement of `OnedramAuth` |
| `Wakelock` | suspend wake locks, the expire timer, `suspend()` and the suspend core |
| `WakelockProof` | proofs about `Wakelock` |
| `Svnet` | the network device: both queues, the four works, open, close and the exit work |
| `SvnetProof` | proofs about `Svnet` |
| `SipcFmt` | the FMT ring: packets cut into frames, the ring's indices, frames put together |
| `SipcFmtLemmas` | induction on natural numbers, sums and flattening of sequences, index arithmetic: what the proofs about `SipcFmt` rest on |
| `SipcFmtProof` | proofs about the ring and the blocks of `SipcFmt` |
| `SipcFmtStream` | proofs about the packets of `SipcFmt`: whole and in order |
| `Modemctl`, `MCModemctl` | modem control: lines, interrupts, work, debounce timer, suspend and resume; the writers made interchangeable for TLC |
| `ModemctlProof` | proofs about `Modemctl` |
| `EarlySuspend`, `MCEarlySuspend` | early suspend and late resume on the suspend work queue; three handlers on two levels for TLC |
| `EarlySuspendProof` | proofs about `EarlySuspend` |

### Onedram

The kernel is built for one CPU with `CONFIG_PREEMPT_NONE`, so a thread inside the
driver loses the CPU only where it sleeps or returns to user space (`MayRun`,
`OffCpu`), while the interrupt handler runs between any two of its steps. The
steps of a client are therefore cut where an interrupt or the modem makes a
difference: counting with the first look at the semaphore (`GetAuth`), sending
the command, the wait, the second look (`TestSem`), the error path, the put, the
test of `rel_sem`, `INIT_COMPLETION`, the write of the semaphore, the mail, the
reset of `od_rel`, the data mail. `GetAuth` may be one step: an interrupt between
counting and reading finds the client counted either way, and a hand-over by the
modem in between is the same as one before.

Three kinds of clients: `Workers` (`svnetd`: `sipc_read`, `sipc_write`, which
request a release before their put), `Debuggers` (`_debug_show_buf`), `Users` of
the device node (`ioctl`, `mmap` with `vm_close`, `write`). Users pass `REQ_SEM`
as the command of `ONEDRAM_GET_AUTH` and put what they got once. The handler is
`HandlerReads`, `CheckBuffer`, `DoCommand`, `HandlerWakes`; the modem may act
between them, no client can. `put_auth`'s own release is unreachable: no caller
passes `release`.

Known and left without a run: an `onedram_mmap` that fails after line 540 keeps its
reference (`MmapFails`), so `RefCounts` holds only without such failures, and a
modem never gets the bank again after one. Safety does not suffer
(`OnedramSafety` runs with failing mmaps).

The modem is external. It changes the semaphore only while it owns the bank; it
may write its mailbox at any time, over a mail that was not read too. With
`CpRetries = FALSE` it asks once and overwrites nothing.

Data in the rings is not kept: that there is some is a choice (`CheckBuffer`,
`MailData`).

### Wakelock

A lock is held, active with a timeout (`auto`, `left`) or inactive. Operations run
under `list_lock` with interrupts off and are one step each. `Settle` is the
common tail of `wake_lock_internal` and `wake_unlock`. The timer softirq takes the
timer off its list before `expire_wake_locks` gets the lock, so these are two
steps (`TimerFires`, `ExpireWakeLocks`). Event numbers matter only as "an event
since `suspend()` noted the number" (`event`). `suspend()` and the suspend core are
one sequence of places with every early exit; failures that have nothing to do
with locks are `Fault`. After `power_suspend_late` the drivers' interrupts are
masked and processes frozen, and only timers could still take locks: `TimerLocks`
are the ones they do (`alarm_triggered` of `drivers/rtc/alarm-dev.c`).
`maxFreq` is `set_max_freq_flag` of the S5P6442's DVFS code: `suspend_enter` sets it
first and clears it only behind the sleep, so a suspend that `power_suspend_late`
ends leaves the CPU at full speed. No run states this; it can be read off
`SuspendDevices`, `SuspendLate` and `Sleep`.

### EarlySuspend

The two bits of `state`, the pending works in order (a work that is pending is not
queued again), the thread of the work queue, the handler list with the position
of the handler loops, and `down`, the handlers whose suspend has been called last.
`early_suspend` is cut where `state_lock` or `early_suspend_lock` is released. Of
the wake locks only `main_wake_lock` is kept; the others are the choice whether a
suspend is queued and whether it goes through. User space may write to
`/sys/power/state` until it is frozen.

### Svnet

`txq` and the number of waiting events (`rxq`), the queue of the single-threaded
`svnetd` with the flush barrier of close in it, the delayed works whose timer runs,
and the place where `svnetd` stands. A work is cut where it may sleep and where the
stack or the interrupt makes a difference: `svnet_read_wq` is `ReadBegins`,
`NextEvent`, `ReadStarts` or `ReadTimesOut`, `RingsRead`, `EventsDone`;
`svnet_write_wq` is `WriteBegins`, `WriteStarts` or `WriteTimesOut`, one
`WritePacket` for each packet, and one of `WriteDone`, `WriteFull` with `FullWaits`,
`WriteInvalid`. Obtaining the semaphore may fail (`Onedram` says when). Of the rings
the number of packets is kept, of a packet whether it is for a ring (`data`), for
none (`bad`) or for the driver itself (`cmd`).

Open and close run while `svnetd` sleeps. The model has what the code does without
protection: an open that fails leaves an error pointer that the next open takes for
a session; close flushes the works that are queued, not those on a timer, and an
interrupt may queue another before `sipc_close` frees the session, after which a
sleeping work goes on with freed memory (`stale`) or faults (`dead`). The exit work
purges both queues and, after a crash of the modem, may reset the machine
(`dumped`).

Exceptions written into the properties are behaviour of the code: after `-ETIMEDOUT`
and `-EINVAL` `svnet_write_wq` queues nothing although packets may wait; after a
failing `sipc_read` the event goes back without a work; a purge by the exit work
leaves a stopped device stopped.

### SipcFmt

One direction of the FMT ring. The AP has the writer of one ring and the reader of
the other, the modem has the other two ends; the model joins the AP's writer to
the AP's reader and so assumes a modem that follows the same rules. A packet is its
number, length and the address of its buffer (`fi->skb` recognises a half-sent
packet by it), a frame the range of bytes it carries with the id and the more bit
of the control byte. The indices are computed with `CIRC_CNT` and `CIRC_SPACE`
modulo the size, and frames are checked against them (`RingAgrees`). The reader
keeps blocks of pieces for each id and hands packets up as lists of pieces, so that
`Intact` can say that the pieces are one packet without gap or overlap.

`torn` records that a purge, a bad message or a restart of one end hit a packet that
was half-way: then the id and the offset on the two sides no longer agree, and
wrong packets can come out; there is nothing in the protocol against it.
`stalled` records a reader that failed and waits for another event.

The write work runs when it is `queued`: by a transmit, or by itself after a full ring.
It gets the bank (`WriteBegins`) or gives up (`WriteTimesOut`), and then nothing is
queued for what waits (main.c:686, the subject of the run `SvnetStuck`); a read that
times out puts its event back and waits for another one (`ReadTimesOut`). `Delivered`
excepts both, `Abandoned` being the first. Either end may be opened again without the
bank, as `_init_data` takes no semaphore, while the other end stands between two
frames; a reopen in the middle of the copying of one frame is not modelled.

Two more exceptions come from the code. The mask that announces a ring is set only for a
packet written to its end (sipc4.c:870), so a packet that does not fit into an
empty ring is not announced and stays stuck unless another event makes the
reader look; `RingAnnounced` shows that a packet that does fit is never stuck behind
its own first frames. And `FRAG_BLOCK_MAX` is 4080 bytes while a frame may carry
4090: `BugNeedsLong` shows that only packets longer than a block reach the `BUG()`.
A mail in this model is not overwritten (`mailed`); `Onedram` has overwritten mails.

### Modemctl

The output lines as three levels, the two inputs, the work (`pending` and its place),
the debounce timer and the timed wake lock as ticks, the writers of the file
`control`, and how far suspend and resume have come. `msm_on` and `msm_reset` are cut
at every `msleep`; nothing keeps two writers apart, and a writer is not frozen in the
middle (`msleep` is not freezable). Time stands still in sleep.

Who runs when: threads lose the CPU only where they sleep (`ThreadRuns`), the timer is
a softirq over which no thread runs, interrupts come between any two steps. So the
reading of the SIM detector and the store of what was read are separate steps for
`mc_work` (`WorkTests`, `WorkStores`), the timer (`TimerLooks`, `TimerStores`) and
resume (`ResumeLooks`, `ResumeStores`), with the level in `seen`. An interrupt in
between finds no reference yet and returns (modemctl.c:691), or stores first and is
overwritten: the older level stays, and nobody looks again until the next edge or
resume. `overtaken` records that, from the interrupt to the next interrupt, timer or
resume that looks undisturbed; it is an exception of `SimKnown`, since the code has
nothing against it. `simctl_irq_handler` itself is one step, its line being masked
while it runs.

Interrupts around a sleep: EINT8 and EINT15 have `handle_level_irq` and a chip without
`.disable`. `suspend_device_irqs` therefore only marks them `IRQ_DISABLED`; the next
edge is acknowledged, dropped without `IRQ_PENDING`, and only then the line is masked
(`PhoneDropped`, `SimDropped`). An edge of a masked line stays latched in EINTPEND
(`phoneIrq`, `simIrq`) and is served after `resume_device_irqs` (`ResumeNoirq`), unless
the board's way to sleep clears EINTPEND first (`Sleep`, plat-s5p64xx/pm.c:1030). All
this happens in a suspend that `power_suspend_late` gives up, too. The CPU takes
interrupts again before those of devices are enabled (suspend.c:175 and 189), so the
edge that wakes the system is dropped as well (`Wake`). For the SIM card resume reads
the level again; for PHONE_ACTIVE it does nothing, and `unseen` records the dropped or
wiped edge until `mc_work` looks the next time. `unseen` also stands for a level that
`modem_get_active` took for low because CP_RST was low.

The modem and the card are free: PHONE_ACTIVE and the detector change at any time.

## 3. Runs

| run | shows | bounds |
|---|---|---|
| `OnedramSafety` | no client holds the authority while the CP owns the bank (`AccessUnderAuthority`); refinement of `OnedramAuth`; types, with `ref_sem` never below zero | one client of each kind, two operations of debugger and user, one retry, all mails, failing mmaps |
| `OnedramLive` | `ref_sem` is exact; a modem that repeats its request is served | svnetd and one user, one operation |
| `OnedramHonoured` | one `REQ_SEM` that finds svnet in the bank is honoured by svnet's last put | svnetd and a debugger, two operations |
| `WakelockSafety` | no sleep with a lock active, the timer covers the list, a suspend is always on its way; the system sleeps again and again unless a lock is held for ever | four locks, timeouts up to 2, four takings of locks, two faults |
| `Svnet` | every packet, event and RFS packet that waits has a work that will take it up, a stopped device one that will start it; `txq` and `rfs_rx` are emptied | a ring of one packet, two packets each way, two mails, two opens; timeouts, failing reads and crash mails without bound of their own |
| `SipcFmt` | packets come out whole, once, in order; the indices agree with the frames; blocks are not overrun; the BUG() needs a long packet; what is in the ring is announced; packets are delivered unless a time-out or an error leaves them behind | a ring of 16 bytes, frames with 2 bytes of overhead, blocks of 11, packets of 1, 11 and 24 bytes (fits, fits in one block less a byte, longer than ring and block), four packets, two addresses, one failing allocation, one reset |
| `Modemctl` | no sleep while the SIM detector is debounced; what the driver believes of the SIM card follows the detector once resume has looked; user space hears of a changed card and of PHONE_ACTIVE; the last writer and resume leave the output lines right (`LinesSettle`, an action property) | two interchangeable writers (symmetry), debounce 1, wake lock 2; nothing else is bounded |
| `EarlySuspendSafety` | sleep only on request, calls alternate, handlers agree with the state, level order, no request is forgotten, sleep and resume come | three handlers, two levels; no bound on requests or registrations |

Why the bounds are enough: every client kind is there, and the races need two
clients and the interrupt. One retry lets the request loop go round and give up;
more only repeat the loop. The retry, operation and fault counters are the only
bounded quantities; the theorems of section 5 hold without the bounds. Two
timeouts of different length, an unlimited lock and `unknown_wakeup` are enough
for each branch of `Settle` with the timer behind, at and ahead of the list. In
`EarlySuspend` nothing is bounded but the number of handlers: each work is pending
at most once. In `Svnet` two packets and a ring of one give a full ring with a
packet put back, two mails an event that comes while the work runs, two opens a
session after a close or a failed open. In `SipcFmt` the ring is small enough to
wrap several times within four packets and to cut each of the longer two in
different places; an address is used again as soon as its packet is gone.

Runs that find a disagreement between the code and what it says of itself
(`expect: violation`):

* `OnedramPaced`: `rel_sem` resets the completion and then writes the semaphore.
  An interrupt in between completes it for a bank that is about to go. The next
  request loop does not sleep: it sends its command 51 times in a row and fails
  with `-ETIMEDOUT` at once, where the comments promise a command every 20 ms and
  a limit of a second.
* `OnedramDeferred`: "onedram in use, defer releasing semaphore", but a release that
  was deferred on account of a user of the device node, or of a `get_auth` that
  times out, is done by nobody. With a modem that asks again it is done
  (`OnedramLive`); among svnet's own clients it always is (`OnedramHonoured`).
* `WakelockTimer`: a timer that takes a lock between `power_suspend_late` and the
  masking of all interrupts does not keep the system awake.
* `SvnetStuck`: a write work that cannot get the semaphore returns `-ETIMEDOUT`, and
  `svnet_write_wq` leaves the packets in `txq` with no work queued, where the rules
  for network drivers (Documentation/networking/driver.txt) ask that they be freed
  in finite time also if no new packet is sent.

## 4. Fairness

* `Onedram`: the handler is weakly fair (an interrupt is served and returns); the
  steps that end an operation are strongly fair for each client, as the scheduler
  lets every thread run again and again although others and interrupts take the
  CPU in between; svnetd takes up queued events. A modem that repeats its requests
  does so when the handler is idle and not each of them is overwritten by its own
  next mail before the interrupt is served. Nobody has to begin an operation, the
  modem has to hand over nothing.
* `Wakelock`: the work queue thread, time and the timer softirq are weakly fair.
  Nothing has to wake the system up and nobody has to release a lock.
* `EarlySuspend`: only the work queue thread is weakly fair.
* `Svnet`: the thread of the work queue and each timer are weakly fair. The modem
  takes packets out of its ring again and again (strong fairness, as it can do so
  only while `svnetd` does not have the bank); it need not give the bank away in
  time, so every work may time out.
* `SipcFmt`: weak fairness of the work queue threads only: a write that is queued and a
  read that a mail asks for is begun or times out, and what has begun comes to its
  end. Neither end has to get the bank, and nothing makes up for a time-out or an
  error.
* `Modemctl` has no liveness property.

## 5. Proofs

TLAPS proves the following for every value of the constants that satisfies the
modules' named assumptions (disjoint finite sets of clients, natural bounds, levels
that are numbers), without the bounds of the runs.

* `OnedramProof`. The invariant is `TypeOK`, at most one client on the CPU
  (`OneOnCpu`), `ref_sem` not below the number of counted clients and equal to it
  unless an mmap fails (`RefCovers`), nobody counted once `rel_sem` has seen zero
  (`RelAlone`), and `AccessUnderAuthority`. The last is not inductive alone: the
  write of the semaphore is safe only because of the two before it, and those need
  the scheduling of the kernel. From it: `TypeCorrect`, `MutualExclusion`,
  `ExactCount` and `Refinement` (each step maps to `Acquire`, `Release`, `HandOver`,
  `TakeOver` or a stutter).
* `WakelockProof`. `SuspendOnItsWay` speaks of an idle work; the invariant adds
  `Underway`, the same promise during an attempt in which an event was counted,
  because `suspend()` then leaves without taking `unknown_wakeup`, and `LateClean`:
  behind `power_suspend_late` only locks of timers can be active. From it:
  `TypeCorrect`, `TimerAlwaysCovers`, `SuspendAlwaysComes`, and `SleepIsSafe` under the hypothesis
  that no timer takes locks, the hypothesis whose failure `WakelockTimer` shows.
* `EarlySuspendProof`. The invariant says that the list holds each handler once
  (`Once`) in the order of levels (`Sorted`), how far the loops have come
  (`Progress`), that handlers agree with the state outside of them (`Agree`), and
  that `main_wake_lock` is released only with the request and the handlers' calls
  in place (`MainReleased`). Lemmas say what inserting, removing and queueing do to
  sequences. From it: `TypeCorrect`, `SleepIsWanted`, `HandlersAlternate`, `HandlersInOrder`,
  `HandlersFollow`, `RequestsAreKept`.

* `SvnetProof`. `PacketsHaveWork` and `EventsHaveWork` are inductive together with the
  types of the queues (`QueueOK`): each action that leaves a packet or an event behind
  queues a work for it or fails in one of the named ways, and a work taken off the
  queue loses no other. `RfsHasWork` needs `RfsCovered`: a reader in the middle of its
  events knows of the packets in `rfs_rx` (`contd`). `StoppedHasWork` needs the reason
  why the queue stays covered: the packet that did not fit remains at the head of `txq`
  (`StopInv`), a device that is up has a session (`NetSi`), and the exit work purges
  only after a crash (`PurgeInv`). From them: `PacketsAlwaysHaveWork`,
  `EventsAlwaysHaveWork`, `RfsAlwaysHasWork`, `StoppedAlwaysHasWork`, `TypeCorrect`.
* `SipcFmtProof`. `BugAlwaysNeedsLong` rests on `PartOfPacket`: a frame with more to come
  carries less than its whole packet, since the offset is never negative even when
  a purge has left it behind. `RingAlwaysAnnounced` rests on three facts: `Chained`, the
  indices are connected by the frames between them (an empty ring has equal indices,
  hence all its space); `Halfway`, the offset belongs to the first packet unless a purge
  tore one; and `Announced`, which extends the promise into a running `sipc_write`.
  `RingAlwaysAgrees` (invariant `RingInv`) follows the sum of the frames' sizes: a frame
  of n bytes is written only into n bytes of space, so adding n to the index modulo the
  size adds n to `CIRC_CNT` and does not wrap it (`CountGrows`), and reading takes off
  what the frame added (`CountShrinks`). `BlocksAlwaysFit` follows the sum of a block's
  pieces through `_prepare_frag_block`. `TypeCorrect` needs `LongInv`, without which the
  offset could leave the natural numbers.
* `SipcFmtStream`. `AlwaysIntact` and `AlwaysInOrder` rest on four invariants.
  `FramesInv`: a frame carries something, its id is 0 exactly if it is a packet of its own,
  the last frame ends where its packet ends, and nothing is ever kept for id 0.
  `StreamInv`, for packets that were not torn: the pieces the reader keeps, then the
  frames in the ring, then the writer's offset form one stream, in which each frame
  begins at the byte of the packet where the one before it ended (`PosAt`, `Continues`,
  `WriterAt`). `Intact` is what is left of it when the last frame leaves the ring; it is
  not inductive alone, since it says nothing of packets on their way. `OrderInv`: the
  numbers of the packets rise from those handed up through the ring to `txq`, where two
  frames may have the same number only if the first has more to come; it holds
  after a torn packet too. `CountInv`: without a reset they are consecutive.
  A purge that leaves the offset behind is where `StreamInv` would fail (`WriterAt`); that
  is the case `torn` records. `NothingIsLost` is the safety part of `Delivered`, and is
  proved only, not part of a run: while nothing is reset each packet is handed up, has
  its last frame in the ring, or is in `txq`; an induction along the ring
  (`RingHoldsEnds`) finds the frame.
* `ModemctlProof`. `AwakeInDebounce` needs `TimerLocked`: while the debounce timer runs
  the wake lock has longer to go. `LinesSettle` needs to know which writers may still
  hold each line (`ResetHeld`, `PhoneOnHeld`) and that resume has raised PDA_ACTIVE
  before it sleeps (`PdaRaised`). `SimKnown` needs to know what a level that has been
  read and not stored is worth: nobody is between the two except where his place says so
  (`Windows`), what he has read is the level, an interrupt waits, or one has overtaken
  him (`ThreadFresh`, `TimerFresh`), and nothing is believed before there is a reference
  (`Virgin`). `ChangeReported` needs `ChangeFollowed`: while a change is not reported the
  timer runs, the work is pending or running, or user space has already been told.
  `PhoneFollowed` needs that the work goes on only for a modem it found active
  (`FoundActive`). From them: `DebounceIsAwake`, `LinesAlwaysSettle`, `SimAlwaysKnown`,
  `ChangeAlwaysReported`, `PhoneAlwaysFollowed`, `TypeCorrect`.

`SipcFmtLemmas` makes the proofs about sums and flattened lists possible. The library's
induction theorems take an operator as a parameter, which the provers cannot
instantiate; `NatSetInduction` says the same of a set (a set that holds 0, and n + 1 with
each n, holds all natural numbers) and is derived from the theorem that a non-empty set
has a minimal element. A sum is then described by the function that lists its partial
sums (`Sums`), a flattened list by the function that lists its prefixes (`Joins`);
induction shows that such functions exist and agree with the recursive definitions
(`TotalIs`, `FlattenIs`), and the lemmas that the invariants use (`TotalAppend`,
`TotalTail`, `FlattenAppend`, `FlattenGrow`) need no induction of their own.

The inductive invariants of `SipcFmtStream`, and `NothingLost`, were checked with TLC on the instance of the
run `SipcFmt` before they were proved.

Only model-checked: the liveness properties (`CpServed`, `RequestHonoured`,
`SleepsAgain`, `SleepComes`, `ResumeComes`, `TxDrains`, `RfsDrains`, `Delivered`), as
fairness is out of the proof system's reach. Every invariant that a passing run checks
is also a theorem, and so are the refinement `AuthSpec` and the action property
`LinesSettle`.

## 6. Plan

Done: the semaphore, wake locks, early suspend, the network device, the FMT ring,
modem control. Next, in this order:

1. The readers of `od->mailbox` (read, poll), forks of mappings and the death of a
   process in `Onedram`.
2. The acknowledgement masks and the frames of the RAW and RFS rings; the PDP
   devices, which share `txq` and are stopped and woken one by one.
3. `PowerSystem`: `Wakelock` and `EarlySuspend` composed, with `main_wake_lock` shared,
   and `EarlySuspend` shown to be an abstraction of it.

Not modelled: see `PROJECT.json` for the reason for each part. In short: imported or
vendor code, register drivers and file I/O without state of their own that could
go wrong, variants built for other models, and code that the default
configurations compile out.
