------------------------------- MODULE Svnet -------------------------------
(***************************************************************************)
(* The network device svnet (drivers/svnet/main.c): the packets the network*)
(* stack hands over (txq), the events of the mailbox interrupt (rxq), the  *)
(* four works of the work queue "svnetd" that serve them through sipc_read,*)
(* sipc_write and sipc_rx (drivers/svnet/sipc4.c), open and close of the   *)
(* device, and the exit work that a crash or reset of the modem starts.    *)
(*                                                                         *)
(* Of the rings only the number of packets in them is kept (SipcFmt has the*)
(* frames), of the semaphore only that obtaining it may fail after a sleep *)
(* (Onedram has the protocol). The PDP devices, which share txq, are left  *)
(* out. The kernel runs on one CPU without preemption: open and close run  *)
(* only while svnetd sleeps; interrupts and, on their return, the softirq  *)
(* that transmits run between any two steps.                               *)
(***************************************************************************)
EXTENDS SequencesExt

CONSTANTS Room,       \* packets the out ring holds
          RxRate,     \* RFS_TX_RATE: sipc_rx hands up one packet more (4 in the code)
          MaxTx,      \* bound on the packets the stack sends
          MaxMails,   \* bound on the modem's mails
          MaxIn,      \* bound on the packets the modem sends
          MaxOpens,   \* bound on the times the device is opened
          Kinds,      \* the packets the stack sends
          Crashes     \* the modem's crash and reset mails

ASSUME SvnetAssumption ==
    /\ Room \in Nat \ {0}
    /\ {RxRate, MaxTx, MaxMails, MaxIn, MaxOpens} \subseteq Nat
    /\ Kinds \subseteq {"data", "bad", "cmd"}
    /\ Crashes \subseteq {"RESET", "EXIT"}

VARIABLES net,       \* the device: down, up, or closing, with the works flushed or not
          si,        \* sn->si: none, an open session, or the error pointer of a failed open
          stopped,   \* netif_queue_stopped
          txq,       \* packets for the modem
          rxq,       \* number of mailbox events that wait
          wq,        \* works queued on svnetd
          delayed,   \* delayed works whose timer runs
          pc,        \* where svnetd stands
          stale,     \* the session svnetd works with has been freed
          contd,     \* `contd' of svnet_read_wq
          last,      \* result of the last sipc_write
          putBack,   \* the last sipc_read failed, its event went back to rxq or was lost
          rfsRx,     \* si->rfs_rx: packets for the work rx
          out,       \* packets in the out ring
          in,        \* packets in the in rings: data (formatted and raw), RFS
          exitFlag,  \* sn->exit_flag
          left       \* what the environment may still do

vars == <<net, si, stopped, txq, rxq, wq, delayed, pc, stale, contd, last,
          putBack, rfsRx, out, in, exitFlag, left>>

Works   == {"read", "write", "rx", "exit"}
Results == {"ok", "ENOSPC", "EINVAL", "ETIMEDOUT"}

\* svnetd is idle; takes the next event; sleeps in _get_auth of sipc_read;
\* reads with the authority; sleeps in _get_auth of sipc_write; writes with
\* the authority; has come back with -ENOSPC; has sent the uevent of the exit
\* work; has faulted. "dumped": sipc_ramdump has reset the machine.
Places == {"idle", "event", "rauth", "reading", "wauth", "writing", "full",
           "purge", "dead", "dumped"}
Sleeps == {"idle", "rauth", "reading", "wauth", "purge"}
HasBank == pc \in {"reading", "writing"}

\* After a fault in svnetd, or the reset of the machine, nothing is followed up.
Gone == pc \in {"dead", "dumped"}

\* One work of each kind is pending at most: on the queue or on its timer.
Pending(w) == Contains(wq, w) \/ w \in delayed

\* queue_work, and queue_delayed_work without delay.
Queued(w) == IF Pending(w) THEN wq ELSE Append(wq, w)

\* queue_delayed_work with a delay.
Delayed(w) == IF Pending(w) THEN delayed ELSE delayed \cup {w}

\* The environment's budgets.
Spend(what) == /\ left[what] > 0
               /\ left' = [left EXCEPT ![what] = @ - 1]

session == <<net, si, stopped>>
rings   == <<out, in>>
reader  == <<rxq, contd, putBack, rfsRx>>

Init == /\ net = "down"
        /\ si = "none"
        /\ stopped = TRUE
        /\ txq = <<>>
        /\ rxq = 0
        /\ wq = <<>>
        /\ delayed = {}
        /\ pc = "idle"
        /\ stale = FALSE
        /\ contd = FALSE
        /\ last = "ok"
        /\ putBack = FALSE
        /\ rfsRx = 0
        /\ out = 0
        /\ in = [data |-> 0, rfs |-> 0]
        /\ exitFlag = "NORMAL"
        /\ left = [tx |-> MaxTx, mail |-> MaxMails, in |-> MaxIn, open |-> MaxOpens]
-----------------------------------------------------------------------------
(* The network stack and the mailbox interrupt. *)

\* svnet_xmit. Commands for the driver itself are consumed at once (and their
\* buffers never freed); everything else is queued, valid or not.
Xmit(k) == /\ net = "up"
           /\ ~stopped
           /\ ~Gone
           /\ Spend("tx")
           /\ \/ /\ k = "cmd"
                 /\ UNCHANGED <<txq, wq>>
              \/ /\ k # "cmd"
                 /\ txq' = Append(txq, k)
                 /\ wq' = Queued("write")
           /\ UNCHANGED <<session, delayed, pc, stale, last, reader, rings, exitFlag>>

\* svnet_queue_event for data, from sipc_handler or its _check_buffer. Without
\* memory for it the event is skipped.
DataEvent == /\ si = "ok"
             /\ ~Gone
             /\ Spend("mail")
             /\ \/ /\ rxq' = rxq + 1
                   /\ wq' = Queued("read")
                \/ UNCHANGED <<rxq, wq>>
             /\ UNCHANGED <<session, txq, delayed, pc, stale, contd, last, putBack,
                            rfsRx, rings, exitFlag>>

\* svnet_queue_event with SIPC_RESET_MB or SIPC_EXIT_MB.
CrashEvent(c) == /\ si = "ok"
                 /\ ~Gone
                 /\ Spend("mail")
                 /\ exitFlag' = c
                 /\ wq' = Queued("exit")
                 /\ UNCHANGED <<session, txq, delayed, pc, stale, last, reader, rings>>

\* The timer of a delayed work.
TimerFires(w) == /\ w \in delayed
                 /\ ~Gone
                 /\ delayed' = delayed \ {w}
                 /\ wq' = Append(wq, w)
                 /\ UNCHANGED <<session, txq, pc, stale, last, reader, rings, exitFlag,
                                left>>
-----------------------------------------------------------------------------
(* The read work. *)

Take(w, place) == /\ pc = "idle"
                  /\ wq # <<>>
                  /\ Head(wq) = w
                  /\ wq' = Tail(wq)
                  /\ pc' = place

ReadBegins == /\ Take("read", "event")
              /\ contd' = FALSE
              /\ putBack' = FALSE
              /\ UNCHANGED <<session, txq, rxq, delayed, stale, last, rfsRx, rings,
                             exitFlag, left>>

\* The next event: sipc_read begins, or the event is skipped without a
\* session. An error pointer gets into sipc_read too.
NextEvent == /\ pc = "event"
             /\ rxq > 0
             /\ rxq' = rxq - 1
             /\ pc' = IF si = "none" THEN "event" ELSE "rauth"
             /\ UNCHANGED <<session, txq, wq, delayed, stale, contd, last, putBack,
                            rfsRx, rings, exitFlag, left>>

\* No more events, or an error: RFS packets are left to the work rx.
ReadEnds(more) == /\ pc' = "idle"
                  /\ stale' = FALSE
                  /\ contd' = FALSE
                  /\ wq' = IF more THEN Queued("rx") ELSE wq

\* Mutant: one event for each run of the work.
EventsDoneEarly == /\ pc = "event"
                   /\ ReadEnds(contd)
                   /\ UNCHANGED <<session, txq, rxq, delayed, last, putBack, rfsRx, rings,
                                  exitFlag, left>>

EventsDone == /\ pc = "event"
              /\ rxq = 0
              /\ ReadEnds(contd)
              /\ UNCHANGED <<session, txq, rxq, delayed, last, putBack, rfsRx, rings,
                             exitFlag, left>>

\* sipc_read fails: the event goes back to the queue, if there is memory for
\* it, and the loop ends. The work is not queued again.
ReadFails(more) == /\ putBack' = TRUE
                   /\ rxq' \in {rxq, rxq + 1}
                   /\ ReadEnds(more)

\* onedram_get_auth gives up: sipc_read returns before it has set *cond.
ReadTimesOut == /\ pc = "rauth"
                /\ ReadFails(contd)
                /\ UNCHANGED <<session, txq, delayed, last, rfsRx, rings, exitFlag,
                               left>>

ReadStarts == /\ pc = "rauth"
              /\ si # "err"
              /\ pc' = "reading"
              /\ UNCHANGED <<session, txq, wq, delayed, stale, last, reader, rings,
                             exitFlag, left>>

\* n packets of the RFS ring have been moved to rfs_rx: *cond is its length.
Moved(n) == rfsRx' = rfsRx + n

\* Mutant: a read that fails does not set *cond.
FailsAtRing(n) == /\ Moved(n)
                  /\ ReadFails(contd)

\* A ring fails, after n packets for rfs_rx.
RingFails(n) == /\ Moved(n)
                /\ ReadFails(rfsRx + n > 0)

\* The loop of sipc_read over the rings: all read; or no memory for a packet,
\* which stays in its ring with those behind it; or a bad message, which
\* purges its ring. A ring that fails ends the loop.
RingsRead ==
    /\ pc = "reading"
    /\ \/ /\ in' = [data |-> 0, rfs |-> 0]
          /\ Moved(in.rfs)
          /\ contd' = (rfsRx + in.rfs > 0)
          /\ pc' = "event"
          /\ UNCHANGED <<rxq, wq, putBack, stale>>
       \/ \E n \in 0 .. in.data : /\ in.data > 0
                                  /\ in' = [in EXCEPT !.data = n]
                                  /\ RingFails(0)
       \/ \E n \in 1 .. in.rfs, rest \in {0, 1} :
              /\ in' = [data |-> 0, rfs |-> n * rest]
              /\ RingFails(in.rfs - n)
    /\ UNCHANGED <<session, txq, delayed, last, out, exitFlag, left>>
-----------------------------------------------------------------------------
(* The write work. *)

\* svnet_write_wq: without a session the packets are dropped.
WriteBegins == /\ Take("write", IF si = "none" THEN "idle" ELSE "wauth")
               /\ txq' = IF si = "none" THEN <<>> ELSE txq
               /\ last' = "ok"
               /\ UNCHANGED <<session, delayed, stale, reader, rings, exitFlag, left>>

WriteEnds(r) == /\ last' = r
                /\ pc' = "idle"
                /\ stale' = FALSE

\* onedram_get_auth gives up: the packets stay where they are, and the work is
\* not queued again.
WriteTimesOut == /\ pc = "wauth"
                 /\ WriteEnds("ETIMEDOUT")
                 /\ UNCHANGED <<session, txq, wq, delayed, reader, rings, exitFlag, left>>

WriteStarts == /\ pc = "wauth"
               /\ si # "err"
               /\ pc' = "writing"
               /\ UNCHANGED <<session, txq, wq, delayed, stale, last, reader, rings,
                              exitFlag, left>>

\* Mutant: the ring is written without a look at the space.
WritePacketAnyway == /\ pc = "writing"
                     /\ txq # <<>>
                     /\ Head(txq) = "data"
                     /\ out' = out + 1
                     /\ txq' = Tail(txq)
                     /\ stopped' = FALSE
                     /\ UNCHANGED <<net, si, wq, delayed, pc, stale, last, reader, in,
                                    exitFlag, left>>

\* Mutant: nobody wakes the device's queue.
WritePacketStopped == /\ pc = "writing"
                      /\ txq # <<>>
                      /\ Head(txq) = "data"
                      /\ out < Room
                      /\ out' = out + 1
                      /\ txq' = Tail(txq)
                      /\ UNCHANGED <<session, wq, delayed, pc, stale, last, reader, in,
                                     exitFlag, left>>

\* The loop of sipc_write: a packet is written, which wakes the device's queue.
WritePacket == /\ pc = "writing"
               /\ txq # <<>>
               /\ Head(txq) = "data"
               /\ out < Room
               /\ out' = out + 1
               /\ txq' = Tail(txq)
               /\ stopped' = FALSE
               /\ UNCHANGED <<net, si, wq, delayed, pc, stale, last, reader, in, exitFlag,
                              left>>

\* A packet for no ring is dropped, and the loop ends with -EINVAL.
WriteInvalid == /\ pc = "writing"
                /\ txq # <<>>
                /\ Head(txq) = "bad"
                /\ txq' = Tail(txq)
                /\ WriteEnds("EINVAL")
                /\ UNCHANGED <<session, wq, delayed, reader, rings, exitFlag, left>>

WriteDone == /\ pc = "writing"
             /\ txq = <<>>
             /\ WriteEnds("ok")
             /\ UNCHANGED <<session, txq, wq, delayed, reader, rings, exitFlag, left>>

\* The ring is full: the packet goes back to the head of txq, the device's
\* queue stops.
WriteFull == /\ pc = "writing"
             /\ txq # <<>>
             /\ Head(txq) = "data"
             /\ out = Room
             /\ pc' = "full"
             /\ stopped' = TRUE
             /\ UNCHANGED <<net, si, txq, wq, delayed, stale, last, reader, rings,
                            exitFlag, left>>

\* Mutant: -ENOSPC is left to the next transmit.
FullForgets == /\ pc = "full"
               /\ WriteEnds("ENOSPC")
               /\ UNCHANGED <<session, txq, wq, delayed, reader, rings, exitFlag, left>>

\* "buffer is full, wait...": svnet_write_wq runs again after HZ/10.
FullWaits == /\ pc = "full"
             /\ WriteEnds("ENOSPC")
             /\ delayed' = Delayed("write")
             /\ UNCHANGED <<session, txq, wq, reader, rings, exitFlag, left>>
-----------------------------------------------------------------------------
(* The works rx and exit, and faults. *)

\* Mutant: the rest of the packets is left to the next read work.
RxStops == /\ Take("rx", IF si = "err" THEN "dead" ELSE "idle")
           /\ rfsRx' = IF si = "ok" /\ rfsRx > RxRate + 1 THEN rfsRx - RxRate - 1 ELSE 0
           /\ UNCHANGED <<session, txq, delayed, stale, contd, last, putBack, rxq, rings,
                          exitFlag, left>>

\* svnet_rx_wq: sipc_rx hands up RxRate + 1 packets; the rest waits HZ/10.
RxRuns == /\ Take("rx", IF si = "err" THEN "dead" ELSE "idle")
          /\ rfsRx' = IF si = "ok" /\ rfsRx > RxRate + 1 THEN rfsRx - RxRate - 1 ELSE 0
          /\ delayed' = IF rfsRx' > 0 THEN delayed \cup {"rx"} ELSE delayed
          /\ UNCHANGED <<session, txq, stale, contd, last, putBack, rxq, rings, exitFlag,
                         left>>

\* svnet_exit_wq, up to the uevent.
ExitBegins == /\ Take("exit", IF exitFlag = "NORMAL" THEN "idle" ELSE "purge")
              /\ UNCHANGED <<session, txq, delayed, stale, last, reader, rings, exitFlag,
                             left>>

\* The rest of it: both queues are purged. After a crash sipc_ramdump resets
\* the machine and never returns, unless the debug level is low.
ExitPurges == /\ pc = "purge"
              /\ rxq' = 0
              /\ txq' = <<>>
              /\ pc' \in IF exitFlag = "EXIT" THEN {"idle", "dumped"} ELSE {"idle"}
              /\ UNCHANGED <<session, wq, delayed, stale, contd, last, putBack, rfsRx,
                             rings, exitFlag, left>>

\* sipc_read or sipc_write, with the authority obtained, uses an error
\* pointer, or a session that was freed while it slept: the latter may fault
\* or go on with what is left of the memory.
Faults == /\ pc \in {"rauth", "reading", "wauth"}
          /\ si = "err" \/ stale
          /\ pc' = "dead"
          /\ UNCHANGED <<session, txq, wq, delayed, stale, last, reader, rings, exitFlag,
                         left>>
-----------------------------------------------------------------------------
(* Open and close: under the rtnl lock, hence one at a time. *)

\* svnet_open. The error pointer of a sipc_open that fails stays in sn->si, and
\* the next open takes it for a session. _init_data empties the rings.
Open == /\ net = "down"
        /\ pc \in Sleeps
        /\ Spend("open")
        /\ \/ /\ si = "none"
              /\ si' = "ok"
              /\ exitFlag' = "NORMAL"
              /\ out' = 0
              /\ in' = [data |-> 0, rfs |-> 0]
              /\ rfsRx' = 0
              /\ net' = "up"
              /\ stopped' = FALSE
           \/ /\ si = "none"
              /\ si' = "err"
              /\ UNCHANGED <<net, stopped, exitFlag, rfsRx, rings>>
           \/ /\ si = "err"
              /\ net' = "up"
              /\ stopped' = FALSE
              /\ UNCHANGED <<si, exitFlag, rfsRx, rings>>
        /\ UNCHANGED <<txq, wq, delayed, pc, stale, contd, last, putBack, rxq>>

\* The device is taken down; svnet_close begins to flush the work queue: a
\* barrier behind the works that are queued now. Timers of delayed works are
\* not waited for.
CloseBegins == /\ net = "up"
               /\ pc \in Sleeps
               /\ net' = "closing"
               /\ wq' = Append(wq, "barrier")
               /\ UNCHANGED <<si, stopped, txq, delayed, pc, stale, last, reader,
                              rings, exitFlag, left>>

Flushed == /\ Take("barrier", "idle")
           /\ net' = "flushed"
           /\ UNCHANGED <<si, stopped, txq, delayed, stale, last, reader, rings,
                          exitFlag, left>>

\* sipc_close frees the session, and with it rfs_rx. It sleeps before that
\* (sysfs_remove_group, pdp_mutex). An error pointer faults here.
CloseFrees == /\ net = "flushed"
              /\ pc \in Sleeps
              /\ si = "ok"
              /\ si' = "none"
              /\ stale' = (stale \/ pc \in {"rauth", "reading", "wauth"})
              /\ rfsRx' = 0
              /\ stopped' = TRUE
              /\ net' = "down"
              /\ UNCHANGED <<txq, wq, delayed, pc, contd, last, putBack, rxq, rings,
                             exitFlag, left>>
-----------------------------------------------------------------------------
(* The modem, while svnetd does not hold the bank. *)

CpTakes == /\ ~HasBank /\ ~Gone
           /\ out > 0
           /\ out' = out - 1
           /\ UNCHANGED <<session, txq, wq, delayed, pc, stale, last, reader, in,
                          exitFlag, left>>

CpFills(r) == /\ ~HasBank /\ ~Gone
              /\ Spend("in")
              /\ in' = [in EXCEPT ![r] = @ + 1]
              /\ UNCHANGED <<session, txq, wq, delayed, pc, stale, last, reader, out,
                             exitFlag>>
-----------------------------------------------------------------------------
Read  == ReadBegins \/ NextEvent \/ EventsDone \/ ReadTimesOut \/ ReadStarts \/ RingsRead

Write == \/ WriteBegins \/ WriteTimesOut \/ WriteStarts \/ WritePacket
         \/ WriteInvalid \/ WriteDone \/ WriteFull \/ FullWaits

Svnetd == Read \/ Write \/ RxRuns \/ ExitBegins \/ ExitPurges \/ Flushed \/ Faults

Next == \/ Svnetd
        \/ \E k \in Kinds : Xmit(k)
        \/ DataEvent
        \/ \E c \in Crashes : CrashEvent(c)
        \/ \E w \in Works : TimerFires(w)
        \/ Open \/ CloseBegins \/ CloseFrees
        \/ CpTakes
        \/ \E r \in DOMAIN in : CpFills(r)

Spec == Init /\ [][Next]_vars

\* The thread of the work queue and the timers run; the modem takes out what it
\* finds in its ring. Nobody has to send, open or close, and the modem does not
\* have to give the bank away in time.
Fairness == /\ WF_vars(Svnetd)
            /\ \A w \in Works : WF_vars(TimerFires(w))
            /\ SF_vars(CpTakes)

FairSpec == Spec /\ Fairness
-----------------------------------------------------------------------------
(* Properties. *)

TypeOK == /\ net \in {"down", "up", "closing", "flushed"}
          /\ si \in {"none", "ok", "err"}
          /\ stopped \in BOOLEAN
          /\ txq \in Seq({"data", "bad"})
          /\ rxq \in Nat
          /\ wq \in Seq(Works \cup {"barrier"})
          /\ delayed \subseteq {"write", "rx"}
          /\ pc \in Places
          /\ stale \in BOOLEAN
          /\ contd \in BOOLEAN
          /\ last \in Results
          /\ putBack \in BOOLEAN
          /\ rfsRx \in Nat
          /\ out \in 0 .. Room
          /\ in \in [{"data", "rfs"} -> Nat]
          /\ exitFlag \in {"NORMAL", "RESET", "EXIT"}
          /\ left \in [{"tx", "mail", "in", "open"} -> Nat]

\* A packet in txq has a write work that will look at it: works are queued once
\* however often they are asked for, run while packets are added, and find the
\* ring full. The exceptions are the two errors of sipc_write after which
\* svnet_write_wq does nothing.
PacketsHaveWork ==
    txq # <<>> => \/ Pending("write")
                  \/ pc \in {"wauth", "writing", "full"}
                  \/ last \in {"ETIMEDOUT", "EINVAL"}
                  \/ Gone

\* A device whose queue sipc_write has stopped has a packet waiting, and with
\* it a write work that will start the queue again, unless that work timed out
\* or the exit work has purged the packet.
StoppedHasWork ==
    net = "up" /\ stopped => \/ /\ txq # <<>>
                                /\ Pending("write") \/ pc \in {"wauth", "writing", "full"}
                             \/ last = "ETIMEDOUT"
                             \/ exitFlag # "NORMAL"
                             \/ Gone

\* An event in rxq has a read work that will take it up, unless the last
\* sipc_read failed and put its event back.
EventsHaveWork ==
    rxq > 0 => \/ Pending("read")
               \/ pc \in {"event", "rauth", "reading"}
               \/ putBack
               \/ Gone

\* RFS packets taken out of their ring are handed up by the work rx: no failure
\* of a later event, or of a later ring, leaves them behind.
RfsHasWork ==
    rfsRx > 0 => \/ Pending("rx")
                 \/ pc \in {"event", "rauth", "reading"}
                 \/ Gone

\* txq is emptied, by writing or purging, unless a write work has failed.
TxDrains == txq # <<>> ~> (txq = <<>> \/ last \in {"ETIMEDOUT", "EINVAL"} \/ Gone)

\* All RFS packets are handed up, RxRate + 1 at a time.
RfsDrains == rfsRx > 0 ~> (rfsRx = 0 \/ Gone)

\* "not allowed for your TX mitigation scheme to let TX packets hang out in the
\* TX ring unreclaimed forever if no new TX packets are sent": txq is emptied.
PacketsLeave == txq # <<>> ~> txq = <<>>
=============================================================================
