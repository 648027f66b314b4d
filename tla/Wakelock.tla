------------------------------ MODULE Wakelock ------------------------------
(***************************************************************************)
(* Wake locks and the suspend they hold back: kernel/power/wakelock.c with *)
(* the suspend sequence of kernel/power/suspend.c that its work item runs. *)
(*                                                                         *)
(* A lock of type WAKE_LOCK_SUSPEND is inactive, held until it is unlocked,*)
(* or active with a timeout. Every operation on it runs under list_lock    *)
(* with interrupts off and is one step; drivers call them from threads,    *)
(* interrupts and timers, between any two steps of the suspend work.       *)
(***************************************************************************)
EXTENDS Naturals, FiniteSets

CONSTANTS Locks,       \* the wake locks of type WAKE_LOCK_SUSPEND
          Main,        \* main_wake_lock
          Unknown,     \* unknown_wakeup, which only suspend() takes
          TimerLocks,  \* locks that timer interrupts take
          MaxTimeout,  \* longest timeout, in jiffies
          UnknownTime, \* timeout of Unknown (HZ / 2 in the code)
          MaxOps,      \* bound on the locks that drivers take
          MaxFaults    \* bound on suspends that fail for another reason

ASSUME WakelockAssumption ==
    /\ Main \in Locks
    /\ Unknown \in Locks \ {Main}
    /\ TimerLocks \subseteq Locks \ {Unknown}
    /\ MaxTimeout \in Nat
    /\ UnknownTime \in 0 .. MaxTimeout
    /\ MaxOps \in Nat
    /\ MaxFaults \in Nat

VARIABLES held,    \* active locks without a timeout
          auto,    \* active locks with WAKE_LOCK_AUTO_EXPIRE, expired ones
                   \* that nobody has noticed yet included
          left,    \* jiffies until each of them expires
          armed,   \* expire_timer is pending ...
          due,     \* ... and runs in so many jiffies
          firing,  \* expire_wake_locks has been called, list_lock not taken
          queued,  \* suspend_work is pending
          event,   \* current_event_num # entry_event_num
          pc,      \* where the suspend work stands
          maxFreq, \* set_max_freq_flag: the CPU is locked at full speed
          ops, faults

locks == <<held, auto, left, armed, due, queued>>
vars  == <<locks, firing, event, pc, maxFreq, ops, faults>>

\* The places of suspend(): before has_wake_lock, before the event number is
\* noted, before pm_suspend, freezing, suspending devices, device interrupts
\* off, power_suspend_late passed, asleep, resuming, before the last test.
Places == {"idle", "check", "entry", "sync", "freeze", "devices", "noirq",
           "late", "asleep", "resume", "exit"}

\* After power_suspend_late the interrupts of the drivers are masked, processes
\* are frozen, and the suspend work does not sleep any more.
DriversRun == pc \notin {"late", "asleep"}

\* Timer interrupts run until arch_suspend_disable_irqs.
TimersRun == pc # "asleep"
-----------------------------------------------------------------------------
(* The lock list. *)

\* has_wake_lock(WAKE_LOCK_SUSPEND) returns non-zero.
Live    == {l \in auto : left[l] > 0}
HasLock == held # {} \/ Live # {}

\* has_wake_lock_locked takes expired locks off the list, unless it meets a
\* lock without timeout: those are at its head.
Expire == auto' = IF held # {} THEN auto ELSE Live

\* Mutant: an unlock that leaves locks with a timeout does not start the
\* timer.
SettleNoTimer(h, a, f) ==
    LET live == {l \in a : f[l] > 0}
    IN  /\ held' = h
        /\ auto' = IF h = {} THEN live ELSE a
        /\ left' = f
        /\ \/ /\ h = {} /\ live # {}
              /\ UNCHANGED <<armed, due, queued>>
           \/ /\ h # {} \/ live = {}
              /\ armed' = FALSE
              /\ due' = 0
              /\ queued' = (queued \/ h = {})

\* Common tail of wake_lock_internal and wake_unlock, given the list they
\* have made: with only timeouts left the timer is set for the last of them,
\* otherwise it is stopped, and with nothing left suspend_work is queued.
Settle(h, a, f) ==
    LET live == {l \in a : f[l] > 0}
    IN  /\ held' = h
        /\ auto' = IF h = {} THEN live ELSE a
        /\ left' = f
        /\ \/ /\ h = {} /\ live # {}
              /\ armed' = TRUE
              /\ due' \in {f[l] : l \in live}
              /\ \A l \in live : f[l] <= due'
              /\ UNCHANGED queued
           \/ /\ h # {} \/ live = {}
              /\ armed' = FALSE
              /\ due' = 0
              /\ queued' = (queued \/ h = {})

\* Mutant: the lock stays where it was on the list.
LockTwice(l) == /\ Settle(held \cup {l}, auto, left)
                /\ event' = TRUE

\* wake_lock
Lock(l) == /\ Settle(held \cup {l}, auto \ {l}, left)
           /\ event' = TRUE

\* wake_lock_timeout
LockTimeout(l, t) ==
    /\ Settle(held \ {l}, auto \cup {l}, [left EXCEPT ![l] = t])
    /\ event' = TRUE

\* wake_unlock
Unlock(l) == /\ Settle(held \ {l}, auto \ {l}, left)
             /\ UNCHANGED event
-----------------------------------------------------------------------------
\* wakelocks_init: main_wake_lock is held at boot.
Init == /\ held = {Main}
        /\ auto = {}
        /\ left = [l \in Locks |-> 0]
        /\ armed = FALSE
        /\ due = 0
        /\ firing = FALSE
        /\ queued = FALSE
        /\ event = FALSE
        /\ pc = "idle"
        /\ maxFreq = FALSE
        /\ ops = MaxOps
        /\ faults = MaxFaults

(* The drivers, user space (userwakelock.c) and earlysuspend.c. *)

MayTake(l) == /\ l # Unknown
              /\ ops > 0
              /\ ops' = ops - 1
              /\ UNCHANGED <<firing, pc, maxFreq, faults>>

TakeLock(l) == /\ DriversRun
               /\ MayTake(l)
               /\ Lock(l)

\* Timer interrupts take locks too (alarm_triggered of drivers/rtc/alarm-dev.c
\* for the alarms that alarm_suspend does not cancel).
TakeTimeout(l, t) == /\ l # Main
                     /\ DriversRun \/ (TimersRun /\ l \in TimerLocks)
                     /\ MayTake(l)
                     /\ LockTimeout(l, t)

\* The lock may have expired or have been released before.
ReleaseLock(l) == /\ l # Unknown
                  /\ DriversRun
                  /\ Unlock(l)
                  /\ UNCHANGED <<firing, pc, maxFreq, ops, faults>>

\* wake_lock_destroy, of a lock that is inactive or runs out by itself: it
\* touches neither the timer nor the work.
Destroy(l) == /\ l \in auto \ {Unknown}
              /\ DriversRun
              /\ auto' = auto \ {l}
              /\ UNCHANGED <<held, left, armed, due, queued, firing, event, pc,
                             maxFreq, ops, faults>>

(* Time. *)

\* A jiffy passes.
Tick == /\ TimersRun
        /\ left' = [l \in Locks |-> IF left[l] > 0 THEN left[l] - 1 ELSE 0]
        /\ due' = IF due > 0 THEN due - 1 ELSE 0
        /\ UNCHANGED <<held, auto, armed, firing, queued, event, pc, maxFreq,
                       ops, faults>>

\* The timer softirq takes the timer off its list ...
TimerFires == /\ TimersRun
              /\ armed /\ due = 0
              /\ armed' = FALSE
              /\ firing' = TRUE
              /\ UNCHANGED <<held, auto, left, due, queued, event, pc, maxFreq,
                             ops, faults>>

\* ... and calls expire_wake_locks, which never sets the timer again.
ExpireWakeLocks == /\ TimersRun
                   /\ firing
                   /\ firing' = FALSE
                   /\ Expire
                   /\ queued' = (queued \/ ~HasLock)
                   /\ UNCHANGED <<held, left, armed, due, event, pc, maxFreq, ops,
                                  faults>>
-----------------------------------------------------------------------------
(* The suspend work. *)

step == <<held, left, armed, due, firing, ops>>

\* Something the locks have nothing to do with fails.
Fault == faults > 0 /\ faults' = faults - 1

\* The workqueue thread clears the pending bit and calls suspend().
RunWork == /\ pc = "idle"
           /\ queued
           /\ queued' = FALSE
           /\ pc' = "check"
           /\ UNCHANGED <<step, auto, event, maxFreq, faults>>

CheckLocks == /\ pc = "check"
              /\ pc' = IF HasLock THEN "idle" ELSE "entry"
              /\ Expire
              /\ UNCHANGED <<step, queued, event, maxFreq, faults>>

\* entry_event_num = current_event_num.
NoteEvent == /\ pc = "entry"
             /\ pc' = "sync"
             /\ event' = FALSE
             /\ UNCHANGED <<step, auto, queued, maxFreq, faults>>

\* pm_suspend is called after sys_sync. It fails when the state requested by
\* then is PM_SUSPEND_ON, a notifier objects, or user mode helpers run on.
PmSuspend == /\ pc = "sync"
             /\ \/ pc' = "freeze" /\ UNCHANGED faults
                \/ pc' = "exit" /\ Fault
             /\ UNCHANGED <<step, auto, queued, event, maxFreq>>

\* try_to_freeze_tasks: all frozen; some are not and a lock is looked for; or
\* the time is up.
Freeze == /\ pc = "freeze"
          /\ \/ pc' = "devices" /\ UNCHANGED <<auto, faults>>
             \/ /\ pc' = IF HasLock THEN "exit" ELSE "freeze"
                /\ Expire
                /\ UNCHANGED faults
             \/ pc' = "exit" /\ Fault /\ UNCHANGED auto
          /\ UNCHANGED <<step, queued, event, maxFreq>>

\* dpm_suspend_start, then suspend_enter locks the CPU at full speed.
SuspendDevices == /\ pc = "devices"
                  /\ \/ pc' = "noirq" /\ maxFreq' = TRUE /\ UNCHANGED faults
                     \/ pc' = "exit" /\ Fault /\ UNCHANGED maxFreq
                  /\ UNCHANGED <<step, auto, queued, event>>

\* Mutant: the suspend handler of the power device is not called.
SuspendLateBlind == /\ pc = "noirq"
                    /\ pc' \in {"late", "resume"}
                    /\ UNCHANGED <<step, auto, faults, queued, event, maxFreq>>

\* dpm_suspend_noirq: power_suspend_late looks for a lock once more, and the
\* handlers of other devices may fail. On failure suspend_enter returns with
\* the CPU still locked at full speed.
SuspendLate == /\ pc = "noirq"
               /\ \/ /\ pc' = IF HasLock THEN "resume" ELSE "late"
                     /\ Expire
                     /\ UNCHANGED faults
                  \/ pc' = "resume" /\ Fault /\ UNCHANGED auto
               /\ UNCHANGED <<step, queued, event, maxFreq>>

\* Interrupts off; sysdev_suspend may fail; the CPU sleeps.
Sleep == /\ pc = "late"
         /\ \/ pc' = "asleep" /\ UNCHANGED <<faults, maxFreq>>
            \/ pc' = "resume" /\ maxFreq' = FALSE /\ Fault
         /\ UNCHANGED <<step, auto, queued, event>>

\* A wake-up source ends the sleep.
WakeUp == /\ pc = "asleep"
          /\ pc' = "resume"
          /\ maxFreq' = FALSE
          /\ UNCHANGED <<step, auto, queued, event, faults>>

\* dpm_resume_noirq, dpm_resume_end, suspend_finish.
Resume == /\ pc = "resume"
          /\ pc' = "exit"
          /\ UNCHANGED <<step, auto, queued, event, maxFreq, faults>>

\* Mutant: a suspend that ends without an event is not followed up.
ReturnsSilently == /\ pc = "exit"
                   /\ pc' = "idle"
                   /\ UNCHANGED <<locks, firing, event, maxFreq, ops, faults>>

\* pm_suspend has returned: with no event since entry, Unknown holds the next
\* attempt back for a while.
Returns == /\ pc = "exit"
           /\ pc' = "idle"
           /\ \/ ~event /\ LockTimeout(Unknown, UnknownTime)
              \/ event /\ UNCHANGED <<locks, event>>
           /\ UNCHANGED <<firing, maxFreq, ops, faults>>

Suspend == \/ RunWork \/ CheckLocks \/ NoteEvent \/ PmSuspend \/ Freeze
           \/ SuspendDevices \/ SuspendLate \/ Sleep \/ Resume \/ Returns

Drivers == \E l \in Locks : \/ TakeLock(l)
                            \/ \E t \in 0 .. MaxTimeout : TakeTimeout(l, t)
                            \/ ReleaseLock(l)
                            \/ Destroy(l)

Next == Suspend \/ WakeUp \/ Drivers \/ Tick \/ TimerFires \/ ExpireWakeLocks

Spec == Init /\ [][Next]_vars

\* Time passes, the timer softirq runs, the workqueue thread is scheduled.
\* Nothing has to wake the system up, and nobody has to release a lock.
FairSpec == Spec /\ WF_vars(Suspend) /\ WF_vars(Tick) /\ WF_vars(TimerFires)
                 /\ WF_vars(ExpireWakeLocks)
-----------------------------------------------------------------------------
(* Properties. *)

\* Every variable keeps its type, and a lock is never on the list both as held
\* and with a timeout, whatever order it is taken and released in.
TypeOK == /\ held \subseteq Locks
          /\ auto \subseteq Locks \ held
          /\ left \in [Locks -> Nat]
          /\ armed \in BOOLEAN
          /\ due \in Nat
          /\ firing \in BOOLEAN
          /\ queued \in BOOLEAN
          /\ event \in BOOLEAN
          /\ pc \in Places
          /\ maxFreq \in BOOLEAN
          /\ ops \in Nat
          /\ faults \in Nat

\* wakelock.h: "A wake_lock prevents the system from entering suspend or other
\* low power states when active", whenever it was taken while the suspend was
\* under way.
NoSleepWhenLocked == pc = "asleep" => ~HasLock

\* When nothing but timeouts holds suspend back, the timer is set for the last
\* of them or is just about to look at the list: no order of locks, unlocks,
\* expiries and has_wake_lock calls leaves a lock with nobody to end it.
TimerCovers == held = {} => \/ armed /\ \A l \in auto : left[l] <= due
                            \/ firing /\ Live = {}
                            \/ auto = {}

\* While no lock is held the next suspend is always on its way: a work, or a
\* timer that will queue one. Whatever ends a suspend (a lock that came and
\* went, a failure, a wake-up without a lock) the system does not stay awake
\* for good.
SuspendOnItsWay == held = {} /\ pc = "idle" => queued \/ armed \/ firing

\* Kconfig: "the sleep request will be delayed until no wake locks are held",
\* and no longer: unless a lock is held for ever, the system goes to sleep,
\* and again after every wake-up.
SleepsAgain == []<>(pc = "asleep") \/ <>[](held # {})
=============================================================================
