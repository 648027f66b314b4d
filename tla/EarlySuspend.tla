---------------------------- MODULE EarlySuspend ----------------------------
(***************************************************************************)
(* Early suspend and late resume (kernel/power/earlysuspend.c): user space *)
(* writes "mem" or "on" to /sys/power/state, and the single thread of      *)
(* suspend_work_queue calls the handlers of the drivers and releases       *)
(* main_wake_lock, after which wakelock.c may queue the suspend proper.    *)
(* Of wakelock.c only main_wake_lock is kept: the other locks appear as    *)
(* the choice whether a suspend is queued and whether it goes through      *)
(* (module Wakelock has them).                                             *)
(***************************************************************************)
EXTENDS SequencesExt

CONSTANTS Handlers,   \* the early_suspend structures of the drivers
          Level       \* handler->level

ASSUME EarlySuspendAssumption == Level \in [Handlers -> Nat]

VARIABLES req,        \* state & SUSPEND_REQUESTED
          susp,       \* state & SUSPENDED
          requested,  \* requested_suspend_state
          main,       \* main_wake_lock is active
          queue,      \* the works pending on suspend_work_queue
          pc,         \* where its thread stands
          list,       \* early_suspend_handlers
          at,         \* position of the next handler to call
          down        \* handlers whose suspend has been called, not their resume

vars == <<req, susp, requested, main, queue, pc, list, at, down>>

Works == {"early", "late", "suspend"}

\* The thread is idle; has taken a work off the queue; calls handlers with
\* early_suspend_lock held; is before the last test of early_suspend; has
\* found no lock; freezes processes; has frozen them; the system is asleep.
Places == {"idle"} \cup Works
          \cup {"suspending", "tail", "resuming", "sync", "freezing", "frozen",
                "asleep"}

MutexFree == pc \notin {"suspending", "resuming"}

\* Mutant: the pending bit is cleared when the work has run.
QueuedIfIdle(w) == IF Contains(queue, w) \/ (w = "early" /\ pc = "tail")
                   THEN queue ELSE Append(queue, w)

\* queue_work: a work that is pending is not queued again.
Queued(w) == IF Contains(queue, w) THEN queue ELSE Append(queue, w)

\* Boot: handlers not called, main_wake_lock taken by wakelocks_init.
Init == /\ req = FALSE
        /\ susp = FALSE
        /\ requested = "mem"
        /\ main = TRUE
        /\ queue = <<>>
        /\ pc = "idle"
        /\ list = <<>>
        /\ at = 0
        /\ down = {}
-----------------------------------------------------------------------------
(* User space and the drivers. *)

\* state_store and request_suspend_state; frozen processes write nothing.
Request(s) == /\ pc \notin {"frozen", "asleep"}
              /\ requested' = s
              /\ \/ /\ ~req /\ s # "on"
                    /\ req' = TRUE
                    /\ queue' = Queued("early")
                    /\ UNCHANGED main
                 \/ /\ req /\ s = "on"
                    /\ req' = FALSE
                    /\ main' = TRUE
                    /\ queue' = Queued("late")
                 \/ /\ req <=> s # "on"
                    /\ UNCHANGED <<req, main, queue>>
              /\ UNCHANGED <<susp, pc, list, at, down>>

\* Mutant: a handler is always added at the end of the list.
PlaceLast(h, i) == i = Len(list) + 1

\* i is the position of the first handler with a higher level, or the end.
Place(h, i) == /\ \A j \in 1 .. i - 1 : Level[list[j]] <= Level[h]
               /\ i <= Len(list) => Level[list[i]] > Level[h]

\* Mutant: a handler that comes late is not told.
RegisterUntold(h) == /\ MutexFree
                     /\ pc # "asleep"
                     /\ ~Contains(list, h)
                     /\ \E i \in 1 .. Len(list) + 1 :
                          Place(h, i) /\ list' = InsertAt(list, i, h)
                     /\ UNCHANGED <<down, req, susp, requested, main, queue, pc,
                                    at>>

\* register_early_suspend calls the handler's suspend when the others have
\* been called.
Register(h) == /\ MutexFree
               /\ pc # "asleep"
               /\ ~Contains(list, h)
               /\ \E i \in 1 .. Len(list) + 1 :
                    Place(h, i) /\ list' = InsertAt(list, i, h)
               /\ down' = IF susp THEN down \cup {h} ELSE down
               /\ UNCHANGED <<req, susp, requested, main, queue, pc, at>>

\* unregister_early_suspend; the driver is gone with its handler.
Unregister(h) == /\ MutexFree
                 /\ pc # "asleep"
                 /\ \E i \in 1 .. Len(list) : /\ list[i] = h
                                              /\ list' = RemoveAt(list, i)
                 /\ down' = down \ {h}
                 /\ UNCHANGED <<req, susp, requested, main, queue, pc, at>>

\* wakelock.c queues suspend_work when the last lock goes: main_wake_lock is
\* not active then.
LastLockGoes == /\ ~main
                /\ pc # "asleep"
                /\ queue' = Queued("suspend")
                /\ UNCHANGED <<req, susp, requested, main, pc, list, at, down>>
-----------------------------------------------------------------------------
(* The thread of suspend_work_queue. *)

TakeWork == /\ pc = "idle"
            /\ queue # <<>>
            /\ pc' = Head(queue)
            /\ queue' = Tail(queue)
            /\ UNCHANGED <<req, susp, requested, main, list, at, down>>

\* Mutant: the test is `state & SUSPEND_REQUESTED'.
EarlyBeginsAgain == /\ pc = "early"
                    /\ \/ /\ req
                          /\ susp' = TRUE
                          /\ at' = 1
                          /\ pc' = "suspending"
                       \/ /\ ~req
                          /\ pc' = "tail"
                          /\ UNCHANGED <<susp, at>>
                    /\ UNCHANGED <<req, requested, main, queue, list, down>>

\* Mutant: where there is nothing to call, early_suspend returns.
EarlyBeginsReturns == /\ pc = "early"
                      /\ \/ /\ req /\ ~susp
                            /\ susp' = TRUE
                            /\ at' = 1
                            /\ pc' = "suspending"
                         \/ /\ ~req \/ susp
                            /\ pc' = "idle"
                            /\ UNCHANGED <<susp, at>>
                      /\ UNCHANGED <<req, requested, main, queue, list, down>>

\* early_suspend, up to the handlers.
EarlyBegins == /\ pc = "early"
               /\ \/ /\ req /\ ~susp
                     /\ susp' = TRUE
                     /\ at' = 1
                     /\ pc' = "suspending"
                  \/ /\ ~req \/ susp
                     /\ pc' = "tail"
                     /\ UNCHANGED <<susp, at>>
               /\ UNCHANGED <<req, requested, main, queue, list, down>>

CallSuspend == /\ pc = "suspending"
               /\ at <= Len(list)
               /\ down' = down \cup {list[at]}
               /\ at' = at + 1
               /\ UNCHANGED <<req, susp, requested, main, queue, pc, list>>

HandlersSuspended == /\ pc = "suspending"
                     /\ at > Len(list)
                     /\ pc' = "tail"
                     /\ UNCHANGED <<req, susp, requested, main, queue, list, at,
                                    down>>

\* Its last test, also reached when it called nothing: wake_unlock queues the
\* suspend unless another lock is active.
EarlyEnds == /\ pc = "tail"
             /\ pc' = "idle"
             /\ \/ /\ req /\ susp
                   /\ main' = FALSE
                   /\ queue' \in {queue, Queued("suspend")}
                \/ /\ ~req \/ ~susp
                   /\ UNCHANGED <<main, queue>>
             /\ UNCHANGED <<req, susp, requested, list, at, down>>

\* Mutant: late_resume does not look whether a sleep has been requested again.
LateBeginsBlind == /\ pc = "late"
                   /\ \/ /\ susp
                         /\ susp' = FALSE
                         /\ at' = Len(list)
                         /\ pc' = "resuming"
                      \/ /\ ~susp
                         /\ pc' = "idle"
                         /\ UNCHANGED <<susp, at>>
                   /\ UNCHANGED <<req, requested, main, queue, list, down>>

\* Mutant: the loop over the handlers begins one too early.
LateBeginsShort == /\ pc = "late"
                   /\ \/ /\ susp /\ ~req
                         /\ susp' = FALSE
                         /\ at' = Len(list) - 1
                         /\ pc' = "resuming"
                      \/ /\ ~susp \/ req
                         /\ pc' = "idle"
                         /\ UNCHANGED <<susp, at>>
                   /\ UNCHANGED <<req, requested, main, queue, list, down>>

\* late_resume, up to the handlers.
LateBegins == /\ pc = "late"
              /\ \/ /\ susp /\ ~req
                    /\ susp' = FALSE
                    /\ at' = Len(list)
                    /\ pc' = "resuming"
                 \/ /\ ~susp \/ req
                    /\ pc' = "idle"
                    /\ UNCHANGED <<susp, at>>
              /\ UNCHANGED <<req, requested, main, queue, list, down>>

CallResume == /\ pc = "resuming"
              /\ at >= 1
              /\ down' = down \ {list[at]}
              /\ at' = at - 1
              /\ UNCHANGED <<req, susp, requested, main, queue, pc, list>>

LateEnds == /\ pc = "resuming"
            /\ at = 0
            /\ pc' = "idle"
            /\ UNCHANGED <<req, susp, requested, main, queue, list, at, down>>

\* suspend() of wakelock.c. Where a lock ends it, or something else does, the
\* thread is idle again; main_wake_lock always ends it.
suspendSame == <<req, susp, requested, main, queue, list, at, down>>

CheckLocks == /\ pc = "suspend"
              /\ pc' \in IF main THEN {"idle"} ELSE {"idle", "sync"}
              /\ UNCHANGED suspendSame

\* requested_suspend_state is read after sys_sync; pm_suspend refuses
\* PM_SUSPEND_ON.
PmSuspend == /\ pc = "sync"
             /\ pc' = IF requested = "on" THEN "idle" ELSE "freezing"
             /\ UNCHANGED suspendSame

\* User space may still write to /sys/power/state while it is being frozen.
Freeze == /\ pc = "freezing"
          /\ pc' \in {"idle", "frozen"}
          /\ UNCHANGED suspendSame

SuspendLate == /\ pc = "frozen"
               /\ pc' \in IF main THEN {"idle"} ELSE {"idle", "asleep"}
               /\ UNCHANGED suspendSame

WakeUp == /\ pc = "asleep"
          /\ pc' = "idle"
          /\ UNCHANGED suspendSame

Worker == \/ TakeWork \/ EarlyBegins \/ CallSuspend \/ HandlersSuspended
          \/ EarlyEnds \/ LateBegins \/ CallResume \/ LateEnds \/ CheckLocks
          \/ PmSuspend \/ Freeze \/ SuspendLate

Next == \/ Worker \/ WakeUp \/ LastLockGoes
        \/ \E s \in {"on", "mem"} : Request(s)
        \/ \E h \in Handlers : Register(h) \/ Unregister(h)

Spec == Init /\ [][Next]_vars

\* The thread is scheduled while the system is awake. Nothing has to wake it
\* up, and user space and the drivers need not do anything.
FairSpec == Spec /\ WF_vars(Worker)
-----------------------------------------------------------------------------
(* Properties. *)

\* Every variable keeps its type; the walk over the handlers never leaves the
\* list at its low end.
TypeOK == /\ req \in BOOLEAN
          /\ susp \in BOOLEAN
          /\ requested \in {"on", "mem"}
          /\ main \in BOOLEAN
          /\ queue \in Seq(Works)
          /\ pc \in Places
          /\ list \in Seq(Handlers)
          /\ at \in Nat
          /\ down \subseteq Handlers

\* The system sleeps only if user space's last word was to sleep, and with
\* every registered driver told: a wake-up request that comes while the
\* suspend is under way ends it.
SleepsOnRequest == pc = "asleep" => /\ req /\ susp
                                    /\ requested # "on"
                                    /\ ToSet(list) \subseteq down

\* earlysuspend.h speaks of "a matching call to the resume handlers": suspend
\* and resume of each handler are called in turn, however requests, works and
\* registrations interleave.
CallsAlternate ==
    /\ pc = "suspending" /\ at \in DOMAIN list => list[at] \notin down
    /\ pc = "resuming" /\ at \in DOMAIN list => list[at] \in down

\* Outside of the two handler loops every registered handler agrees with the
\* SUSPENDED bit, the one that registered late included.
HandlersAgree ==
    MutexFree => \A h \in ToSet(list) : h \in down <=> susp

\* earlysuspend.h: "Suspend handlers are called in low to high level order,
\* resume handlers are called in the opposite order".
LevelOrder ==
    at \in DOMAIN list =>
      \A h \in ToSet(list) :
        /\ pc = "suspending" /\ Level[h] < Level[list[at]] => h \in down
        /\ pc = "resuming" /\ Level[h] > Level[list[at]] => h \notin down

\* A request that has not been carried out has a work that will: although a
\* pending work is not queued twice and works abort when the state has moved
\* on, no sequence of requests leaves the handlers or main_wake_lock behind.
NothingOwed ==
    /\ req /\ main => \/ Contains(queue, "early")
                      \/ pc \in {"early", "suspending"}
                      \/ pc = "tail" /\ susp
    /\ ~req /\ susp => Contains(queue, "late") \/ pc = "late"

\* A sleep request that is not taken back releases main_wake_lock.
SleepComes == req ~> (~main \/ ~req)

\* A wake-up request that is not taken back resumes every handler.
ResumeComes == ~req ~> (req \/ (MutexFree /\ ToSet(list) \cap down = {}))
=============================================================================
