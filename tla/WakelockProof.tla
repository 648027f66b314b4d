--------------------------- MODULE WakelockProof ---------------------------
(***************************************************************************)
(* Proofs about Wakelock, for every set of locks and every bound.          *)
(***************************************************************************)
EXTENDS Wakelock, TLAPS

\* The places of suspend() between the two readings of current_event_num.
Attempt == {"sync", "freeze", "devices", "noirq", "late", "asleep", "resume",
            "exit"}

\* SuspendOnItsWay, also while an attempt is under way in which an event has
\* been counted: suspend() will then return without taking Unknown.
Underway == held = {} /\ (pc = "idle" \/ (pc \in Attempt /\ event))
                => queued \/ armed \/ firing

\* Once power_suspend_late has found no lock, only timers can have taken one.
LateClean == pc \in {"late", "asleep"} => held \cup auto \subseteq TimerLocks

IInv == TypeOK /\ TimerCovers /\ Underway /\ LateClean

-----------------------------------------------------------------------------
\* What Settle leaves behind: a well-typed list that the timer covers, and a
\* suspend on its way unless a lock is held.
LEMMA SettleFacts ==
  ASSUME NEW h \in SUBSET Locks, NEW a \in SUBSET (Locks \ h),
         NEW f \in [Locks -> Nat], queued \in BOOLEAN,
         Settle(h, a, f)
  PROVE  /\ held' = h
         /\ held' \subseteq Locks
         /\ auto' \subseteq a
         /\ left' \in [Locks -> Nat]
         /\ armed' \in BOOLEAN
         /\ due' \in Nat
         /\ queued' \in BOOLEAN
         /\ TimerCovers'
         /\ h = {} => queued' \/ armed'
<1>1. CASE h = {} /\ {l \in a : f[l] > 0} # {}
  <2>1. /\ held' = h
        /\ auto' = {l \in a : f[l] > 0}
        /\ left' = f
        /\ armed' = TRUE
        /\ due' \in {f[l] : l \in {l \in a : f[l] > 0}}
        /\ \A l \in {k \in a : f[k] > 0} : f[l] <= due'
        /\ queued' = queued
    BY <1>1 DEF Settle
  <2>2. due' \in Nat
    BY <2>1
  <2>3. TimerCovers'
    BY <2>1 DEF TimerCovers
  <2> QED BY <2>1, <2>2, <2>3
<1>2. CASE h # {} \/ {l \in a : f[l] > 0} = {}
  <2>1. /\ held' = h
        /\ auto' = IF h = {} THEN {l \in a : f[l] > 0} ELSE a
        /\ left' = f
        /\ armed' = FALSE
        /\ due' = 0
        /\ queued' = (queued \/ h = {})
    BY <1>2 DEF Settle
  <2>2. TimerCovers'
    BY <1>2, <2>1 DEF TimerCovers
  <2> QED BY <1>2, <2>1, <2>2
<1> QED BY <1>1, <1>2

\* Taking expired locks off the list keeps its type and what covers it.
LEMMA ExpireFacts ==
  ASSUME TypeOK, TimerCovers, Expire,
         UNCHANGED <<held, left, armed, due>>, firing' = firing
  PROVE  /\ auto' \subseteq auto
         /\ TimerCovers'
BY DEF TypeOK, TimerCovers, Expire, Live

\* If has_wake_lock finds a lock and none is held, the timer is set.
LEMMA TimerSet ==
  ASSUME TypeOK, TimerCovers, held = {}, HasLock
  PROVE  armed
BY DEF TypeOK, TimerCovers, HasLock, Live
-----------------------------------------------------------------------------
\* The invariant holds at boot, with main_wake_lock held.
LEMMA InitInv == Init => IInv
<1> SUFFICES ASSUME Init PROVE IInv
  OBVIOUS
<1>1. held = {Main} /\ held # {}
  BY DEF Init
<1>2. TypeOK
  BY WakelockAssumption DEF Init, TypeOK, Places, WakelockAssumption
<1>3. TimerCovers /\ Underway /\ LateClean
  BY <1>1 DEF Init, TimerCovers, Underway, LateClean
<1> QED BY <1>2, <1>3 DEF IInv

\* The steps in which a driver, a timer or user space changes the locks.
LEMMA DriverSteps ==
  ASSUME IInv, NEW l \in Locks,
         \/ TakeLock(l)
         \/ \E t \in 0 .. MaxTimeout : TakeTimeout(l, t)
         \/ ReleaseLock(l)
         \/ Destroy(l)
  PROVE  IInv'
<1> USE DEF IInv
<1>1. CASE TakeLock(l)
  <2>1. Settle(held \cup {l}, auto \ {l}, left) /\ event' = TRUE
    BY <1>1 DEF TakeLock, Lock
  <2>2. /\ pc' = pc /\ firing' = firing /\ maxFreq' = maxFreq
        /\ faults' = faults /\ ops' = ops - 1 /\ ops > 0 /\ DriversRun
    BY <1>1 DEF TakeLock, MayTake
  <2>3. /\ held \cup {l} \in SUBSET Locks
        /\ auto \ {l} \in SUBSET (Locks \ (held \cup {l}))
        /\ left \in [Locks -> Nat] /\ queued \in BOOLEAN
    BY DEF TypeOK
  <2>4. /\ held' = held \cup {l}
        /\ held' \subseteq Locks
        /\ auto' \subseteq auto \ {l}
        /\ left' \in [Locks -> Nat] /\ armed' \in BOOLEAN
        /\ due' \in Nat /\ queued' \in BOOLEAN /\ TimerCovers'
    BY <2>1, <2>3, SettleFacts
  <2>5. TypeOK'
    BY <2>1, <2>2, <2>4 DEF TypeOK
  <2>6. Underway'
    BY <2>4 DEF Underway
  <2>7. LateClean'
    BY <2>2 DEF LateClean, DriversRun
  <2> QED BY <2>4, <2>5, <2>6, <2>7
<1>2. ASSUME NEW t \in 0 .. MaxTimeout, TakeTimeout(l, t)
      PROVE  IInv'
  <2>1. Settle(held \ {l}, auto \cup {l}, [left EXCEPT ![l] = t])
        /\ event' = TRUE
    BY <1>2 DEF TakeTimeout, LockTimeout
  <2>2. /\ pc' = pc /\ firing' = firing /\ maxFreq' = maxFreq
        /\ faults' = faults /\ ops' = ops - 1 /\ ops > 0
        /\ DriversRun \/ l \in TimerLocks
    BY <1>2 DEF TakeTimeout, MayTake
  <2>3. /\ held \ {l} \in SUBSET Locks
        /\ auto \cup {l} \in SUBSET (Locks \ (held \ {l}))
        /\ [left EXCEPT ![l] = t] \in [Locks -> Nat] /\ queued \in BOOLEAN
    BY WakelockAssumption DEF TypeOK
  <2>4. /\ held' = held \ {l}
        /\ held' \subseteq Locks
        /\ auto' \subseteq auto \cup {l}
        /\ left' \in [Locks -> Nat] /\ armed' \in BOOLEAN
        /\ due' \in Nat /\ queued' \in BOOLEAN /\ TimerCovers'
        /\ held' = {} => queued' \/ armed'
    BY <2>1, <2>3, SettleFacts
  <2>5. TypeOK'
    BY <2>1, <2>2, <2>4 DEF TypeOK
  <2>6. Underway'
    BY <2>4 DEF Underway
  <2>7. LateClean'
    BY <2>2, <2>4 DEF LateClean, DriversRun
  <2> QED BY <2>4, <2>5, <2>6, <2>7
<1>3. CASE ReleaseLock(l)
  <2>1. Settle(held \ {l}, auto \ {l}, left) /\ event' = event
    BY <1>3 DEF ReleaseLock, Unlock
  <2>2. /\ pc' = pc /\ firing' = firing /\ maxFreq' = maxFreq
        /\ faults' = faults /\ ops' = ops /\ DriversRun
    BY <1>3 DEF ReleaseLock
  <2>3. /\ held \ {l} \in SUBSET Locks
        /\ auto \ {l} \in SUBSET (Locks \ (held \ {l}))
        /\ left \in [Locks -> Nat] /\ queued \in BOOLEAN
    BY DEF TypeOK
  <2>4. /\ held' = held \ {l}
        /\ held' \subseteq Locks
        /\ auto' \subseteq auto \ {l}
        /\ left' \in [Locks -> Nat] /\ armed' \in BOOLEAN
        /\ due' \in Nat /\ queued' \in BOOLEAN /\ TimerCovers'
        /\ held' = {} => queued' \/ armed'
    BY <2>1, <2>3, SettleFacts
  <2>5. TypeOK'
    BY <2>1, <2>2, <2>4 DEF TypeOK
  <2>6. Underway'
    BY <2>4 DEF Underway
  <2>7. LateClean'
    BY <2>2 DEF LateClean, DriversRun
  <2> QED BY <2>4, <2>5, <2>6, <2>7
<1>4. CASE Destroy(l)
  BY <1>4 DEF Destroy, TypeOK, TimerCovers, Underway, LateClean, Live
<1> QED BY <1>1, <1>2, <1>3, <1>4

\* Time and the timer.
LEMMA TimerSteps ==
  ASSUME IInv, Tick \/ TimerFires \/ ExpireWakeLocks
  PROVE  IInv'
<1> USE DEF IInv
<1>1. CASE Tick
  <2>1. TypeOK'
    BY <1>1 DEF Tick, TypeOK
  <2>2. \A l \in auto : left'[l] <= left[l] /\ left'[l] \in Nat
    BY <1>1 DEF Tick, TypeOK
  <2>3. TimerCovers'
    BY <1>1, <2>2 DEF Tick, TypeOK, TimerCovers, Live
  <2> QED BY <1>1, <2>1, <2>3 DEF Tick, Underway, LateClean
<1>2. CASE TimerFires
  <2>1. TypeOK'
    BY <1>2 DEF TimerFires, TypeOK
  <2>2. \A l \in auto : ~(left[l] > 0) <=> left[l] <= 0
    BY DEF TypeOK
  <2>3. TimerCovers'
    BY <1>2, <2>2 DEF TimerFires, TimerCovers, Live
  <2> QED BY <1>2, <2>1, <2>3 DEF TimerFires, Underway, LateClean
<1>3. CASE ExpireWakeLocks
  <2>1. TypeOK'
    BY <1>3 DEF ExpireWakeLocks, Expire, Live, TypeOK
  <2>2. TimerCovers'
    BY <1>3 DEF ExpireWakeLocks, Expire, Live, TimerCovers, TypeOK
  <2>3. held = {} /\ HasLock => armed
    BY TimerSet
  <2>4. Underway'
    BY <1>3, <2>3 DEF ExpireWakeLocks, Underway
  <2>5. LateClean'
    BY <1>3 DEF ExpireWakeLocks, Expire, Live, LateClean
  <2> QED BY <2>1, <2>2, <2>4, <2>5
<1> QED BY <1>1, <1>2, <1>3

\* The steps of the suspend work.
LEMMA WorkSteps ==
  ASSUME IInv, Suspend \/ WakeUp
  PROVE  IInv'
<1> USE DEF IInv
<1>1. held = {} /\ HasLock => armed
  BY TimerSet
<1>2. CASE RunWork
  BY <1>2 DEF RunWork, step, TypeOK, TimerCovers, Underway, LateClean,
              Live, Attempt, Places
<1>3. CASE CheckLocks
  <2>1. auto' \subseteq auto /\ TimerCovers'
    BY <1>3, ExpireFacts DEF CheckLocks, step
  <2> QED BY <1>1, <1>3, <2>1
             DEF CheckLocks, step, TypeOK, Underway, LateClean, Attempt, Places
<1>4. CASE NoteEvent
  BY <1>4 DEF NoteEvent, step, TypeOK, TimerCovers, Underway, LateClean,
              Live, Attempt, Places
<1>5. CASE PmSuspend
  BY <1>5 DEF PmSuspend, Fault, step, TypeOK, TimerCovers, Underway,
              LateClean, Live, Attempt, Places
<1>6. CASE Freeze
  <2>1. auto' \subseteq auto /\ TimerCovers'
    <3>1. CASE Expire
      BY <1>6, <3>1, ExpireFacts DEF Freeze, step
    <3>2. CASE UNCHANGED auto
      BY <1>6, <3>2 DEF Freeze, step, TimerCovers, Live
    <3> QED BY <1>6, <3>1, <3>2 DEF Freeze
  <2>2. /\ pc = "freeze" /\ pc' \in {"devices", "exit", "freeze"}
        /\ faults' \in Nat
        /\ UNCHANGED <<step, queued, event, maxFreq>>
    BY <1>6 DEF Freeze, Fault, TypeOK
  <2>3. TypeOK'
    BY <2>1, <2>2 DEF step, TypeOK, Places
  <2>4. Underway'
    BY <2>2 DEF step, Underway, Attempt
  <2> QED BY <2>1, <2>2, <2>3, <2>4 DEF LateClean
<1>7. CASE SuspendDevices
  <2>1. TypeOK'
    <3>1. maxFreq' \in BOOLEAN /\ pc' \in Places
      BY <1>7 DEF SuspendDevices, TypeOK, Places
    <3>2. faults' \in Nat
      BY <1>7 DEF SuspendDevices, Fault, TypeOK
    <3> QED BY <1>7, <3>1, <3>2 DEF SuspendDevices, step, TypeOK
  <2>2. TimerCovers'
    BY <1>7 DEF SuspendDevices, step, TimerCovers, Live
  <2>3. Underway'
    BY <1>7 DEF SuspendDevices, step, Underway, Attempt
  <2>4. LateClean'
    BY <1>7 DEF SuspendDevices, LateClean
  <2> QED BY <2>1, <2>2, <2>3, <2>4
<1>8. CASE SuspendLate
  <2>1. UNCHANGED <<step, queued, event, maxFreq>> /\ pc = "noirq"
    BY <1>8 DEF SuspendLate
  <2>2. CASE /\ pc' = IF HasLock THEN "resume" ELSE "late"
             /\ Expire
             /\ UNCHANGED faults
    <3>1. auto' \subseteq auto /\ TimerCovers'
      BY <2>1, <2>2, ExpireFacts DEF step
    <3>2. LateClean'
      BY <2>1, <2>2 DEF LateClean, HasLock, Expire, step
    <3> QED BY <2>1, <2>2, <3>1, <3>2
               DEF step, TypeOK, Underway, Attempt, Places
  <2>3. CASE pc' = "resume" /\ Fault /\ UNCHANGED auto
    <3>1. TypeOK'
      BY <2>1, <2>3 DEF Fault, step, TypeOK, Places
    <3>2. TimerCovers'
      BY <2>1, <2>3 DEF step, TimerCovers, Live
    <3>3. Underway'
      BY <2>1, <2>3 DEF step, Underway, Attempt
    <3> QED BY <2>3, <3>1, <3>2, <3>3 DEF LateClean
  <2> QED BY <1>8, <2>2, <2>3 DEF SuspendLate
<1>9. CASE Sleep
  <2>1. TypeOK'
    <3>1. maxFreq' \in BOOLEAN /\ pc' \in Places
      BY <1>9 DEF Sleep, TypeOK, Places
    <3>2. faults' \in Nat
      BY <1>9 DEF Sleep, Fault, TypeOK
    <3> QED BY <1>9, <3>1, <3>2 DEF Sleep, step, TypeOK
  <2>2. TimerCovers'
    BY <1>9 DEF Sleep, step, TimerCovers, Live
  <2>3. Underway'
    BY <1>9 DEF Sleep, step, Underway, Attempt
  <2>4. LateClean'
    BY <1>9 DEF Sleep, step, LateClean
  <2> QED BY <2>1, <2>2, <2>3, <2>4
<1>10. CASE WakeUp
  BY <1>10 DEF WakeUp, step, TypeOK, TimerCovers, Underway, LateClean,
               Live, Attempt, Places
<1>11. CASE Resume
  BY <1>11 DEF Resume, step, TypeOK, TimerCovers, Underway, LateClean,
               Live, Attempt, Places
<1>12. CASE Returns
  <2>1. /\ pc = "exit" /\ pc' = "idle"
        /\ UNCHANGED <<firing, maxFreq, ops, faults>>
    BY <1>12 DEF Returns
  <2>2. CASE ~event /\ LockTimeout(Unknown, UnknownTime)
    <3>1. Settle(held \ {Unknown}, auto \cup {Unknown},
                 [left EXCEPT ![Unknown] = UnknownTime]) /\ event' = TRUE
      BY <2>2 DEF LockTimeout
    <3>2. /\ held \ {Unknown} \in SUBSET Locks
          /\ auto \cup {Unknown} \in SUBSET (Locks \ (held \ {Unknown}))
          /\ [left EXCEPT ![Unknown] = UnknownTime] \in [Locks -> Nat]
          /\ queued \in BOOLEAN
      BY WakelockAssumption DEF TypeOK
    <3>3. /\ held' = held \ {Unknown}
          /\ held' \subseteq Locks
          /\ auto' \subseteq auto \cup {Unknown}
          /\ left' \in [Locks -> Nat] /\ armed' \in BOOLEAN
          /\ due' \in Nat /\ queued' \in BOOLEAN /\ TimerCovers'
          /\ held' = {} => queued' \/ armed'
      BY <3>1, <3>2, SettleFacts
    <3>4. TypeOK'
      BY <2>1, <3>1, <3>3, WakelockAssumption DEF TypeOK, Places
    <3> QED BY <2>1, <3>3, <3>4 DEF Underway, LateClean
  <2>3. CASE event /\ UNCHANGED <<locks, event>>
    BY <2>1, <2>3 DEF locks, TypeOK, TimerCovers, Underway, LateClean, Live,
                      Attempt, Places
  <2> QED BY <1>12, <2>2, <2>3 DEF Returns
<1> QED BY <1>2, <1>3, <1>4, <1>5, <1>6, <1>7, <1>8, <1>9, <1>10, <1>11,
           <1>12 DEF Suspend

\* The inductive invariant holds in every state of every behaviour.
THEOREM Invariance == Spec => []IInv
<1>1. Init => IInv
  BY InitInv
<1>2. IInv /\ [Next]_vars => IInv'
  <2> SUFFICES ASSUME IInv, [Next]_vars PROVE IInv'
    OBVIOUS
  <2>1. CASE Suspend \/ WakeUp
    BY <2>1, WorkSteps
  <2>2. CASE Drivers
    BY <2>2, DriverSteps DEF Drivers
  <2>3. CASE Tick \/ TimerFires \/ ExpireWakeLocks
    BY <2>3, TimerSteps
  <2>4. CASE UNCHANGED vars
    BY <2>4 DEF vars, locks, IInv, TypeOK, TimerCovers, Underway, LateClean,
                Live
  <2> QED BY <2>1, <2>2, <2>3, <2>4 DEF Next
<1> QED BY <1>1, <1>2, PTL DEF Spec

\* The timer of wakelock.c covers every list of locks with timeouts, whatever
\* the order of operations.
THEOREM TimerAlwaysCovers == Spec => []TimerCovers
BY Invariance, PTL DEF IInv

\* A system on which no lock is held always has a suspend coming.
THEOREM SuspendAlwaysComes == Spec => []SuspendOnItsWay
<1>1. IInv => SuspendOnItsWay
  BY DEF IInv, Underway, SuspendOnItsWay
<1> QED BY <1>1, Invariance, PTL

\* If no timer takes wake locks, the system is never asleep with one active.
THEOREM SleepIsSafe ==
  ASSUME TimerLocks = {}
  PROVE  Spec => []NoSleepWhenLocked
<1>1. IInv => NoSleepWhenLocked
  BY DEF IInv, LateClean, NoSleepWhenLocked, HasLock, Live
<1> QED BY <1>1, Invariance, PTL

\* Every variable of the wake lock code keeps its type, whatever the locks, the
\* timeouts and the number of operations: no timeout is ever negative.
THEOREM TypeCorrect == Spec => []TypeOK
BY Invariance, PTL DEF IInv
=============================================================================
