--------------------------- MODULE ModemctlProof ---------------------------
(***************************************************************************)
(* Proofs about Modemctl, for any set of writers of the file `control' and *)
(* any debounce time that is shorter than the wake lock.                   *)
(***************************************************************************)
EXTENDS Modemctl, TLAPS

\* The clock's part of the type invariant.
ClockOK == /\ timer \in {Off} \cup 0 .. Debounce
           /\ wlock \in 0 .. WakeTime

\* The timer is covered by the wake lock that was taken with it.
TimerLocked == timer # Off => timer < wlock

\* The sleep, with what it rests on.
ClockInv == ClockOK /\ TimerLocked /\ AwakeInDebounce

LEMMA ClockStep == ClockInv /\ [Next]_vars => ClockInv'
  <1> SUFFICES ASSUME ClockInv, [Next]_vars PROVE ClockInv'
    OBVIOUS
  <1> USE ModemctlAssumption DEF ClockInv, ClockOK, TimerLocked, AwakeInDebounce, Off
  <1>1. CASE UNCHANGED vars
    BY <1>1 DEF vars
  <1>2. ASSUME NEW w \in Writers, Control(w) PROVE ClockInv'
    <2>1. CASE OnEnds(w)
      BY <2>1 DEF OnEnds, Goes
    <2>2. CASE OnBegins(w) \/ OnPulse(w) \/ OnReset(w) \/ OnRelease(w)
      BY <2>2 DEF OnBegins, OnPulse, OnReset, OnRelease, clock
    <2>3. CASE ResetBegins(w) \/ ResetReleases(w)
      BY <2>3 DEF ResetBegins, ResetReleases, clock
    <2> QED
      BY <1>2, <2>1, <2>2, <2>3 DEF Control
  <1>3. CASE PhoneEdge \/ SimEdge \/ PhoneHandler \/ PhoneDropped \/ SimDropped
    BY <1>3 DEF PhoneEdge, SimEdge, PhoneHandler, PhoneDropped, SimDropped, clock
  <1>4. CASE Work
    BY <1>4 DEF Work, WorkBegins, WorkLooks, WorkTests, WorkStores, WorkSends, clock
  <1>5. CASE SimHandler
    BY <1>5 DEF SimHandler, Debounces, IrqsServed, clock
  <1>6. CASE Timer
    BY <1>6 DEF Timer, TimerLooks, TimerStores, TimerActs
  <1>7. CASE Tick
    BY <1>7 DEF Tick
  <1>8. CASE Suspend \/ SuspendNoirq \/ Wake \/ ResumeNoirq \/ Resume
    BY <1>8 DEF Suspend, SuspendNoirq, Wake, ResumeNoirq, Resume, clock
  <1>9. CASE Sleep
    BY <1>9 DEF Sleep, clock
  <1>10. CASE ResumeLooks \/ ResumeStores
    BY <1>10 DEF ResumeLooks, ResumeStores, clock
  <1>11. CASE ResumeActs
    BY <1>11 DEF ResumeActs, Debounces, clock
  <1> QED
    BY <1>1, <1>2, <1>3, <1>4, <1>5, <1>6, <1>7, <1>8, <1>9, <1>10, <1>11
       DEF Next, Irq, Power

\* modemctl never sleeps with the debounce timer running: the wake lock that
\* simctl_irq_handler and modemctl_resume take with it outlasts it.
THEOREM DebounceIsAwake == Spec => []AwakeInDebounce
  <1>1. Init => ClockInv
    BY ModemctlAssumption DEF Init, ClockInv, ClockOK, TimerLocked, AwakeInDebounce, Off
  <1>2. ClockInv => AwakeInDebounce
    BY DEF ClockInv
  <1> QED
    BY <1>1, <1>2, ClockStep, PTL DEF Spec
-----------------------------------------------------------------------------
(* The output lines. *)

\* A writer that has ended its own reset leaves the modem in reset only to
\* another one that will release it.
ResetHeld == (\E w \in Writers : writer[w] \in {"on3", "on4"}) =>
                 cpReset = 1 \/ \E w \in Writers : writer[w] \in {"on1", "on2", "reset"}

\* Whoever has set PHONE_ON will release it.
PhoneOnHeld == phoneOn = 0 \/ \E w \in Writers : writer[w] \in {"on2", "on3"}

\* PDA_ACTIVE is raised by resume before it sleeps.
PdaRaised == pm \in {"resuming", "checking", "checked"} => pdaActive = 1

LinesInv == /\ writer \in [Writers -> {"idle", "on1", "on2", "on3", "on4", "reset"}]
            /\ ResetHeld
            /\ PhoneOnHeld
            /\ PdaRaised

LEMMA LinesStep == LinesInv /\ [Next]_vars => LinesInv' /\ (LinesLeft \/ UNCHANGED vars)
  <1> SUFFICES ASSUME LinesInv, [Next]_vars
               PROVE  LinesInv' /\ (LinesLeft \/ UNCHANGED vars)
    OBVIOUS
  <1> USE DEF LinesInv, ResetHeld, PhoneOnHeld, PdaRaised, LinesLeft, Quiet
  <1>1. CASE UNCHANGED vars
    BY <1>1 DEF vars
  <1>2. ASSUME NEW w \in Writers, Control(w)
        PROVE  LinesInv' /\ (LinesLeft \/ UNCHANGED vars)
    <2>1. CASE OnBegins(w)
      BY <2>1 DEF OnBegins, Goes
    <2>2. CASE OnPulse(w)
      BY <2>2 DEF OnPulse, Goes
    <2>3. CASE OnReset(w)
      BY <2>3 DEF OnReset, Goes
    <2>4. CASE OnRelease(w)
      BY <2>4 DEF OnRelease, Goes
    <2>5. CASE OnEnds(w)
      BY <2>5 DEF OnEnds, Goes
    <2>6. CASE ResetBegins(w)
      BY <2>6 DEF ResetBegins, Goes
    <2>7. CASE ResetReleases(w)
      BY <2>7 DEF ResetReleases, Goes
    <2> QED
      BY <1>2, <2>1, <2>2, <2>3, <2>4, <2>5, <2>6, <2>7 DEF Control
  <1>3. CASE PhoneEdge \/ SimEdge \/ Irq \/ Timer \/ Tick \/ Work
    <2>1. UNCHANGED <<phoneOn, cpReset, pdaActive, writer, pm>>
      BY <1>3 DEF PhoneEdge, SimEdge, Irq, PhoneHandler, SimHandler, PhoneDropped, SimDropped,
                  Timer, TimerLooks, TimerStores, TimerActs, Tick, Work, WorkBegins, WorkLooks,
                  WorkTests, WorkStores, WorkSends, out
    <2> QED
      BY <2>1
  <1>4. CASE Power
    <2>1. UNCHANGED <<phoneOn, cpReset, writer>>
      BY <1>4 DEF Power, Suspend, SuspendNoirq, Sleep, Wake, ResumeNoirq, Resume, ResumeLooks,
                  ResumeStores, ResumeActs, out
    <2>2. \/ pm' \in {"suspended", "noirq", "asleep", "waking", "enabled"}
          \/ pm' = "resuming" /\ pdaActive' = 1
          \/ /\ pm \in {"resuming", "checking", "checked"}
             /\ pm' \in {"checking", "checked", "awake"}
             /\ pdaActive' = pdaActive
      BY <1>4 DEF Power, Suspend, SuspendNoirq, Sleep, Wake, ResumeNoirq, Resume, ResumeLooks,
                  ResumeStores, ResumeActs, out
    <2> QED
      BY <2>1, <2>2
  <1> QED
    BY <1>1, <1>2, <1>3, <1>4 DEF Next

\* However many writers of `control' interleave their power-on and reset
\* sequences: the last one leaves the modem out of reset and PHONE_ON released;
\* resume leaves PDA_ACTIVE raised.
THEOREM LinesAlwaysSettle == Spec => LinesSettle
  <1>1. Init => LinesInv
    BY DEF Init, LinesInv, ResetHeld, PhoneOnHeld, PdaRaised
  <1>2. LinesInv /\ [Next]_vars => [LinesLeft]_vars
    BY LinesStep
  <1> QED
    BY <1>1, <1>2, LinesStep, PTL DEF Spec, LinesSettle
-----------------------------------------------------------------------------
(* What the driver believes of the SIM card. *)

SimTypes == /\ sim \in Levels
            /\ seen \in [Lookers -> Levels \cup {None}]

\* Before the reference has been stored nothing has been made of the detector.
Virgin == reference = None => /\ change = "NONE"
                              /\ timer = Off
                              /\ tpc = "off"
                              /\ pm \notin {"checking", "checked"}

\* A level that has been read is stored by the one who has read it; the work
\* and resume are never both on the way from the one to the other.
Windows == /\ seen["timer"] # None <=> tpc = "store"
           /\ seen["thread"] # None <=> pc = "store" \/ pm = "checking"
           /\ pc = "store" => reference = None

\* A level that has been read is still there, unless an interrupt waits or has
\* overtaken the one who read it, or resume will look again.
ThreadFresh == seen["thread"] # None => \/ seen["thread"] = sim
                                        \/ simIrq
                                        \/ overtaken
                                        \/ NotLooked /\ pm # "checking"

TimerFresh == seen["timer"] # None => seen["timer"] = sim \/ simIrq \/ overtaken \/ NotLooked

SimInv == SimTypes /\ Virgin /\ Windows /\ ThreadFresh /\ TimerFresh /\ SimKnown

LEMMA SimStep == SimInv /\ [Next]_vars => SimInv'
  <1> SUFFICES ASSUME SimInv, [Next]_vars PROVE SimInv'
    OBVIOUS
  <1> USE DEF SimInv, SimTypes, Virgin, Windows, ThreadFresh, TimerFresh, SimKnown, NotLooked,
              Levels, Lookers, None, Off
  <1>1. CASE UNCHANGED vars
    BY <1>1 DEF vars
  <1>2. ASSUME NEW w \in Writers, Control(w) PROVE SimInv'
    <2>1. /\ UNCHANGED <<reference, change, seen, overtaken, sim, simIrq, pm, pc>>
          /\ UNCHANGED <<timer, tpc>>
      BY <1>2 DEF Control, OnBegins, OnPulse, OnReset, OnRelease, OnEnds, ResetBegins,
                  ResetReleases, detect, irqs, in, work, clock
    <2> QED
      BY <2>1
  <1>3. CASE PhoneEdge \/ PhoneHandler \/ PhoneDropped
    <2>1. /\ UNCHANGED <<reference, change, seen, overtaken, sim, simIrq, pm, pc>>
          /\ UNCHANGED <<timer, tpc>>
      BY <1>3 DEF PhoneEdge, PhoneHandler, PhoneDropped, detect, irqs, in, work, clock
    <2> QED
      BY <2>1
  <1>4. CASE Tick
    <2>1. UNCHANGED <<reference, change, seen, overtaken, sim, simIrq, pm, pc, tpc>>
      BY <1>4 DEF Tick, detect, irqs, in, work
    <2>2. timer = -1 => timer' = -1
      BY <1>4 DEF Tick
    <2> QED
      BY <2>1, <2>2
  <1>5. CASE WorkBegins \/ WorkLooks \/ WorkSends
    <2>1. /\ UNCHANGED <<reference, change, seen, overtaken, sim, simIrq, pm>>
          /\ UNCHANGED <<timer, tpc>>
          /\ pc # "store" /\ pc' # "store"
      BY <1>5 DEF WorkBegins, WorkLooks, WorkSends, detect, irqs, in, clock
    <2> QED
      BY <2>1
  <1>6. CASE SimEdge
    BY <1>6 DEF SimEdge, detect, work, clock
  <1>7. CASE SimDropped
    BY <1>7 DEF SimDropped, in, detect, work, clock
  <1>8. CASE SimHandler
    BY <1>8, ModemctlAssumption DEF SimHandler, Debounces, Verdict, Between, in, work, clock
  <1>9. CASE TimerLooks
    <2>1. Between <=> seen["thread"] # None
      BY <1>9 DEF TimerLooks, Between
    <2>2. /\ UNCHANGED <<sim, simIrq, reference, change, pm, pc>>
          /\ timer = 0 /\ timer' = -1
          /\ tpc' = "store"
          /\ overtaken' = (overtaken /\ seen["thread"] # None)
          /\ seen' = [seen EXCEPT !["timer"] = sim]
      BY <1>9, <2>1 DEF TimerLooks, in, irqs, work
    <2>3. seen'["thread"] = seen["thread"] /\ seen'["timer"] = sim
      BY <2>2
    <2>4. SimTypes' /\ Virgin' /\ Windows'
      BY <2>2, <2>3
    <2>5. ThreadFresh'
      BY <2>2, <2>3
    <2>6. TimerFresh' /\ SimKnown'
      BY <2>2, <2>3
    <2> QED
      BY <2>4, <2>5, <2>6
  <1>10. CASE TimerStores
    BY <1>10 DEF TimerStores, Verdict, in, irqs, work
  <1>11. CASE TimerActs
    BY <1>11 DEF TimerActs, in, irqs, detect
  <1>12. CASE WorkTests
    BY <1>12 DEF WorkTests, in, irqs, clock
  <1>13. CASE WorkStores
    BY <1>13 DEF WorkStores, in, irqs, clock
  <1>14. CASE Suspend \/ SuspendNoirq \/ Sleep \/ Wake \/ ResumeNoirq \/ Resume
    <2>1. /\ UNCHANGED <<reference, change, seen, overtaken, sim, pc, timer, tpc>>
          /\ pm \notin {"checking", "checked"}
          /\ \/ simIrq' = simIrq /\ pm' = "suspended" /\ pm = "awake"
             \/ pm' \in {"noirq", "asleep", "waking", "enabled", "resuming"}
      BY <1>14 DEF Suspend, SuspendNoirq, Sleep, Wake, ResumeNoirq, Resume, detect, irqs, in,
                   work, clock
    <2> QED
      BY <2>1
  <1>15. CASE ResumeLooks
    BY <1>15 DEF ResumeLooks, ThreadRuns, in, irqs, work, clock
  <1>16. CASE ResumeStores
    BY <1>16 DEF ResumeStores, Verdict, in, irqs, work, clock
  <1>17. CASE ResumeActs
    BY <1>17, ModemctlAssumption DEF ResumeActs, Debounces, in, irqs, detect, work, clock
  <1> QED
    BY <1>1, <1>2, <1>3, <1>4, <1>5, <1>6, <1>7, <1>8, <1>9, <1>10, <1>11, <1>12, <1>13,
       <1>14, <1>15, <1>16, <1>17 DEF Next, Irq, Timer, Work, Power

\* What modemctl believes of the SIM card (sim_change_reset) is what the detector
\* shows, whatever edges were dropped around a sleep or an aborted suspend, once
\* resume has looked; unless an interrupt waits, or one was served between a
\* look of mc_work, the timer or resume and the store of what it showed.
THEOREM SimAlwaysKnown == Spec => []SimKnown
  <1>1. Init => SimInv
    BY DEF Init, SimInv, SimTypes, Virgin, Windows, ThreadFresh, TimerFresh, SimKnown, Levels,
           Lookers
  <1>2. SimInv => SimKnown
    BY DEF SimInv
  <1> QED
    BY <1>1, <1>2, SimStep, PTL DEF Spec
-----------------------------------------------------------------------------
(* What user space is told of the SIM card. *)

\* ChangeReported while the work is about to send an event as well.
ChangeFollowed == change = "CHANGED" => \/ timer # Off
                                        \/ tpc # "off"
                                        \/ pm = "checked"
                                        \/ pending
                                        \/ pc \in {"run", "active"}
                                        \/ Said # "ONLINE"

ChangeInv == ClockInv /\ SimInv /\ ChangeFollowed

LEMMA ChangeStep == ChangeInv /\ [Next]_vars => ChangeFollowed'
  <1> SUFFICES ASSUME ChangeInv, [Next]_vars PROVE ChangeFollowed'
    OBVIOUS
  <1> USE DEF ChangeInv, ChangeFollowed, Said, Off
  <1>1. CASE UNCHANGED vars
    BY <1>1 DEF vars
  <1>2. ASSUME NEW w \in Writers, Control(w) PROVE ChangeFollowed'
    <2>1. UNCHANGED <<change, timer, tpc, pm, pending, pc, event, report>>
      BY <1>2 DEF Control, OnBegins, OnPulse, OnReset, OnRelease, OnEnds, ResetBegins,
                  ResetReleases, detect, work, clock
    <2> QED
      BY <2>1
  <1>3. CASE PhoneEdge \/ SimEdge \/ PhoneDropped \/ SimDropped
    <2>1. UNCHANGED <<change, timer, tpc, pm, pending, pc, event, report>>
      BY <1>3 DEF PhoneEdge, SimEdge, PhoneDropped, SimDropped, detect, work, clock
    <2> QED
      BY <2>1
  <1>4. CASE PhoneHandler
    BY <1>4 DEF PhoneHandler
  <1>5. CASE SimHandler \/ ResumeActs
    <2>1. UNCHANGED <<pending, pc, event, report, tpc>>
      BY <1>5 DEF SimHandler, ResumeActs, Debounces, work, clock
    <2>2. \/ UNCHANGED <<change, timer, pm>>
          \/ change' # "CHANGED"
          \/ timer' = Debounce
      BY <1>5 DEF SimHandler, ResumeActs, Debounces, Verdict, detect, clock
    <2>3. Debounce # -1
      BY ModemctlAssumption
    <2> QED
      BY <2>1, <2>2, <2>3
  <1>6. CASE TimerLooks
    BY <1>6 DEF TimerLooks
  <1>7. CASE TimerStores
    BY <1>7 DEF TimerStores
  <1>8. CASE TimerActs
    BY <1>8 DEF TimerActs, detect
  <1>9. CASE Tick
    <2>1. UNCHANGED <<change, pending, pc, event, report, tpc, pm>>
      BY <1>9 DEF Tick, detect, work
    <2>2. timer # -1 => timer' # -1
      BY <1>9, ModemctlAssumption DEF Tick, ClockInv, ClockOK
    <2> QED
      BY <2>1, <2>2
  <1>10. CASE WorkBegins
    BY <1>10 DEF WorkBegins
  <1>11. CASE WorkLooks
    BY <1>11 DEF WorkLooks, Active, detect
  <1>12. CASE WorkTests
    BY <1>12 DEF WorkTests
  <1>13. CASE WorkStores
    BY <1>13 DEF WorkStores, clock
  <1>14. CASE WorkSends
    BY <1>14 DEF WorkSends, detect, clock
  <1>15. CASE Suspend \/ SuspendNoirq \/ Sleep \/ Wake \/ ResumeNoirq \/ Resume \/ ResumeLooks
    <2>1. UNCHANGED <<change, timer, tpc, pending, pc, event, report>> /\ pm # "checked"
      BY <1>15 DEF Suspend, SuspendNoirq, Sleep, Wake, ResumeNoirq, Resume, ResumeLooks, detect,
                   work, clock
    <2> QED
      BY <2>1
  <1>16. CASE ResumeStores
    BY <1>16 DEF ResumeStores
  <1> QED
    BY <1>1, <1>2, <1>3, <1>4, <1>5, <1>6, <1>7, <1>8, <1>9, <1>10, <1>11, <1>12, <1>13,
       <1>14, <1>15, <1>16 DEF Next, Irq, Timer, Work, Power

\* A change of the SIM card that outlasts its debounce time is reported by
\* mc_work: user space is never left with ONLINE.
THEOREM ChangeAlwaysReported == Spec => []ChangeReported
  <1>1. Init => ChangeInv
    BY ModemctlAssumption
       DEF Init, ChangeInv, ClockInv, ClockOK, TimerLocked, AwakeInDebounce, Off, ChangeFollowed,
           SimInv, SimTypes, Virgin, Windows, ThreadFresh, TimerFresh, SimKnown, Levels, Lookers
  <1>2. ChangeInv /\ [Next]_vars => ChangeInv'
    BY ClockStep, SimStep, ChangeStep DEF ChangeInv
  <1>3. ChangeInv => ChangeReported
    BY DEF ChangeInv, ChangeFollowed, ChangeReported, Said
  <1> QED
    BY <1>1, <1>2, <1>3, PTL DEF Spec
-----------------------------------------------------------------------------
(* PHONE_ACTIVE. *)

LevelsOK == cpReset \in Levels /\ phoneActive \in Levels

\* Between its two looks the work knows of an active modem.
FoundActive == pc = "active" => event = "ONLINE"

PhoneInv == LevelsOK /\ FoundActive /\ PhoneFollowed

LEMMA PhoneStep == PhoneInv /\ [Next]_vars => PhoneInv'
  <1> SUFFICES ASSUME PhoneInv, [Next]_vars PROVE PhoneInv'
    OBVIOUS
  <1> USE DEF PhoneInv, LevelsOK, Levels, FoundActive, PhoneFollowed, Said
  <1>1. CASE UNCHANGED vars
    BY <1>1 DEF vars
  <1>2. ASSUME NEW w \in Writers, Control(w) PROVE PhoneInv'
    <2>1. /\ UNCHANGED <<phoneActive, phoneIrq, pending, pc, event, report, unseen>>
          /\ cpReset' \in {cpReset, 0, 1}
      BY <1>2 DEF Control, OnBegins, OnPulse, OnReset, OnRelease, OnEnds, ResetBegins,
                  ResetReleases, in, irqs, work
    <2> QED
      BY <2>1
  <1>3. CASE PhoneEdge
    BY <1>3 DEF PhoneEdge, out, work
  <1>4. CASE SimEdge \/ SimHandler \/ SimDropped \/ Tick \/ TimerLooks \/ TimerStores
    <2>1. UNCHANGED <<cpReset, phoneActive, phoneIrq, pending, pc, event, report, unseen>>
      BY <1>4 DEF SimEdge, SimHandler, SimDropped, Tick, TimerLooks, TimerStores, out, in, irqs,
                  work
    <2> QED
      BY <2>1
  <1>5. CASE PhoneHandler
    BY <1>5 DEF PhoneHandler, out, in
  <1>6. CASE PhoneDropped
    BY <1>6 DEF PhoneDropped, out, in, work
  <1>7. CASE TimerActs
    <2>1. /\ UNCHANGED <<cpReset, phoneActive, phoneIrq, pc, event, report, unseen>>
          /\ pending => pending'
      BY <1>7 DEF TimerActs, out, in, irqs
    <2> QED
      BY <2>1
  <1>8. CASE WorkBegins
    BY <1>8 DEF WorkBegins, out, in
  <1>9. CASE WorkLooks
    BY <1>9 DEF WorkLooks, Active, out, in
  <1>10. CASE WorkTests
    BY <1>10 DEF WorkTests, out, in, irqs
  <1>11. CASE WorkStores
    BY <1>11 DEF WorkStores, out, in, irqs
  <1>12. CASE WorkSends
    BY <1>12 DEF WorkSends, out, in, irqs
  <1>13. CASE Suspend \/ SuspendNoirq \/ ResumeNoirq \/ Resume \/ ResumeLooks \/ ResumeStores
              \/ ResumeActs
    <2>1. UNCHANGED <<cpReset, phoneActive, phoneIrq, pending, pc, event, report, unseen>>
      BY <1>13 DEF Suspend, SuspendNoirq, ResumeNoirq, Resume, ResumeLooks, ResumeStores,
                   ResumeActs, out, in, irqs, work
    <2> QED
      BY <2>1
  <1>14. CASE Sleep \/ Wake
    <2>1. /\ UNCHANGED <<cpReset, phoneActive, pending, pc, event, report>>
          /\ unseen => unseen'
          /\ phoneIrq => phoneIrq' \/ unseen'
      BY <1>14 DEF Sleep, Wake, out, in, work
    <2> QED
      BY <2>1
  <1> QED
    BY <1>1, <1>2, <1>3, <1>4, <1>5, <1>6, <1>7, <1>8, <1>9, <1>10, <1>11, <1>12, <1>13, <1>14
       DEF Next, Irq, Timer, Work, Power

\* No edge of PHONE_ACTIVE goes unreported, whatever mc_work was doing when it
\* came, except until the next look at the line one that handle_level_irq
\* dropped or the board wiped out with interrupts disabled, and a level that was
\* taken for low because of the reset.
THEOREM PhoneAlwaysFollowed == Spec => []PhoneFollowed
  <1>1. Init => PhoneInv
    BY DEF Init, PhoneInv, LevelsOK, Levels, FoundActive, PhoneFollowed, Said
  <1>2. PhoneInv => PhoneFollowed
    BY DEF PhoneInv
  <1> QED
    BY <1>1, <1>2, PhoneStep, PTL DEF Spec
-----------------------------------------------------------------------------
(* Types. *)

DataOK == /\ {phoneOn, cpReset, pdaActive, phoneActive, sim} \subseteq Levels
          /\ reference \in Levels \cup {None}
          /\ change \in {"NONE", "STABLE", "CHANGED"}
          /\ seen \in [Lookers -> Levels \cup {None}]
          /\ pc \in {"idle", "run", "active", "store", "send"}
          /\ event \in Events \cup {"none"}
          /\ report \in Events \cup {"none"}
          /\ timer \in {Off} \cup 0 .. Debounce
          /\ tpc \in {"off", "store", "act"}
          /\ wlock \in 0 .. WakeTime
          /\ writer \in [Writers -> {"idle", "on1", "on2", "on3", "on4", "reset"}]
          /\ pm \in {"awake", "suspended", "noirq", "asleep", "waking", "enabled",
                     "resuming", "checking", "checked"}

FlagsOK == /\ {phoneIrq, simIrq, phoneMasked, simMasked} \subseteq BOOLEAN
           /\ {pending, unseen, overtaken} \subseteq BOOLEAN

LEMMA DataStep == DataOK /\ [Next]_vars => DataOK'
  <1> SUFFICES ASSUME DataOK, [Next]_vars PROVE DataOK'
    OBVIOUS
  <1> USE ModemctlAssumption DEF DataOK, Levels, Lookers, Events, Off, None
  <1>1. CASE UNCHANGED vars
    BY <1>1 DEF vars
  <1>2. ASSUME NEW w \in Writers, Control(w) PROVE DataOK'
    <2>1. CASE OnBegins(w)
      BY <2>1 DEF OnBegins, Goes, in, irqs, detect, work, clock
    <2>2. CASE OnPulse(w)
      BY <2>2 DEF OnPulse, Goes, in, irqs, detect, work, clock
    <2>3. CASE OnReset(w)
      BY <2>3 DEF OnReset, Goes, in, irqs, detect, work, clock
    <2>4. CASE OnRelease(w)
      BY <2>4 DEF OnRelease, Goes, in, irqs, detect, work, clock
    <2>5. CASE OnEnds(w)
      BY <2>5 DEF OnEnds, Goes, in, irqs, detect, work
    <2>6. CASE ResetBegins(w)
      BY <2>6 DEF ResetBegins, Goes, in, irqs, detect, work, clock
    <2>7. CASE ResetReleases(w)
      BY <2>7 DEF ResetReleases, Goes, in, irqs, detect, work, clock
    <2> QED
      BY <1>2, <2>1, <2>2, <2>3, <2>4, <2>5, <2>6, <2>7 DEF Control
  <1>3. CASE PhoneEdge
    BY <1>3 DEF PhoneEdge, out, detect, work, clock
  <1>4. CASE SimEdge
    BY <1>4 DEF SimEdge, out, detect, work, clock
  <1>5. CASE PhoneHandler
    BY <1>5 DEF PhoneHandler, out, in, detect, clock
  <1>6. CASE PhoneDropped
    BY <1>6 DEF PhoneDropped, out, in, detect, work, clock
  <1>7. CASE SimDropped
    BY <1>7 DEF SimDropped, out, in, detect, work, clock
  <1>8. CASE SimHandler
    BY <1>8 DEF SimHandler, Debounces, Verdict, out, in, work, clock
  <1>9. CASE TimerLooks
    BY <1>9 DEF TimerLooks, Between, out, in, irqs, work
  <1>10. CASE TimerStores
    BY <1>10 DEF TimerStores, Verdict, out, in, irqs, work
  <1>11. CASE TimerActs
    BY <1>11 DEF TimerActs, out, in, detect
  <1>12. CASE Tick
    BY <1>12 DEF Tick, out, in, irqs, detect, work
  <1>13. CASE WorkBegins
    BY <1>13 DEF WorkBegins, out, in, irqs, detect, clock
  <1>14. CASE WorkLooks
    BY <1>14 DEF WorkLooks, out, in, irqs, detect, clock
  <1>15. CASE WorkTests
    BY <1>15 DEF WorkTests, out, in, irqs, clock
  <1>16. CASE WorkStores
    BY <1>16 DEF WorkStores, out, in, irqs, clock
  <1>17. CASE WorkSends
    BY <1>17 DEF WorkSends, out, in, irqs, detect, clock
  <1>18. CASE Suspend \/ SuspendNoirq \/ Resume
    BY <1>18 DEF Suspend, SuspendNoirq, Resume, out, in, irqs, detect, work, clock
  <1>19. CASE Sleep
    BY <1>19 DEF Sleep, out, in, detect, work, clock
  <1>20. CASE Wake \/ ResumeNoirq
    BY <1>20 DEF Wake, ResumeNoirq, out, in, detect, work, clock
  <1>21. CASE ResumeLooks
    BY <1>21 DEF ResumeLooks, out, in, irqs, work, clock
  <1>22. CASE ResumeStores
    BY <1>22 DEF ResumeStores, Verdict, out, in, irqs, work, clock
  <1>23. CASE ResumeActs
    BY <1>23 DEF ResumeActs, Debounces, out, in, irqs, detect, work, clock
  <1> QED
    BY <1>1, <1>2, <1>3, <1>4, <1>5, <1>6, <1>7, <1>8, <1>9, <1>10, <1>11, <1>12, <1>13,
       <1>14, <1>15, <1>16, <1>17, <1>18, <1>19, <1>20, <1>21, <1>22, <1>23
       DEF Next, Irq, Timer, Work, Power

LEMMA FlagsStep == FlagsOK /\ [Next]_vars => FlagsOK'
  <1> SUFFICES ASSUME FlagsOK, [Next]_vars PROVE FlagsOK'
    OBVIOUS
  <1> USE DEF FlagsOK
  <1>1. CASE UNCHANGED vars
    BY <1>1, Zenon DEF vars
  <1>2. ASSUME NEW w \in Writers, Control(w) PROVE FlagsOK'
    BY <1>2, Zenon DEF Control, OnBegins, OnPulse, OnReset, OnRelease, OnEnds, ResetBegins,
                       ResetReleases, detect, irqs, work
  <1>3. CASE PhoneEdge \/ SimEdge \/ PhoneHandler \/ PhoneDropped \/ SimDropped
    BY <1>3, Zenon DEF PhoneEdge, SimEdge, PhoneHandler, PhoneDropped, SimDropped, detect, work
  <1>4. CASE SimHandler
    BY <1>4, Zenon DEF SimHandler, Between, work
  <1>5. CASE TimerLooks \/ TimerStores
    BY <1>5, Zenon DEF TimerLooks, TimerStores, irqs, work
  <1>6. CASE TimerActs
    BY <1>6, Zenon DEF TimerActs, irqs, detect
  <1>7. CASE Tick
    BY <1>7, Zenon DEF Tick, irqs, detect, work
  <1>8. CASE Work
    BY <1>8, Zenon DEF Work, WorkBegins, WorkLooks, WorkTests, WorkStores, WorkSends, irqs,
                       detect
  <1>9. CASE Suspend \/ SuspendNoirq \/ Resume \/ ResumeLooks \/ ResumeStores \/ ResumeActs
    BY <1>9, Zenon DEF Suspend, SuspendNoirq, Resume, ResumeLooks, ResumeStores, ResumeActs,
                       irqs, detect, work
  <1>10. CASE Sleep \/ Wake \/ ResumeNoirq
    BY <1>10, Zenon DEF Sleep, Wake, ResumeNoirq, detect, work
  <1> QED
    BY <1>1, <1>2, <1>3, <1>4, <1>5, <1>6, <1>7, <1>8, <1>9, <1>10
       DEF Next, Irq, Timer, Power

\* Every variable of modemctl keeps its type; no timer or wake lock runs longer
\* than it was set for.
THEOREM TypeCorrect == Spec => []TypeOK
  <1>1. Init => DataOK
    BY ModemctlAssumption DEF Init, DataOK, Levels, Lookers, Off, None
  <1>2. Init => FlagsOK
    BY Zenon DEF Init, FlagsOK
  <1>3. DataOK /\ FlagsOK => TypeOK
    BY DEF DataOK, FlagsOK, TypeOK
  <1> QED
    BY <1>1, <1>2, <1>3, DataStep, FlagsStep, PTL DEF Spec
=============================================================================
