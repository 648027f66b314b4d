------------------------------ MODULE Modemctl ------------------------------
(***************************************************************************)
(* Modem control (drivers/modemctl/modemctl.c): the lines to and from the  *)
(* modem, the interrupts of PHONE_ACTIVE and of the SIM detector, the work *)
(* that reports to user space, the debounce timer with its wake lock,      *)
(* writers of the file `control', suspend and resume.                      *)
(*                                                                         *)
(* One CPU without preemption: a writer of `control' is interrupted where  *)
(* it sleeps, the work where kobject_uevent may sleep. Interrupts come     *)
(* between any two steps, also between the reading of a line and the store *)
(* of what was read; the timer is a softirq, over which no thread runs.    *)
(***************************************************************************)
EXTENDS Integers

CONSTANTS Writers,   \* threads that write to the file `control'
          Debounce,  \* SIM_DEBOUNCE_TIME_HZ
          WakeTime   \* MODEM_CTL_DEFAULT_WAKLOCK_HZ

ASSUME ModemctlAssumption ==
    /\ Debounce \in Nat \ {0}
    /\ WakeTime \in Nat
    /\ Debounce < WakeTime

VARIABLES phoneOn,      \* gpio_phone_on
          cpReset,      \* gpio_cp_reset: the modem runs while it is high
          pdaActive,    \* gpio_pda_active
          phoneActive,  \* gpio_phone_active
          sim,          \* gpio_sim_ndetect
          phoneIrq,     \* edges latched in EINTPEND
          simIrq,
          phoneMasked,  \* lines masked in EINTMASK
          simMasked,
          reference,    \* sim_reference_level
          change,       \* sim_change_reset
          seen,         \* level of the detector a thread or the timer has read
          pending,      \* the work is queued
          pc,           \* where the work stands
          event,        \* the event it is about to send
          report,       \* the last event user space got
          timer,        \* sim_irq_debounce_timer: ticks left, or Off
          tpc,          \* where its function stands
          wlock,        \* mc_wlock: ticks left
          writer,       \* where the writers stand
          pm,           \* how far suspend and resume have come
          unseen,       \* history: an edge of PHONE_ACTIVE was dropped, or its
                        \* level hidden by the reset, when it was last dealt with
          overtaken     \* history: an interrupt of the detector was served
                        \* between somebody's reading of it and his store

vars == <<phoneOn, cpReset, pdaActive, phoneActive, sim, phoneIrq, simIrq, phoneMasked,
          simMasked, reference, change, seen, pending, pc, event, report, timer, tpc,
          wlock, writer, pm, unseen, overtaken>>

out    == <<phoneOn, cpReset, pdaActive>>
in     == <<phoneActive, sim>>
irqs   == <<phoneIrq, simIrq, phoneMasked, simMasked>>
detect == <<reference, change, seen, overtaken>>
work   == <<pending, pc, event, report>>
clock  == <<timer, tpc, wlock>>

Off     == -1
None    == -1    \* SIM_LEVEL_NONE
Levels  == {0, 1}
Lookers == {"thread", "timer"}

\* Interrupts of devices are served until suspend_device_irqs, and again from
\* resume_device_irqs on.
IrqsServed == pm \notin {"noirq", "asleep", "waking"}

\* A thread gets the CPU where no softirq runs and no other thread is between
\* two places where it may sleep.
ThreadRuns == /\ tpc = "off"
              /\ pc \in {"idle", "send"}
              /\ pm \notin {"checking", "checked"}

\* Somebody has read the detector and not yet stored what it showed.
Between == \E l \in Lookers : seen[l] # None

\* PHONE_ACTIVE and the other lines at probe; modemctl_cfg_gpio.
Init == /\ phoneOn = 0
        /\ cpReset = 0
        /\ pdaActive = 0
        /\ phoneActive = 0
        /\ sim = 0
        /\ phoneIrq = FALSE
        /\ simIrq = FALSE
        /\ phoneMasked = FALSE
        /\ simMasked = FALSE
        /\ reference = None
        /\ change = "NONE"
        /\ seen = [l \in Lookers |-> None]
        /\ pending = FALSE
        /\ pc = "idle"
        /\ event = "none"
        /\ report = "none"
        /\ timer = Off
        /\ tpc = "off"
        /\ wlock = 0
        /\ writer = [w \in Writers |-> "idle"]
        /\ pm = "awake"
        /\ unseen = FALSE
        /\ overtaken = FALSE
-----------------------------------------------------------------------------
(* The file `control'. Nothing keeps two writers apart. *)

\* A writer goes from one place to the next. It is frozen only outside.
Goes(w, from, to) == /\ writer[w] = from
                     /\ pm = "awake"
                     /\ ThreadRuns
                     /\ writer' = [writer EXCEPT ![w] = to]

\* msm_on, cut where it sleeps. (1) Both lines low.
OnBegins(w) == /\ Goes(w, "idle", "on1")
               /\ phoneOn' = 0
               /\ cpReset' = 0
               /\ UNCHANGED <<pdaActive, in, irqs, detect, work, clock, pm, unseen>>

\* (2) PHONE_ON.
OnPulse(w) == /\ Goes(w, "on1", "on2")
              /\ phoneOn' = 1
              /\ UNCHANGED <<cpReset, pdaActive, in, irqs, detect, work, clock, pm,
                             unseen>>

\* (3) The reset ends.
OnReset(w) == /\ Goes(w, "on2", "on3")
              /\ cpReset' = 1
              /\ UNCHANGED <<phoneOn, pdaActive, in, irqs, detect, work, clock, pm,
                             unseen>>

\* (4) PHONE_ON is released.
OnRelease(w) == /\ Goes(w, "on3", "on4")
                /\ phoneOn' = 0
                /\ UNCHANGED <<cpReset, pdaActive, in, irqs, detect, work, clock, pm,
                               unseen>>

\* Mutant: the time of the wake lock is added to what is left of it.
OnEndsLonger(w) == /\ Goes(w, "on4", "idle")
                   /\ pdaActive' = 1
                   /\ wlock' = wlock + WakeTime
                         /\ UNCHANGED <<phoneOn, cpReset, in, irqs, detect, work, timer,
                                        tpc, pm, unseen>>

\* (5) The AP shows that it is there.
OnEnds(w) == /\ Goes(w, "on4", "idle")
             /\ pdaActive' = 1
             /\ wlock' = WakeTime
             /\ UNCHANGED <<phoneOn, cpReset, in, irqs, detect, work, timer, tpc, pm,
                            unseen>>

\* msm_reset.
ResetBegins(w) == /\ Goes(w, "idle", "reset")
                  /\ cpReset' = 0
                  /\ UNCHANGED <<phoneOn, pdaActive, in, irqs, detect, work, clock, pm,
                                 unseen>>

\* Mutant: the lines that are commented out at the end of msm_reset.
ResetReleasesOff(w) == /\ Goes(w, "reset", "idle")
                       /\ phoneOn' = 0
                       /\ cpReset' = 0
                       /\ UNCHANGED <<pdaActive, in, irqs, detect, work, clock, pm, unseen>>

ResetReleases(w) == /\ Goes(w, "reset", "idle")
                    /\ cpReset' = 1
                    /\ UNCHANGED <<phoneOn, pdaActive, in, irqs, detect, work, clock,
                                   pm, unseen>>
-----------------------------------------------------------------------------
(* The modem and the SIM card. *)

PhoneEdge == /\ phoneActive' = 1 - phoneActive
             /\ phoneIrq' = TRUE
             /\ UNCHANGED <<out, sim, simIrq, phoneMasked, simMasked, detect, work,
                            clock, writer, pm, unseen>>

\* The contact of the detector opens, closes or bounces.
SimEdge == /\ sim' = 1 - sim
           /\ simIrq' = TRUE
           /\ UNCHANGED <<out, phoneActive, phoneIrq, phoneMasked, simMasked, detect,
                          work, clock, writer, pm, unseen>>
-----------------------------------------------------------------------------
(* Interrupts and the timer. *)

\* handle_level_irq with IRQ_DISABLED, which suspend_device_irqs sets without
\* masking anything: the edge is acknowledged, its handler not called, and the
\* line masked. An edge of a masked line waits.
PhoneDropped == /\ phoneIrq
                /\ ~phoneMasked
                /\ pm \in {"noirq", "waking"}
                /\ phoneIrq' = FALSE
                /\ phoneMasked' = TRUE
                /\ unseen' = TRUE
                /\ UNCHANGED <<out, in, simIrq, simMasked, detect, work, clock, writer,
                               pm>>

SimDropped == /\ simIrq
              /\ ~simMasked
              /\ pm \in {"noirq", "waking"}
              /\ simIrq' = FALSE
              /\ simMasked' = TRUE
              /\ UNCHANGED <<out, in, phoneIrq, phoneMasked, detect, work, clock,
                             writer, pm, unseen>>

\* Mutant: no work is queued while it runs.
PhoneHandlerOnce == /\ phoneIrq
                    /\ IrqsServed
                    /\ phoneIrq' = FALSE
                    /\ pending' = (pending \/ pc = "idle")
                    /\ UNCHANGED <<out, in, simIrq, phoneMasked, simMasked, detect, pc,
                                   event, report, clock, writer, pm, unseen>>

\* modemctl_irq_handler.
PhoneHandler == /\ phoneIrq
                /\ IrqsServed
                /\ phoneIrq' = FALSE
                /\ pending' = TRUE
                /\ UNCHANGED <<out, in, simIrq, phoneMasked, simMasked, detect, pc,
                               event, report, clock, writer, pm, unseen>>

\* sim_check_status: what a level says of the card.
Verdict(level) == IF level # reference THEN "CHANGED" ELSE "STABLE"

\* Mutant: no wake lock for the timer.
DebouncesUnlocked(verdict) ==
    /\ timer' = IF verdict = "CHANGED" THEN Debounce ELSE timer
    /\ UNCHANGED <<tpc, wlock>>

\* A change starts the timer, with a wake lock that lasts longer.
Debounces(verdict) == IF verdict = "CHANGED"
                      THEN /\ timer' = Debounce
                           /\ wlock' = WakeTime
                           /\ UNCHANGED tpc
                      ELSE UNCHANGED clock

\* simctl_irq_handler. Its line is masked while it runs, so that nothing comes
\* between its look and its store; it may itself come between those of others.
SimHandler == /\ simIrq
              /\ IrqsServed
              /\ simIrq' = FALSE
              /\ IF reference = None
                 THEN UNCHANGED <<change, clock>>
                 ELSE change' = Verdict(sim) /\ Debounces(Verdict(sim))
              /\ overtaken' = Between
              /\ UNCHANGED <<out, in, phoneIrq, phoneMasked, simMasked, reference, seen,
                             work, writer, pm, unseen>>

\* sim_irq_debounce_timer_func: (1) sim_check_status reads the level,
TimerLooks == /\ timer = 0
              /\ tpc = "off"
              /\ timer' = Off
              /\ tpc' = "store"
              /\ overtaken' = (overtaken /\ Between)
              /\ seen' = [seen EXCEPT !["timer"] = sim]
              /\ UNCHANGED <<out, in, irqs, reference, change, work, wlock, writer, pm,
                             unseen>>

\* (2) and stores what it makes of it;
TimerStores == /\ tpc = "store"
               /\ tpc' = "act"
               /\ change' = Verdict(seen["timer"])
               /\ seen' = [seen EXCEPT !["timer"] = None]
               /\ UNCHANGED <<out, in, irqs, reference, overtaken, work, timer, wlock,
                              writer, pm, unseen>>

\* Mutant: the work is not told.
TimerForgets == /\ tpc = "act"
                /\ tpc' = "off"
                /\ wlock' = IF change = "CHANGED" THEN WakeTime ELSE wlock
                /\ UNCHANGED <<out, in, irqs, detect, work, timer, writer, pm, unseen>>

\* (3) the work is told of a change.
TimerActs == /\ tpc = "act"
             /\ tpc' = "off"
             /\ IF change = "CHANGED"
                THEN pending' = TRUE /\ wlock' = WakeTime
                ELSE UNCHANGED <<pending, wlock>>
             /\ UNCHANGED <<out, in, irqs, detect, pc, event, report, timer, writer, pm,
                            unseen>>

\* Time stands still during sleep, and does not pass over a timer.
Tick == /\ pm # "asleep"
        /\ timer > 0 \/ (timer = Off /\ wlock > 0)
        /\ timer' = IF timer = Off THEN Off ELSE timer - 1
        /\ wlock' = IF wlock = 0 THEN 0 ELSE wlock - 1
        /\ UNCHANGED <<out, in, irqs, detect, work, tpc, writer, pm, unseen>>
-----------------------------------------------------------------------------
(* The work, on the thread of keventd. *)

\* run_workqueue: the work may be queued again from here on.
WorkBegins == /\ pending
              /\ pc = "idle"
              /\ pm # "asleep"
              /\ ThreadRuns
              /\ pending' = FALSE
              /\ pc' = "run"
              /\ UNCHANGED <<out, in, irqs, detect, event, report, clock, writer, pm,
                             unseen>>

\* modem_get_active.
Active == IF cpReset = 1 THEN phoneActive ELSE 0

\* mc_work, between any two steps of which an interrupt may come: (1) is the
\* modem active?
WorkLooks == /\ pc = "run"
             /\ tpc = "off"
             /\ pc' = IF Active = 1 THEN "active" ELSE "send"
             /\ event' = IF Active = 1 THEN "ONLINE" ELSE "OFFLINE"
             /\ unseen' = (Active # phoneActive)
             /\ UNCHANGED <<out, in, irqs, detect, pending, report, clock, writer, pm>>

\* (2) Has the card changed? The first time that it has not, the level of the
\* detector is read by sim_get_reference_status,
WorkTests == /\ pc = "active"
             /\ tpc = "off"
             /\ IF change # "CHANGED" /\ reference = None
                THEN pc' = "store" /\ seen' = [seen EXCEPT !["thread"] = sim]
                ELSE pc' = "send" /\ UNCHANGED seen
             /\ event' = IF change = "CHANGED" THEN "CHANGE" ELSE "ONLINE"
             /\ UNCHANGED <<out, in, irqs, reference, change, overtaken, pending,
                            report, clock, writer, pm, unseen>>

\* (3) and stored.
WorkStores == /\ pc = "store"
              /\ tpc = "off"
              /\ pc' = "send"
              /\ reference' = seen["thread"]
              /\ seen' = [seen EXCEPT !["thread"] = None]
              /\ UNCHANGED <<out, in, irqs, change, overtaken, pending, event, report,
                             clock, writer, pm, unseen>>

\* kobject_uevent, which may sleep.
WorkSends == /\ pc = "send"
             /\ pm # "asleep"
             /\ ThreadRuns
             /\ pc' = "idle"
             /\ report' = event
             /\ event' = "none"
             /\ UNCHANGED <<out, in, irqs, detect, pending, clock, writer, pm, unseen>>
-----------------------------------------------------------------------------
(* Suspend and resume. *)

\* modemctl_suspend, after all processes have been frozen: none is in
\* store_control, where msleep cannot be frozen.
Suspend == /\ pm = "awake"
           /\ ThreadRuns
           /\ \A w \in Writers : writer[w] = "idle"
           /\ pm' = "suspended"
           /\ pdaActive' = 0
           /\ UNCHANGED <<phoneOn, cpReset, in, irqs, detect, work, clock, writer,
                          unseen>>

\* suspend_device_irqs.
SuspendNoirq == /\ pm = "suspended"
                /\ ThreadRuns
                /\ pm' = "noirq"
                /\ UNCHANGED <<out, in, irqs, detect, work, clock, writer, unseen>>

\* power_suspend_late finds no lock; "EINTPEND CLEAR" of the board's code takes
\* away what is latched. Both lines wake the system from then on.
Sleep == /\ pm = "noirq"
         /\ ThreadRuns
         /\ wlock = 0
         /\ pm' = "asleep"
         /\ phoneIrq' = FALSE
         /\ simIrq' = FALSE
         /\ unseen' = (unseen \/ phoneIrq)
         /\ UNCHANGED <<out, in, phoneMasked, simMasked, detect, work, clock, writer>>

\* arch_suspend_enable_irqs: the CPU takes interrupts before those of devices
\* are enabled, and what has come during sleep is dropped.
Wake == /\ pm = "asleep"
        /\ pm' = "waking"
        /\ phoneIrq' = (phoneIrq /\ phoneMasked)
        /\ simIrq' = (simIrq /\ simMasked)
        /\ phoneMasked' = (phoneIrq \/ phoneMasked)
        /\ simMasked' = (simIrq \/ simMasked)
        /\ unseen' = (unseen \/ (phoneIrq /\ ~phoneMasked))
        /\ UNCHANGED <<out, in, detect, work, clock, writer>>

\* resume_device_irqs, after sleep or when a lock is found: masked lines are
\* unmasked, nothing is sent again.
ResumeNoirq == /\ pm \in {"noirq", "waking"}
               /\ ThreadRuns
               /\ pm' = "enabled"
               /\ phoneMasked' = FALSE
               /\ simMasked' = FALSE
               /\ UNCHANGED <<out, in, phoneIrq, simIrq, detect, work, clock, writer,
                              unseen>>

\* Wake-up, or a suspend that fails: modemctl_resume, up to msleep.
Resume == /\ pm \in {"suspended", "enabled"}
          /\ ThreadRuns
          /\ pm' = "resuming"
          /\ pdaActive' = 1
          /\ UNCHANGED <<phoneOn, cpReset, in, irqs, detect, work, clock, writer,
                         unseen>>

\* Mutant: the level is not looked at.
ResumeBlindly == /\ pm = "resuming"
                 /\ ThreadRuns
                 /\ pm' = "awake"
                 /\ UNCHANGED <<out, in, irqs, detect, work, clock, writer, unseen>>

\* After msleep the level, which may have changed while nobody looked, is read
\* by sim_check_status,
ResumeLooks == /\ pm = "resuming"
               /\ ThreadRuns
               /\ IF reference = None
                  THEN pm' = "awake" /\ UNCHANGED <<seen, overtaken>>
                  ELSE /\ pm' = "checking"
                       /\ seen' = [seen EXCEPT !["thread"] = sim]
                       /\ overtaken' = FALSE
               /\ UNCHANGED <<out, in, irqs, reference, change, work, clock, writer,
                              unseen>>

\* its verdict stored,
ResumeStores == /\ pm = "checking"
                /\ tpc = "off"
                /\ pm' = "checked"
                /\ change' = Verdict(seen["thread"])
                /\ seen' = [seen EXCEPT !["thread"] = None]
                /\ UNCHANGED <<out, in, irqs, reference, overtaken, work, clock, writer,
                               unseen>>

\* and the timer started for a change.
ResumeActs == /\ pm = "checked"
              /\ tpc = "off"
              /\ pm' = "awake"
              /\ Debounces(change)
              /\ UNCHANGED <<out, in, irqs, detect, work, writer, unseen>>
-----------------------------------------------------------------------------
Control(w) == \/ OnBegins(w) \/ OnPulse(w) \/ OnReset(w) \/ OnRelease(w) \/ OnEnds(w)
              \/ ResetBegins(w) \/ ResetReleases(w)

Irq == PhoneHandler \/ SimHandler \/ PhoneDropped \/ SimDropped

Timer == TimerLooks \/ TimerStores \/ TimerActs

Work == WorkBegins \/ WorkLooks \/ WorkTests \/ WorkStores \/ WorkSends

Power == \/ Suspend \/ SuspendNoirq \/ Sleep
         \/ Wake \/ ResumeNoirq \/ Resume \/ ResumeLooks \/ ResumeStores \/ ResumeActs

Next == \/ \E w \in Writers : Control(w)
        \/ PhoneEdge \/ SimEdge
        \/ Irq \/ Timer \/ Tick
        \/ Work
        \/ Power

Spec == Init /\ [][Next]_vars
-----------------------------------------------------------------------------
(* Properties. *)

Events == {"ONLINE", "CHANGE", "OFFLINE"}

TypeOK == /\ {phoneOn, cpReset, pdaActive, phoneActive, sim} \subseteq Levels
          /\ {phoneIrq, simIrq, phoneMasked, simMasked} \subseteq BOOLEAN
          /\ {pending, unseen, overtaken} \subseteq BOOLEAN
          /\ reference \in Levels \cup {None}
          /\ change \in {"NONE", "STABLE", "CHANGED"}
          /\ seen \in [Lookers -> Levels \cup {None}]
          /\ pc \in {"idle", "run", "active", "store", "send"}
          /\ event \in Events \cup {"none"}
          /\ report \in Events \cup {"none"}
          /\ timer \in {Off} \cup 0 .. Debounce
          /\ tpc \in {"off", "store", "act"}
          /\ wlock \in 0 .. WakeTime
          /\ writer \in [Writers -> {"idle", "on1", "on2", "on3", "on4", "reset"}]
          /\ pm \in {"awake", "suspended", "noirq", "asleep", "waking", "enabled",
                     "resuming", "checking", "checked"}

\* The system does not sleep while the detector is being debounced: the wake
\* lock taken with the timer outlasts it, whatever suspend was under way.
AwakeInDebounce == pm = "asleep" => timer = Off

\* From suspend_device_irqs until resume has stored what it saw.
NotLooked == pm \in {"noirq", "asleep", "waking", "enabled", "resuming", "checking"}

\* What the driver believes of the SIM card is what the detector shows, unless
\* an interrupt waits: edges dropped around a sleep or an aborted suspend are
\* made good by resume. The exceptions are a look of the timer or of resume
\* that is not stored yet, and one that an interrupt overtook: simctl_irq_handler
\* between the reading and the store of mc_work, the timer or resume stores
\* first, or nothing, and the older level stays.
SimKnown == \/ reference = None
            \/ simIrq
            \/ NotLooked
            \/ tpc = "store"
            \/ overtaken
            \/ change = "CHANGED" <=> sim # reference

\* A change of the SIM card is reported: user space is not left with ONLINE when
\* the timer has run out and the work is done.
ChangeReported == change = "CHANGED" => \/ timer # Off
                                        \/ tpc # "off"
                                        \/ pm = "checked"
                                        \/ pending
                                        \/ pc # "idle"
                                        \/ report # "ONLINE"

Quiet == \A w \in Writers : writer[w] = "idle"

\* What the last writer leaves, and what resume leaves.
LinesLeft == /\ ~Quiet /\ Quiet' => cpReset' = 1 /\ phoneOn' = 0
             /\ pm # "awake" /\ pm' = "awake" => pdaActive' = 1

\* However many writers switch and reset the modem at a time: when the last one
\* is done the modem is out of reset and PHONE_ON is released. When the AP is
\* back from a suspend, completed or not, PDA_ACTIVE says so.
LinesSettle == [][LinesLeft]_vars

\* What user space was told last, or is being told.
Said == IF pc \in {"active", "store", "send"} THEN event ELSE report

\* No edge of PHONE_ACTIVE goes unreported: user space has been told the level,
\* or the work will look again, edges while it runs included. Exceptions, until
\* the work looks the next time: an edge that was dropped or wiped out around a
\* sleep or an aborted suspend, and a level that the work took for low because
\* the modem was held in reset.
PhoneFollowed == \/ phoneIrq
                 \/ pending
                 \/ pc = "run"
                 \/ unseen
                 \/ Said \in IF phoneActive = 1 THEN {"ONLINE", "CHANGE"}
                                                ELSE {"OFFLINE", "none"}
=============================================================================
