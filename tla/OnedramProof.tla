---------------------------- MODULE OnedramProof ----------------------------
(***************************************************************************)
(* Proofs about Onedram, for every set of clients and every bound: the     *)
(* type invariant, the mutual exclusion of the shared bank, the exactness  *)
(* of the reference count, and the refinement of OnedramAuth.              *)
(***************************************************************************)
EXTENDS Onedram, FiniteSetTheorems, TLAPS

\* Nobody is counted unless ref_sem says so, and ref_sem is exact as long as
\* no mmap fails.
RefCovers == /\ ref >= Cardinality(Counted)
             /\ ~MmapFails => ref = Cardinality(Counted)

\* Once rel_sem has seen no reference, no client gets in before the semaphore
\* is written: the caller keeps the CPU.
RelAlone == \A t \in Clients : pc[t] \in {"ini", "rel"} => Counted = {}

\* At most one client is in the kernel without sleeping.
OneOnCpu == \A t, u \in Clients : t # u /\ pc[t] \in OnCpu => pc[u] \in OffCpu

IInv == /\ TypeOK
        /\ OneOnCpu
        /\ RefCovers
        /\ RelAlone
        /\ AccessUnderAuthority
-----------------------------------------------------------------------------
(* Counting. *)

\* The set of counted clients is finite.
LEMMA CountedFinite == IsFiniteSet(Counted) /\ Cardinality(Counted) \in Nat
  BY FS_Subset, FS_CardinalityType, OnedramAssumption DEF Counted

\* The same after a step.
LEMMA CountedFinitePrime ==
    IsFiniteSet(Counted') /\ Cardinality(Counted') \in Nat
<1>1. Counted' \in SUBSET Clients
  BY DEF Counted
<1> QED
  BY <1>1, FS_Subset, FS_CardinalityType, OnedramAssumption

\* A client that moves between two places where it is not counted, or between
\* two where it is, changes no count.
LEMMA MoveKeeps ==
    ASSUME TypeOK, NEW t \in Clients, NEW q,
           pc' = [pc EXCEPT ![t] = q],
           pc[t] \in CountedPcs <=> q \in CountedPcs
    PROVE  Counted' = Counted
  BY DEF TypeOK, Counted

\* Entering the driver adds one.
LEMMA MoveEnters ==
    ASSUME TypeOK, NEW t \in Clients, NEW q \in CountedPcs,
           pc' = [pc EXCEPT ![t] = q],
           pc[t] \notin CountedPcs
    PROVE  /\ Counted' = Counted \cup {t}
           /\ Cardinality(Counted') = Cardinality(Counted) + 1
<1>1. Counted' = Counted \cup {t}
  BY DEF TypeOK, Counted
<1>2. t \notin Counted
  BY DEF Counted
<1> QED
  BY <1>1, <1>2, CountedFinite, FS_AddElement

\* Leaving it subtracts one.
LEMMA MoveLeaves ==
    ASSUME TypeOK, NEW t \in Clients, NEW q,
           q \notin CountedPcs,
           pc' = [pc EXCEPT ![t] = q],
           pc[t] \in CountedPcs
    PROVE  /\ Counted' = Counted \ {t}
           /\ Cardinality(Counted') = Cardinality(Counted) - 1
           /\ Cardinality(Counted) >= 1
<1>1. Counted' = Counted \ {t}
  BY DEF TypeOK, Counted
<1>2. t \in Counted
  BY DEF Counted
<1>3. Cardinality(Counted') = Cardinality(Counted) - 1
  BY <1>1, <1>2, CountedFinite, FS_RemoveElement
<1> QED
  BY <1>1, <1>3, CountedFinite, CountedFinitePrime

\* ref_sem = 0 means that nobody is counted.
LEMMA NoReference == ASSUME TypeOK, RefCovers, ref = 0 PROVE Counted = {}
<1>1. Cardinality(Counted) = 0
  BY CountedFinite DEF RefCovers
<1> QED
  BY <1>1, CountedFinite, FS_EmptySet
-----------------------------------------------------------------------------
(* Types and scheduling. *)

\* Initially the invariant holds.
LEMMA InitIInv == Init => IInv
<1> SUFFICES ASSUME Init PROVE IInv
  OBVIOUS
<1>1. TypeOK
  BY OnedramAssumption DEF Init, TypeOK, OffCpu, OnCpu
<1>2. Counted = {}
  BY DEF Init, Counted, CountedPcs
<1>3. RefCovers
  BY <1>2, FS_EmptySet DEF Init, RefCovers
<1> QED
  BY <1>1, <1>2, <1>3 DEF Init, IInv, OneOnCpu, OnCpu, RelAlone,
     AccessUnderAuthority

\* A client that runs is the only one on the CPU afterwards.
LEMMA RunKeepsOneOnCpu ==
    ASSUME TypeOK, NEW t \in Clients, NEW q, MayRun(t),
           pc' = [pc EXCEPT ![t] = q]
    PROVE  OneOnCpu'
  BY DEF TypeOK, MayRun, OneOnCpu, OnCpu, OffCpu

\* What a step of a client has to keep: the types, the count, and the
\* semaphore for whoever holds the authority.
LEMMA ClientStep ==
    ASSUME IInv, TypeOK', RefCovers',
           NEW t \in Clients, NEW q, MayRun(t),
           pc' = [pc EXCEPT ![t] = q],
           q \in {"ini", "rel"} => Counted' = {},
           q = "hold" => sem' = 1,
           sem' = sem \/ Counted = {}
    PROVE  IInv'
<1>1. OneOnCpu'
  BY RunKeepsOneOnCpu DEF IInv
<1>2. RelAlone'
  BY DEF IInv, TypeOK, RelAlone, MayRun, OffCpu
<1>3. AccessUnderAuthority'
  BY DEF IInv, TypeOK, AccessUnderAuthority, Counted, CountedPcs
<1> QED
  BY <1>1, <1>2, <1>3 DEF IInv

\* What a step of the handler or of the CP has to keep.
LEMMA QuietStep ==
    ASSUME IInv, TypeOK', pc' = pc, ref' = ref,
           sem' = sem \/ sem' = 1 \/ ref = 0
    PROVE  IInv'
<1>1. Counted' = Counted
  BY DEF Counted
<1>2. OneOnCpu' /\ RefCovers' /\ RelAlone'
  BY <1>1 DEF IInv, OneOnCpu, RefCovers, RelAlone
<1>3. ref = 0 => \A t \in Clients : pc[t] # "hold"
  BY NoReference DEF IInv, Counted, CountedPcs
<1>4. AccessUnderAuthority'
  BY <1>3 DEF IInv, AccessUnderAuthority
<1> QED
  BY <1>2, <1>4 DEF IInv
-----------------------------------------------------------------------------
(* The steps of the clients. *)

\* get_auth keeps the invariant: it counts before it reads the semaphore.
LEMMA GetAuthStep == ASSUME IInv, NEW t \in Clients, GetAuth(t) PROVE IInv'
<1> DEFINE q == IF sem = 1 THEN "hold" ELSE "send"
<1>1. /\ MayRun(t) /\ pc[t] = "idle" /\ pc' = [pc EXCEPT ![t] = q]
      /\ ref' = ref + 1 /\ sem' = sem
  BY DEF GetAuth, Goto
<1>2. q \in {"hold", "send"} /\ (q = "hold" => sem = 1)
  OBVIOUS
<1> HIDE DEF q
<1>3. TypeOK'
  BY <1>1, <1>2, OnedramAssumption
     DEF IInv, TypeOK, GetAuth, Start, OffCpu, OnCpu, handler, cpSide
<1>4. Cardinality(Counted') = Cardinality(Counted) + 1
  BY <1>1, <1>2, MoveEnters DEF IInv, CountedPcs
<1>5. RefCovers'
  BY <1>1, <1>4, CountedFinite DEF IInv, TypeOK, RefCovers
<1> QED
  BY <1>1, <1>2, <1>3, <1>5, ClientStep

\* get_auth's error path uncounts exactly the client that fails.
LEMMA GetFailsStep == ASSUME IInv, NEW t \in Clients, GetFails(t) PROVE IInv'
<1>1. /\ MayRun(t) /\ pc[t] = "fail" /\ pc' = [pc EXCEPT ![t] = "idle"]
      /\ ref' = ref - 1 /\ sem' = sem
  BY DEF GetFails, Goto
<1>2. /\ Cardinality(Counted') = Cardinality(Counted) - 1
      /\ Cardinality(Counted) >= 1
  BY <1>1, MoveLeaves DEF IInv, CountedPcs
<1>3. ref' \in Nat /\ RefCovers'
  BY <1>1, <1>2, CountedFinite DEF IInv, TypeOK, RefCovers
<1>4. TypeOK'
  BY <1>1, <1>3
     DEF IInv, TypeOK, GetFails, OffCpu, OnCpu, handler, cpSide
<1> QED
  BY <1>1, <1>3, <1>4, ClientStep

\* put_auth uncounts a client that is counted, so ref_sem stays natural.
LEMMA PutAuthStep == ASSUME IInv, NEW t \in Clients, PutAuth(t) PROVE IInv'
<1> DEFINE q == IF t \in Users THEN "idle" ELSE "chk"
<1>1. /\ MayRun(t) /\ pc[t] = "hold" /\ pc' = [pc EXCEPT ![t] = q]
      /\ ref' = ref - 1 /\ sem' = sem
  BY DEF PutAuth, Goto
<1>2. q \in {"idle", "chk"}
  OBVIOUS
<1> HIDE DEF q
<1>3. /\ Cardinality(Counted') = Cardinality(Counted) - 1
      /\ Cardinality(Counted) >= 1
  BY <1>1, <1>2, MoveLeaves DEF IInv, CountedPcs
<1>4. ref' \in Nat /\ RefCovers'
  BY <1>1, <1>3, CountedFinite DEF IInv, TypeOK, RefCovers
<1>5. TypeOK'
  BY <1>1, <1>2, <1>4
     DEF IInv, TypeOK, PutAuth, OffCpu, OnCpu, handler, cpSide
<1> QED
  BY <1>1, <1>2, <1>4, <1>5, ClientStep

\* onedram_mmap keeps the invariant; when it fails it leaves ref_sem too high.
LEMMA MmapStep == ASSUME IInv, NEW t \in Users, Mmap(t) PROVE IInv'
<1>1. t \in Clients /\ MayRun(t) /\ sem = 1 /\ ref' = ref + 1 /\ sem' = sem
  BY DEF Mmap, Clients
<1>2. CASE Goto(t, "idle", "hold")
  <2>1. Cardinality(Counted') = Cardinality(Counted) + 1
    BY <1>1, <1>2, MoveEnters DEF IInv, CountedPcs, Goto
  <2>2. RefCovers'
    BY <1>1, <2>1, CountedFinite DEF IInv, TypeOK, RefCovers
  <2>3. TypeOK'
    BY <1>1, <1>2, OnedramAssumption
       DEF IInv, TypeOK, Mmap, Goto, Start, OffCpu, OnCpu, handler, cpSide
  <2> QED
    BY <1>1, <1>2, <2>2, <2>3, ClientStep DEF Goto
<1>3. CASE MmapFails /\ Goto(t, "idle", "idle")
  <2>1. Counted' = Counted
    BY <1>1, <1>3, MoveKeeps DEF IInv, Goto
  <2>2. RefCovers'
    BY <1>1, <1>3, <2>1, CountedFinite DEF IInv, TypeOK, RefCovers
  <2>3. TypeOK'
    BY <1>1, <1>3, OnedramAssumption
       DEF IInv, TypeOK, Mmap, Goto, Start, OffCpu, OnCpu, handler, cpSide
  <2> QED
    BY <1>1, <1>3, <2>2, <2>3, ClientStep DEF Goto
<1> QED
  BY <1>2, <1>3 DEF Mmap

\* The client steps that leave ref_sem and the semaphore alone and move
\* between two counted or two uncounted places.
LEMMA PlainStep ==
    ASSUME IInv, TypeOK',
           NEW t \in Clients, NEW q, MayRun(t),
           pc' = [pc EXCEPT ![t] = q],
           pc[t] \in CountedPcs <=> q \in CountedPcs,
           ref' = ref, sem' = sem,
           q = "hold" => sem = 1,
           q \in {"ini", "rel"} => Counted = {}
    PROVE  IInv'
<1>1. Counted' = Counted
  BY MoveKeeps DEF IInv
<1>2. RefCovers'
  BY <1>1 DEF IInv, RefCovers
<1> QED
  BY <1>1, <1>2, ClientStep

\* The request loop of _get_auth keeps the invariant: it leaves the loop with
\* the authority only when it reads 1 from the semaphore.
LEMMA RequestStep ==
    ASSUME IInv, NEW t \in Clients, SendCmd(t) \/ Wake(t) \/ TestSem(t)
    PROVE  IInv'
<1> USE DEF IInv, TypeOK, OffCpu, OnCpu, CountedPcs, handler, cpSide, Goto
<1>1. CASE SendCmd(t)
  <2> DEFINE q == IF done THEN "test" ELSE "sleep"
  <2>1. q \in {"test", "sleep"}
    OBVIOUS
  <2>2. TypeOK'
    BY <1>1 DEF SendCmd, ApMails
  <2> QED
    BY <1>1, <2>1, <2>2, PlainStep DEF SendCmd
<1>2. CASE Wake(t)
  <2>1. TypeOK'
    BY <1>2 DEF Wake
  <2> QED
    BY <1>2, <2>1, PlainStep DEF Wake
<1>3. CASE TestSem(t)
  <2>1. TypeOK'
    BY <1>3 DEF TestSem
  <2>2. PICK q \in {"hold", "fail", "send"} :
          Goto(t, "test", q) /\ (q = "hold" => sem = 1)
    BY <1>3 DEF TestSem
  <2> QED
    BY <1>3, <2>1, <2>2, PlainStep DEF TestSem
<1> QED
  BY <1>1, <1>2, <1>3

\* _put_auth and rel_sem keep the invariant: between the test of ref_sem and
\* the write of the semaphore nobody is counted.
LEMMA ReleaseStep ==
    ASSUME IInv, NEW t \in Clients,
           \/ CheckRel(t) \/ InitCompletion(t) \/ WriteSem(t)
           \/ MailRes(t) \/ ClearRel(t) \/ MailData(t)
    PROVE  IInv'
<1> USE DEF IInv, TypeOK, OffCpu, OnCpu, CountedPcs, handler, cpSide, Goto
<1>1. CASE CheckRel(t)
  <2>1. TypeOK'
    BY <1>1 DEF CheckRel, Finish
  <2>2. PICK q \in {"ini", "data", "idle"} :
          Goto(t, "chk", q) /\ (q = "ini" => ref = 0)
    BY <1>1 DEF CheckRel, Finish
  <2>3. q = "ini" => Counted = {}
    BY <2>2, NoReference
  <2> QED
    BY <1>1, <2>1, <2>2, <2>3, PlainStep DEF CheckRel
<1>2. CASE InitCompletion(t)
  <2>1. TypeOK'
    BY <1>2 DEF InitCompletion
  <2>2. Counted = {}
    BY <1>2 DEF InitCompletion, RelAlone
  <2> QED
    BY <1>2, <2>1, <2>2, PlainStep DEF InitCompletion
<1>3. CASE WriteSem(t)
  <2> DEFINE q == IF t \in Users THEN "idle" ELSE "mail"
  <2>1. TypeOK'
    BY <1>3 DEF WriteSem
  <2>2. Counted = {}
    BY <1>3 DEF WriteSem, RelAlone
  <2>3. q \in {"idle", "mail"} /\ pc' = [pc EXCEPT ![t] = q] /\ pc[t] = "rel"
    BY <1>3 DEF WriteSem
  <2> HIDE DEF q
  <2>4. Counted' = Counted
    BY <2>3, MoveKeeps
  <2>5. RefCovers'
    BY <1>3, <2>4 DEF WriteSem, RefCovers
  <2> QED
    BY <1>3, <2>1, <2>2, <2>3, <2>5, ClientStep DEF WriteSem
<1>4. CASE MailRes(t)
  <2>1. TypeOK'
    BY <1>4 DEF MailRes, ApMails
  <2> QED
    BY <1>4, <2>1, PlainStep DEF MailRes
<1>5. CASE ClearRel(t)
  <2> DEFINE q == Finish(t)
  <2>1. q \in {"data", "idle"}
    BY DEF Finish
  <2>2. TypeOK'
    BY <1>5, <2>1 DEF ClearRel
  <2> QED
    BY <1>5, <2>1, <2>2, PlainStep DEF ClearRel
<1>6. CASE MailData(t)
  <2>1. TypeOK'
    BY <1>6 DEF MailData, ApMails
  <2> QED
    BY <1>6, <2>1, PlainStep DEF MailData
<1> QED
  BY <1>1, <1>2, <1>3, <1>4, <1>5, <1>6

\* The ioctl that releases the semaphore and the write of a mail.
LEMMA UserStep ==
    ASSUME IInv, NEW t \in Users, IoctlRel(t) \/ WriteMail(t)
    PROVE  IInv'
<1> USE DEF IInv, TypeOK, OffCpu, OnCpu, CountedPcs, handler, cpSide, Goto
<1>1. t \in Clients
  BY DEF Clients
<1>2. CASE IoctlRel(t)
  <2>1. TypeOK'
    BY <1>1, <1>2, OnedramAssumption DEF IoctlRel, Start
  <2>2. Counted = {}
    BY <1>2, NoReference DEF IoctlRel
  <2> QED
    BY <1>1, <1>2, <2>1, <2>2, PlainStep DEF IoctlRel
<1>3. CASE WriteMail(t)
  <2>1. TypeOK'
    BY <1>1, <1>3, OnedramAssumption DEF WriteMail, Start
  <2> QED
    BY <1>1, <1>3, <2>1, PlainStep DEF WriteMail
<1> QED
  BY <1>2, <1>3
-----------------------------------------------------------------------------
(* The interrupt handler and the CP. *)

\* The handler keeps the invariant: it releases only what nobody is counted
\* for, wherever it interrupts.
LEMMA HandlerStep == ASSUME IInv, Handler PROVE IInv'
<1> USE DEF IInv, TypeOK, handler, cpSide
<1>1. CASE HandlerReads
  <2>1. TypeOK'
    BY <1>1 DEF HandlerReads
  <2> QED
    BY <1>1, <2>1, QuietStep DEF HandlerReads
<1>2. CASE CheckBuffer
  <2>1. TypeOK'
    BY <1>2 DEF CheckBuffer, HandlerReleases, ApMails
  <2> QED
    BY <1>2, <2>1, QuietStep DEF CheckBuffer, HandlerReleases
<1>3. CASE DoCommand
  <2>1. TypeOK'
    BY <1>3 DEF DoCommand, HandlerReleases, ApMails
  <2> QED
    BY <1>3, <2>1, QuietStep DEF DoCommand, HandlerReleases
<1>4. CASE HandlerWakes
  <2>1. TypeOK'
    BY <1>4 DEF HandlerWakes
  <2> QED
    BY <1>4, <2>1, QuietStep DEF HandlerWakes
<1> QED
  BY <1>1, <1>2, <1>3, <1>4 DEF Handler

\* The CP keeps the invariant, whatever it mails and whenever.
LEMMA CpStep == ASSUME IInv, Cp PROVE IInv'
<1> USE DEF IInv, TypeOK, handler, cpSide, cpUnchanged
<1>1. CASE CpGrants
  BY <1>1, QuietStep DEF CpGrants
<1>2. CASE CpAsks \/ CpAsksAgain
  BY <1>2, QuietStep, OnedramAssumption DEF CpAsks, CpAsksAgain, CpWrites
<1>3. CASE CpGets \/ CpReads
  BY <1>3, QuietStep DEF CpGets, CpReads
<1>4. CASE \E m \in CpMails : CpSends(m)
  BY <1>4, QuietStep DEF CpSends, CpWrites
<1> QED
  BY <1>1, <1>2, <1>3, <1>4 DEF Cp
-----------------------------------------------------------------------------
(* The theorems. *)

\* Every step keeps the invariant.
LEMMA NextIInv == IInv /\ [Next]_vars => IInv'
<1> SUFFICES ASSUME IInv, [Next]_vars PROVE IInv'
  OBVIOUS
<1>1. CASE \E t \in Clients : GetAuth(t) \/ Proceed(t)
  BY <1>1, GetAuthStep, GetFailsStep, PutAuthStep, RequestStep, ReleaseStep
     DEF Proceed
<1>2. CASE \E t \in Users : UserOp(t)
  BY <1>2, MmapStep, UserStep DEF UserOp
<1>3. CASE Handler
  BY <1>3, HandlerStep
<1>4. CASE Cp
  BY <1>4, CpStep
<1>5. CASE UNCHANGED vars
  <2>1. TypeOK'
    BY <1>5 DEF IInv, TypeOK, vars
  <2> QED
    BY <1>5, <2>1, QuietStep DEF vars
<1> QED
  BY <1>1, <1>2, <1>3, <1>4, <1>5 DEF Next

\* The inductive invariant holds in every reachable state.
THEOREM Invariance == Spec => []IInv
  BY InitIInv, NextIInv, PTL DEF Spec

\* Type correctness; in particular ref_sem never drops below zero, for any
\* number of clients.
THEOREM TypeCorrect == Spec => []TypeOK
<1>1. IInv => TypeOK
  BY DEF IInv
<1> QED
  BY <1>1, Invariance, PTL

\* Mutual exclusion of AP and CP: a client holds the authority only while the
\* semaphore gives the bank to the AP.
THEOREM MutualExclusion == Spec => []AccessUnderAuthority
<1>1. IInv => AccessUnderAuthority
  BY DEF IInv
<1> QED
  BY <1>1, Invariance, PTL

\* ref_sem counts the clients inside the driver exactly, unless an mmap fails.
THEOREM ExactCount == Spec => []RefCounts
<1>1. IInv => RefCounts
  BY DEF IInv, RefCovers, RefCounts
<1> QED
  BY <1>1, Invariance, PTL

\* Initial states of the driver are initial states of OnedramAuth.
LEMMA AuthInit == Init => Auth!Init
  BY DEF Init, Auth!Init

\* A step that moves one client and keeps the semaphore acquires, releases or
\* stutters.
LEMMA AuthMove ==
    ASSUME IInv, NEW t \in Clients, NEW q,
           pc' = [pc EXCEPT ![t] = q], sem' = sem,
           q = "hold" => sem = 1
    PROVE  [Auth!Next]_(Auth!vars)
<1> DEFINE H == {u \in Clients : pc[u] = "hold"}
<1>1. CASE q = "hold" /\ pc[t] # "hold"
  <2>1. H' = H \cup {t} /\ t \notin H
    BY <1>1 DEF IInv, TypeOK
  <2> QED
    BY <1>1, <2>1 DEF Auth!Next, Auth!Acquire
<1>2. CASE q # "hold" /\ pc[t] = "hold"
  <2>1. H' = H \ {t} /\ t \in H
    BY <1>2 DEF IInv, TypeOK
  <2> QED
    BY <2>1 DEF Auth!Next, Auth!Release
<1>3. CASE q = "hold" <=> pc[t] = "hold"
  <2>1. H' = H
    BY <1>3 DEF IInv, TypeOK
  <2> QED
    BY <2>1 DEF Auth!vars
<1> QED
  BY <1>1, <1>2, <1>3

\* A step that moves nobody hands the bank over when nobody is counted, takes
\* it over, or stutters.
LEMMA AuthSem ==
    ASSUME IInv, TypeOK',
           {u \in Clients : pc'[u] = "hold"} = {u \in Clients : pc[u] = "hold"},
           sem' = sem \/ sem' = 1 \/ Counted = {}
    PROVE  [Auth!Next]_(Auth!vars)
<1> DEFINE H == {u \in Clients : pc[u] = "hold"}
<1>1. CASE sem' = sem
  BY <1>1 DEF Auth!vars
<1>2. CASE sem = 0 /\ sem' = 1
  BY <1>2 DEF Auth!Next, Auth!TakeOver
<1>3. CASE sem = 1 /\ sem' = 0
  <2>1. H = {}
    BY <1>3 DEF Counted, CountedPcs
  <2> QED
    BY <1>3, <2>1 DEF Auth!Next, Auth!HandOver
<1> QED
  BY <1>1, <1>2, <1>3 DEF IInv, TypeOK

\* Every step of the driver is a step of OnedramAuth or leaves it unchanged.
LEMMA AuthNext == IInv /\ IInv' /\ [Next]_vars => [Auth!Next]_(Auth!vars)
<1> SUFFICES ASSUME IInv, IInv', [Next]_vars PROVE [Auth!Next]_(Auth!vars)
  OBVIOUS
<1>1. ASSUME NEW t \in Clients,
             \/ GetAuth(t) \/ SendCmd(t) \/ Wake(t) \/ TestSem(t)
             \/ GetFails(t) \/ PutAuth(t)
      PROVE  [Auth!Next]_(Auth!vars)
  <2>1. PICK q : /\ pc' = [pc EXCEPT ![t] = q]
                 /\ q = "hold" => sem = 1
                 /\ sem' = sem
    BY <1>1 DEF GetAuth, SendCmd, Wake, TestSem, GetFails, PutAuth, Goto
  <2> QED
    BY <2>1, AuthMove
<1>2. ASSUME NEW t \in Clients,
             \/ CheckRel(t) \/ InitCompletion(t) \/ MailRes(t) \/ ClearRel(t)
             \/ MailData(t)
      PROVE  [Auth!Next]_(Auth!vars)
  <2>1. PICK q : pc' = [pc EXCEPT ![t] = q] /\ q # "hold" /\ sem' = sem
    BY <1>2
       DEF CheckRel, InitCompletion, MailRes, ClearRel, MailData, Goto, Finish
  <2> QED
    BY <2>1, AuthMove
<1>3. ASSUME NEW t \in Clients, WriteSem(t)
      PROVE  [Auth!Next]_(Auth!vars)
  <2>1. Counted = {}
    BY <1>3 DEF WriteSem, Goto, IInv, RelAlone
  <2>2. {u \in Clients : pc'[u] = "hold"} = {u \in Clients : pc[u] = "hold"}
    BY <1>3 DEF WriteSem, Goto, IInv, TypeOK
  <2> QED
    BY <2>1, <2>2, AuthSem DEF IInv
<1>4. ASSUME NEW t \in Users, UserOp(t)
      PROVE  [Auth!Next]_(Auth!vars)
  <2>1. PICK q : /\ pc' = [pc EXCEPT ![t] = q]
                 /\ q = "hold" => sem = 1
                 /\ sem' = sem
    BY <1>4 DEF UserOp, Mmap, IoctlRel, WriteMail, Goto
  <2>2. t \in Clients
    BY DEF Clients
  <2> QED
    BY <2>1, <2>2, AuthMove
<1>5. CASE Handler \/ Cp \/ UNCHANGED vars
  <2>1. pc' = pc
    BY <1>5 DEF Handler, HandlerReads, CheckBuffer, DoCommand, HandlerWakes, Cp,
       CpGrants, CpAsks, CpAsksAgain, CpGets, CpReads, CpSends, CpWrites,
       cpUnchanged, vars
  <2>2. sem' = sem \/ sem' = 1 \/ ref = 0
    BY <1>5 DEF Handler, HandlerReads, CheckBuffer, DoCommand, HandlerWakes,
       HandlerReleases, Cp, CpGrants, CpAsks, CpAsksAgain, CpGets, CpReads,
       CpSends, CpWrites, cpUnchanged, vars
  <2>3. ref = 0 => Counted = {}
    BY NoReference DEF IInv
  <2> QED
    BY <2>1, <2>2, <2>3, AuthSem DEF IInv
<1> QED
  BY <1>1, <1>2, <1>3, <1>4, <1>5 DEF Next, Proceed

\* The driver with its clients implements OnedramAuth.
THEOREM Refinement == Spec => AuthSpec
<1>1. Init /\ []IInv /\ [][Next]_vars => AuthSpec
  BY AuthInit, AuthNext, PTL DEF AuthSpec, Auth!Spec
<1> QED
  BY <1>1, Invariance, PTL DEF Spec
=============================================================================
