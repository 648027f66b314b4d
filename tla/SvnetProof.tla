----------------------------- MODULE SvnetProof -----------------------------
(***************************************************************************)
(* Proofs about Svnet, for rings of any size, any rate of the work rx and  *)
(* any number of packets, mails and sessions.                              *)
(***************************************************************************)
EXTENDS Svnet, SequenceTheorems, TLAPS

Items == Works \cup {"barrier"}

\* The types of the queues.
QueueOK == /\ txq \in Seq({"data", "bad"})
           /\ wq \in Seq(Items)
           /\ delayed \subseteq Works
           /\ rxq \in Nat
           /\ rfsRx \in Nat
           /\ in \in [{"data", "rfs"} -> Nat]

\* RFS packets in hand are known to the read work that has taken them, if the
\* work rx is not pending.
RfsCovered == rfsRx > 0 => \/ Pending("rx")
                           \/ pc \in {"event", "rauth", "reading"} /\ contd
                           \/ Gone

CoverInv == QueueOK /\ PacketsHaveWork /\ EventsHaveWork /\ RfsCovered
-----------------------------------------------------------------------------
(* The work queue. *)

LEMMA AppendFacts ==
  ASSUME NEW q \in Seq(Items), NEW w \in Items
  PROVE  /\ Append(q, w) \in Seq(Items)
         /\ Contains(Append(q, w), w)
         /\ \A v : Contains(q, v) => Contains(Append(q, w), v)
  BY DEF Contains

LEMMA TailFacts ==
  ASSUME NEW q \in Seq(Items), q # <<>>
  PROVE  /\ Tail(q) \in Seq(Items)
         /\ \A v : Contains(q, v) => v = Head(q) \/ Contains(Tail(q), v)
  <1>1. Tail(q) \in Seq(Items) /\ Len(Tail(q)) = Len(q) - 1
    BY HeadTailProperties
  <1>2. ASSUME NEW v, Contains(q, v) PROVE v = Head(q) \/ Contains(Tail(q), v)
    <2>1. PICK i \in 1 .. Len(q) : q[i] = v
      BY <1>2 DEF Contains
    <2>2. CASE i = 1
      BY <2>1, <2>2
    <2>3. CASE i # 1
      <3>1. i - 1 \in 1 .. Len(Tail(q)) /\ Tail(q)[i - 1] = v
        BY <1>1, <2>1, <2>3, HeadTailProperties
      <3> QED
        BY <3>1 DEF Contains
    <2> QED
      BY <2>2, <2>3
  <1> QED
    BY <1>1, <1>2

\* Queueing a work loses none.
LEMMA QueuedFacts ==
  ASSUME QueueOK, NEW w \in Works
  PROVE  /\ Queued(w) \in Seq(Items)
         /\ Contains(Queued(w), w) \/ w \in delayed
         /\ \A v : Contains(wq, v) => Contains(Queued(w), v)
  BY AppendFacts DEF QueueOK, Queued, Pending, Items

\* Taking up a work loses no other.
LEMMA TakeFacts ==
  ASSUME QueueOK, NEW w \in Items, NEW p, Take(w, p)
  PROVE  /\ pc = "idle" /\ pc' = p
         /\ wq' \in Seq(Items)
         /\ \A v : Contains(wq, v) => v = w \/ Contains(wq', v)
  BY TailFacts DEF QueueOK, Take
-----------------------------------------------------------------------------
(* Every action keeps what waits covered by a work. *)

LEMMA EnvironmentStep ==
  ASSUME CoverInv,
         \/ \E k \in Kinds : Xmit(k)
         \/ DataEvent
         \/ \E c \in Crashes : CrashEvent(c)
         \/ \E w \in Works : TimerFires(w)
         \/ Open \/ CloseBegins \/ CloseFrees
         \/ CpTakes
         \/ \E r \in DOMAIN in : CpFills(r)
  PROVE  CoverInv'
  <1> USE DEF CoverInv, PacketsHaveWork, EventsHaveWork, RfsCovered, Pending, Gone, reader,
              session, rings
  <1>1. ASSUME NEW k \in Kinds, Xmit(k) PROVE CoverInv'
    <2>1. CASE k = "cmd"
      BY <1>1, <2>1 DEF Xmit, QueueOK
    <2>2. CASE k # "cmd"
      <3>1. Queued("write") \in Seq(Items) /\ k \in {"data", "bad"}
        BY <2>2, QueuedFacts, SvnetAssumption DEF Works
      <3>2. Append(txq, k) \in Seq({"data", "bad"})
        BY <3>1 DEF QueueOK
      <3> QED
        BY <1>1, <2>2, <3>1, <3>2, QueuedFacts DEF Xmit, QueueOK, Works
    <2> QED
      BY <2>1, <2>2
  <1>2. CASE DataEvent
    <2>1. rxq' \in Nat
      BY <1>2 DEF DataEvent, QueueOK
    <2> QED
      BY <1>2, <2>1, QueuedFacts DEF DataEvent, QueueOK, Works
  <1>3. ASSUME NEW c \in Crashes, CrashEvent(c) PROVE CoverInv'
    BY <1>3, QueuedFacts DEF CrashEvent, QueueOK, Works
  <1>4. ASSUME NEW w \in Works, TimerFires(w) PROVE CoverInv'
    <2>1. /\ wq' \in Seq(Items)
          /\ Contains(wq', w)
          /\ \A v : Contains(wq, v) => Contains(wq', v)
      BY <1>4, AppendFacts DEF TimerFires, QueueOK, Items
    <2> QED
      BY <1>4, <2>1 DEF TimerFires, QueueOK
  <1>5. CASE Open
    BY <1>5 DEF Open, Sleeps, QueueOK
  <1>6. CASE CloseBegins
    <2>1. /\ wq' \in Seq(Items)
          /\ \A v : Contains(wq, v) => Contains(wq', v)
      BY <1>6, AppendFacts DEF CloseBegins, QueueOK, Items
    <2> QED
      BY <1>6, <2>1 DEF CloseBegins, QueueOK
  <1>7. CASE CloseFrees
    BY <1>7 DEF CloseFrees, QueueOK
  <1>8. CASE CpTakes
    BY <1>8 DEF CpTakes, QueueOK
  <1>9. ASSUME NEW r \in DOMAIN in, CpFills(r) PROVE CoverInv'
    <2>1. in' \in [{"data", "rfs"} -> Nat]
      BY <1>9 DEF CpFills, QueueOK
    <2> QED
      BY <1>9, <2>1 DEF CpFills, QueueOK
  <1> QED
    BY <1>1, <1>2, <1>3, <1>4, <1>5, <1>6, <1>7, <1>8, <1>9

\* svnet_read_wq and sipc_read.
LEMMA ReadStep ==
  ASSUME CoverInv, Read
  PROVE  CoverInv'
  <1> USE DEF CoverInv, PacketsHaveWork, EventsHaveWork, RfsCovered, Pending, Gone, session
  <1>1. CASE ReadBegins
    <2>1. Take("read", "event") /\ "read" \in Items
      BY <1>1 DEF ReadBegins, Items, Works
    <2>2. /\ pc = "idle" /\ pc' = "event"
          /\ wq' \in Seq(Items)
          /\ \A v : Contains(wq, v) => v = "read" \/ Contains(wq', v)
      BY <2>1, TakeFacts
    <2> QED
      BY <1>1, <2>2 DEF ReadBegins, QueueOK, rings
  <1>2. CASE NextEvent
    <2>1. rxq' \in Nat
      BY <1>2 DEF NextEvent, QueueOK
    <2> QED
      BY <1>2, <2>1 DEF NextEvent, QueueOK, rings
  <1>3. ASSUME NEW more, ReadEnds(more), UNCHANGED <<delayed, txq, last>>,
               pc \in {"event", "rauth", "reading"},
               rxq' = 0 \/ (putBack' /\ rxq' \in Nat),
               rfsRx' \in Nat, in' \in [{"data", "rfs"} -> Nat],
               rfsRx' > 0 => more \/ Pending("rx")
        PROVE  CoverInv'
    <2>1. /\ wq' \in Seq(Items)
          /\ \A v : Contains(wq, v) => Contains(wq', v)
          /\ more => Contains(wq', "rx") \/ "rx" \in delayed
      BY <1>3, QueuedFacts DEF ReadEnds, QueueOK, Works
    <2>2. QueueOK'
      BY <1>3, <2>1 DEF QueueOK
    <2>3. pc' = "idle"
      BY <1>3 DEF ReadEnds
    <2>4. PacketsHaveWork'
      BY <1>3, <2>1, <2>3
    <2>5. EventsHaveWork'
      BY <1>3
    <2>6. RfsCovered'
      BY <1>3, <2>1
    <2> QED
      BY <2>2, <2>4, <2>5, <2>6
  <1>4. CASE EventsDone
    BY <1>4, <1>3 DEF EventsDone, QueueOK, rings
  <1>5. CASE ReadTimesOut
    <2>1. rxq' \in Nat
      BY <1>5 DEF ReadTimesOut, ReadFails, QueueOK
    <2> QED
      BY <1>5, <2>1, <1>3 DEF ReadTimesOut, ReadFails, QueueOK, rings
  <1>6. CASE ReadStarts
    BY <1>6 DEF ReadStarts, QueueOK, rings, reader
  <1>7. CASE RingsRead
    <2>0. in.data \in Nat /\ in.rfs \in Nat /\ rfsRx \in Nat /\ rxq \in Nat
      BY DEF QueueOK
    <2>1. CASE /\ in' = [data |-> 0, rfs |-> 0]
               /\ Moved(in.rfs)
               /\ contd' = (rfsRx + in.rfs > 0)
               /\ pc' = "event"
               /\ UNCHANGED <<rxq, wq, putBack, stale>>
      <3>1. rfsRx' \in Nat /\ in' \in [{"data", "rfs"} -> Nat]
        BY <2>0, <2>1 DEF Moved
      <3> QED
        BY <1>7, <2>0, <2>1, <3>1 DEF RingsRead, Moved, QueueOK
    <2>2. ASSUME NEW n \in Nat, RingFails(n), in' \in [{"data", "rfs"} -> Nat]
          PROVE  CoverInv'
      <3>1. rfsRx' = rfsRx + n /\ rfsRx' \in Nat
        BY <2>0, <2>2 DEF RingFails, Moved
      <3>2. putBack' /\ rxq' \in Nat /\ ReadEnds(rfsRx + n > 0)
        BY <2>0, <2>2 DEF RingFails, ReadFails
      <3> QED
        BY <1>7, <1>3, <2>2, <3>1, <3>2 DEF RingsRead
    <2>3. ASSUME NEW n \in 0 .. in.data, in' = [in EXCEPT !.data = n], RingFails(0)
          PROVE  CoverInv'
      <3>1. in' \in [{"data", "rfs"} -> Nat]
        BY <2>0, <2>3 DEF QueueOK
      <3> QED
        BY <2>2, <2>3, <3>1
    <2>4. ASSUME NEW n \in 1 .. in.rfs, NEW rest \in {0, 1},
                 in' = [data |-> 0, rfs |-> n * rest], RingFails(in.rfs - n)
          PROVE  CoverInv'
      <3>1. n * rest \in Nat /\ in.rfs - n \in Nat
        BY <2>0, <2>4
      <3>2. in' \in [{"data", "rfs"} -> Nat]
        BY <2>4, <3>1
      <3> QED
        BY <2>2, <2>4, <3>1, <3>2
    <2> QED
      BY <1>7, <2>1, <2>3, <2>4 DEF RingsRead
  <1> QED
    BY <1>1, <1>2, <1>4, <1>5, <1>6, <1>7 DEF Read

\* svnet_write_wq and sipc_write.
LEMMA WriteStep ==
  ASSUME CoverInv, Write
  PROVE  CoverInv'
  <1> USE DEF CoverInv, PacketsHaveWork, EventsHaveWork, RfsCovered, Pending, Gone, session,
              reader
  <1>1. CASE WriteBegins
    <2> DEFINE p == IF si = "none" THEN "idle" ELSE "wauth"
    <2>1. Take("write", p) /\ "write" \in Items
      BY <1>1 DEF WriteBegins, Items, Works
    <2>2. /\ pc = "idle" /\ pc' = p
          /\ wq' \in Seq(Items)
          /\ \A v : Contains(wq, v) => v = "write" \/ Contains(wq', v)
      BY <2>1, TakeFacts
    <2>3. txq' \in Seq({"data", "bad"})
      BY <1>1 DEF WriteBegins, QueueOK
    <2> QED
      BY <1>1, <2>2, <2>3 DEF WriteBegins, QueueOK, rings
  <1>2. CASE WriteTimesOut
    BY <1>2 DEF WriteTimesOut, WriteEnds, QueueOK, rings
  <1>3. CASE WriteStarts
    BY <1>3 DEF WriteStarts, QueueOK, rings
  <1>4. CASE WritePacket \/ WriteInvalid
    <2>1. Tail(txq) \in Seq({"data", "bad"})
      BY <1>4, HeadTailProperties DEF WritePacket, WriteInvalid, QueueOK
    <2> QED
      BY <1>4, <2>1 DEF WritePacket, WriteInvalid, WriteEnds, QueueOK, rings
  <1>5. CASE WriteDone
    BY <1>5 DEF WriteDone, WriteEnds, QueueOK, rings
  <1>6. CASE WriteFull
    BY <1>6 DEF WriteFull, QueueOK, rings
  <1>7. CASE FullWaits
    BY <1>7 DEF FullWaits, WriteEnds, Delayed, QueueOK, rings, Works
  <1> QED
    BY <1>1, <1>2, <1>3, <1>4, <1>5, <1>6, <1>7 DEF Write

\* The works rx and exit, the barrier of a flush, and faults.
LEMMA OtherWorkStep ==
  ASSUME CoverInv, RxRuns \/ ExitBegins \/ ExitPurges \/ Flushed \/ Faults
  PROVE  CoverInv'
  <1> USE DEF CoverInv, PacketsHaveWork, EventsHaveWork, RfsCovered, Pending, Gone, session
  <1>1. CASE RxRuns
    <2> DEFINE p == IF si = "err" THEN "dead" ELSE "idle"
    <2>1. Take("rx", p) /\ "rx" \in Items
      BY <1>1 DEF RxRuns, Items, Works
    <2>2. /\ pc = "idle" /\ pc' = p
          /\ wq' \in Seq(Items)
          /\ \A v : Contains(wq, v) => v = "rx" \/ Contains(wq', v)
      BY <2>1, TakeFacts
    <2>3. rfsRx' \in Nat
      BY <1>1, SvnetAssumption DEF RxRuns, QueueOK
    <2>4. delayed' \subseteq Works /\ delayed \subseteq delayed'
      BY <1>1 DEF RxRuns, QueueOK, Works
    <2> QED
      BY <1>1, <2>2, <2>3, <2>4 DEF RxRuns, QueueOK, rings
  <1>2. CASE ExitBegins
    <2> DEFINE p == IF exitFlag = "NORMAL" THEN "idle" ELSE "purge"
    <2>1. Take("exit", p) /\ "exit" \in Items
      BY <1>2 DEF ExitBegins, Items, Works
    <2>2. /\ pc = "idle" /\ pc' = p
          /\ wq' \in Seq(Items)
          /\ \A v : Contains(wq, v) => v = "exit" \/ Contains(wq', v)
      BY <2>1, TakeFacts
    <2> QED
      BY <1>2, <2>2 DEF ExitBegins, QueueOK, rings, reader
  <1>3. CASE ExitPurges
    BY <1>3 DEF ExitPurges, QueueOK, rings
  <1>4. CASE Flushed
    <2>1. Take("barrier", "idle") /\ "barrier" \in Items
      BY <1>4 DEF Flushed, Items
    <2>2. /\ pc = "idle" /\ pc' = "idle"
          /\ wq' \in Seq(Items)
          /\ \A v : Contains(wq, v) => v = "barrier" \/ Contains(wq', v)
      BY <2>1, TakeFacts
    <2> QED
      BY <1>4, <2>2 DEF Flushed, QueueOK, rings, reader
  <1>5. CASE Faults
    BY <1>5 DEF Faults, QueueOK, rings, reader
  <1> QED
    BY <1>1, <1>2, <1>3, <1>4, <1>5

LEMMA Covered == Spec => []CoverInv
  <1>1. Init => CoverInv
    BY DEF Init, CoverInv, QueueOK, PacketsHaveWork, EventsHaveWork, RfsCovered
  <1>2. CoverInv /\ [Next]_vars => CoverInv'
    <2> SUFFICES ASSUME CoverInv, [Next]_vars PROVE CoverInv'
      OBVIOUS
    <2>1. CASE UNCHANGED vars
      BY <2>1 DEF vars, CoverInv, QueueOK, PacketsHaveWork, EventsHaveWork, RfsCovered,
                  Pending, Gone
    <2>2. CASE Next
      BY <2>2, EnvironmentStep, ReadStep, WriteStep, OtherWorkStep DEF Next, Svnetd
    <2> QED
      BY <2>1, <2>2
  <1> QED
    BY <1>1, <1>2, PTL DEF Spec

\* A packet that svnet_xmit has queued is never without a write work, unless the
\* last sipc_write timed out or met a packet for no ring.
THEOREM PacketsAlwaysHaveWork == Spec => []PacketsHaveWork
  <1>1. CoverInv => PacketsHaveWork
    BY DEF CoverInv
  <1> QED
    BY <1>1, Covered, PTL

\* An event that svnet_queue_event has queued is never without a read work,
\* unless the last sipc_read failed.
THEOREM EventsAlwaysHaveWork == Spec => []EventsHaveWork
  <1>1. CoverInv => EventsHaveWork
    BY DEF CoverInv
  <1> QED
    BY <1>1, Covered, PTL

\* No failure of sipc_read leaves packets in rfs_rx without the work rx.
THEOREM RfsAlwaysHasWork == Spec => []RfsHasWork
  <1>1. CoverInv => RfsHasWork
    BY DEF CoverInv, RfsCovered, RfsHasWork
  <1> QED
    BY <1>1, Covered, PTL
-----------------------------------------------------------------------------
(* The device's queue. *)

\* A device that is up has a session, or takes an error pointer for one.
NetSi == net = "up" => si # "none"

\* The exit work runs for a crash; an open that calls the crash off starts the
\* queue.
PurgeInv == pc = "purge" /\ net = "up" /\ stopped => exitFlag # "NORMAL"

\* A stopped queue has a packet for a ring at the head of txq: the one that did
\* not fit. It stays there, with a write work or a write that timed out.
StopInv == net = "up" /\ stopped /\ exitFlag = "NORMAL" /\ ~Gone =>
               /\ txq # <<>>
               /\ Head(txq) = "data"
               /\ \/ Pending("write")
                  \/ pc \in {"wauth", "writing", "full"}
                  \/ last = "ETIMEDOUT"

DeviceInv == NetSi /\ PurgeInv /\ StopInv

\* Steps that leave the device, txq and the write work alone.
LEMMA QuietStep ==
  ASSUME DeviceInv,
         UNCHANGED <<net, si, stopped, txq, last, exitFlag>>,
         Pending("write") => Pending("write")',
         pc \in {"wauth", "writing", "full"} => pc' \in {"wauth", "writing", "full", "dead"},
         pc' = "purge" => pc = "purge" \/ exitFlag # "NORMAL",
         Gone => Gone'
  PROVE  DeviceInv'
  <1>1. NetSi' /\ PurgeInv'
    BY DEF DeviceInv, NetSi, PurgeInv
  <1>2. StopInv'
    BY DEF DeviceInv, StopInv, Gone
  <1> QED
    BY <1>1, <1>2 DEF DeviceInv

LEMMA DeviceRead ==
  ASSUME QueueOK, DeviceInv, Read
  PROVE  DeviceInv'
  <1>1. UNCHANGED <<net, si, stopped, txq, last, exitFlag, delayed>>
    BY DEF Read, ReadBegins, NextEvent, EventsDone, ReadTimesOut, ReadStarts, RingsRead,
           session
  <1>2. /\ pc \notin {"wauth", "writing", "full", "dead", "dumped"}
        /\ pc' # "purge"
    BY DEF Read, ReadBegins, NextEvent, EventsDone, ReadTimesOut, ReadStarts, RingsRead,
           Take, ReadFails, RingFails, ReadEnds
  <1>3. Contains(wq, "write") => Contains(wq', "write")
    <2>1. CASE ReadBegins
      BY <2>1, TakeFacts DEF ReadBegins, Items, Works
    <2>2. ASSUME NEW more, ReadEnds(more) PROVE Contains(wq, "write") => Contains(wq', "write")
      BY <2>2, QueuedFacts DEF ReadEnds, Works
    <2>3. CASE NextEvent \/ ReadStarts
      BY <2>3 DEF NextEvent, ReadStarts
    <2>4. CASE EventsDone \/ ReadTimesOut
      BY <2>2, <2>4 DEF EventsDone, ReadTimesOut, ReadFails
    <2>5. CASE RingsRead
      BY <2>2, <2>5 DEF RingsRead, RingFails, ReadFails
    <2> QED
      BY <2>1, <2>3, <2>4, <2>5 DEF Read
  <1> QED
    BY <1>1, <1>2, <1>3, QuietStep DEF Pending, Gone

LEMMA DeviceWrite ==
  ASSUME QueueOK, DeviceInv, Write
  PROVE  DeviceInv'
  <1> USE DEF DeviceInv, NetSi, PurgeInv, StopInv, Pending, Gone, session
  <1>1. CASE WriteBegins
    BY <1>1 DEF WriteBegins, Take
  <1>2. CASE WriteTimesOut
    BY <1>2 DEF WriteTimesOut, WriteEnds
  <1>3. CASE WriteStarts
    BY <1>3 DEF WriteStarts
  <1>4. CASE WritePacket
    BY <1>4 DEF WritePacket
  <1>5. CASE WriteInvalid
    BY <1>5 DEF WriteInvalid, WriteEnds
  <1>6. CASE WriteDone
    BY <1>6 DEF WriteDone, WriteEnds
  <1>7. CASE WriteFull
    BY <1>7 DEF WriteFull
  <1>8. CASE FullWaits
    BY <1>8 DEF FullWaits, WriteEnds, Delayed
  <1> QED
    BY <1>1, <1>2, <1>3, <1>4, <1>5, <1>6, <1>7, <1>8 DEF Write

LEMMA DeviceOther ==
  ASSUME QueueOK, DeviceInv, RxRuns \/ ExitBegins \/ ExitPurges \/ Flushed \/ Faults
  PROVE  DeviceInv'
  <1> USE DEF session
  <1>1. ASSUME NEW w \in Items \ {"write"}, NEW p, Take(w, p)
        PROVE  /\ pc = "idle" /\ pc' = p
               /\ Contains(wq, "write") => Contains(wq', "write")
    BY <1>1, TakeFacts
  <1>2. CASE RxRuns
    <2>1. Contains(wq, "write") => Contains(wq', "write")
      BY <1>1, <1>2 DEF RxRuns, Items, Works
    <2>2. pc = "idle" /\ pc' \in {"idle", "dead"}
      BY <1>2 DEF RxRuns, Take
    <2>3. delayed \subseteq delayed' /\ UNCHANGED <<net, si, stopped, txq, last, exitFlag>>
      BY <1>2 DEF RxRuns
    <2> QED
      BY <2>1, <2>2, <2>3, QuietStep DEF Pending, Gone
  <1>3. CASE ExitBegins
    <2>1. Contains(wq, "write") => Contains(wq', "write")
      BY <1>1, <1>3 DEF ExitBegins, Items, Works
    <2>2. pc = "idle" /\ (pc' = "purge" => exitFlag # "NORMAL")
      BY <1>3 DEF ExitBegins, Take
    <2>3. UNCHANGED <<net, si, stopped, txq, last, exitFlag, delayed>>
      BY <1>3 DEF ExitBegins
    <2> QED
      BY <2>1, <2>2, <2>3, QuietStep DEF Pending, Gone
  <1>4. CASE ExitPurges
    BY <1>4 DEF ExitPurges, DeviceInv, NetSi, PurgeInv, StopInv
  <1>5. CASE Flushed
    BY <1>5 DEF Flushed, DeviceInv, NetSi, PurgeInv, StopInv
  <1>6. CASE Faults
    BY <1>6 DEF Faults, DeviceInv, NetSi, PurgeInv, StopInv, Gone
  <1> QED
    BY <1>2, <1>3, <1>4, <1>5, <1>6

LEMMA DeviceEnvironment ==
  ASSUME QueueOK, DeviceInv,
         \/ \E k \in Kinds : Xmit(k)
         \/ DataEvent
         \/ \E c \in Crashes : CrashEvent(c)
         \/ \E w \in Works : TimerFires(w)
         \/ Open \/ CloseBegins \/ CloseFrees
         \/ CpTakes
         \/ \E r \in DOMAIN in : CpFills(r)
  PROVE  DeviceInv'
  <1> USE DEF session
  <1>1. ASSUME NEW k \in Kinds, Xmit(k) PROVE DeviceInv'
    BY <1>1 DEF Xmit, DeviceInv, NetSi, PurgeInv, StopInv
  <1>2. CASE DataEvent
    <2>1. Contains(wq, "write") => Contains(wq', "write")
      BY <1>2, QueuedFacts DEF DataEvent, Works
    <2> QED
      BY <1>2, <2>1, QuietStep DEF DataEvent, Pending, Gone
  <1>3. ASSUME NEW c \in Crashes, CrashEvent(c) PROVE DeviceInv'
    <2>1. exitFlag' # "NORMAL"
      BY <1>3, SvnetAssumption DEF CrashEvent
    <2> QED
      BY <1>3, <2>1 DEF CrashEvent, DeviceInv, NetSi, PurgeInv, StopInv
  <1>4. ASSUME NEW w \in Works, TimerFires(w) PROVE DeviceInv'
    <2>1. Contains(wq', w) /\ (Contains(wq, "write") => Contains(wq', "write"))
      BY <1>4, AppendFacts DEF TimerFires, QueueOK, Items
    <2>2. Pending("write") => Pending("write")'
      BY <1>4, <2>1 DEF TimerFires, Pending
    <2> QED
      BY <1>4, <2>2, QuietStep DEF TimerFires, Gone
  <1>5. CASE Open
    BY <1>5 DEF Open, DeviceInv, NetSi, PurgeInv, StopInv
  <1>6. CASE CloseBegins
    BY <1>6 DEF CloseBegins, DeviceInv, NetSi, PurgeInv, StopInv
  <1>7. CASE CloseFrees
    BY <1>7 DEF CloseFrees, DeviceInv, NetSi, PurgeInv, StopInv
  <1>8. CASE CpTakes
    BY <1>8, QuietStep DEF CpTakes, Pending, Gone
  <1>9. ASSUME NEW r \in DOMAIN in, CpFills(r) PROVE DeviceInv'
    BY <1>9, QuietStep DEF CpFills, Pending, Gone
  <1> QED
    BY <1>1, <1>2, <1>3, <1>4, <1>5, <1>6, <1>7, <1>8, <1>9

\* A device whose queue sipc_write has stopped is started again: the packet that
\* did not fit waits at the head of txq with a write work. Exceptions: a write
\* that timed out, and a crash of the modem.
THEOREM StoppedAlwaysHasWork == Spec => []StoppedHasWork
  <1>1. Init => DeviceInv
    BY DEF Init, DeviceInv, NetSi, PurgeInv, StopInv
  <1>2. CoverInv /\ DeviceInv /\ [Next]_vars => DeviceInv'
    <2> SUFFICES ASSUME CoverInv, DeviceInv, [Next]_vars PROVE DeviceInv'
      OBVIOUS
    <2>0. QueueOK
      BY DEF CoverInv
    <2>1. CASE UNCHANGED vars
      BY <2>1, QuietStep DEF vars, Pending, Gone
    <2>2. CASE Next
      BY <2>0, <2>2, DeviceEnvironment, DeviceRead, DeviceWrite, DeviceOther DEF Next, Svnetd
    <2> QED
      BY <2>1, <2>2
  <1>3. DeviceInv => StoppedHasWork
    BY DEF DeviceInv, StopInv, StoppedHasWork
  <1> QED
    BY <1>1, <1>2, <1>3, Covered, PTL DEF Spec
-----------------------------------------------------------------------------
(* Types. *)

\* What TypeOK asks of the variables that are not in QueueOK.
RestOK == /\ net \in {"down", "up", "closing", "flushed"}
          /\ si \in {"none", "ok", "err"}
          /\ stopped \in BOOLEAN
          /\ delayed \subseteq {"write", "rx"}
          /\ pc \in Places
          /\ stale \in BOOLEAN
          /\ contd \in BOOLEAN
          /\ last \in Results
          /\ putBack \in BOOLEAN
          /\ out \in 0 .. Room
          /\ exitFlag \in {"NORMAL", "RESET", "EXIT"}
          /\ left \in [{"tx", "mail", "in", "open"} -> Nat]

LEMMA SpendFacts ==
  ASSUME RestOK, NEW what \in {"tx", "mail", "in", "open"}, Spend(what)
  PROVE  left' \in [{"tx", "mail", "in", "open"} -> Nat]
  BY DEF RestOK, Spend

LEMMA RestStep == QueueOK /\ RestOK /\ [Next]_vars => RestOK'
  <1> SUFFICES ASSUME QueueOK, RestOK, [Next]_vars PROVE RestOK'
    OBVIOUS
  <1> USE SvnetAssumption DEF RestOK, session, rings, reader, Places, Results
  <1>1. CASE UNCHANGED vars
    BY <1>1 DEF vars
  <1>2. ASSUME NEW k \in Kinds, Xmit(k) PROVE RestOK'
    BY <1>2, SpendFacts DEF Xmit
  <1>3. CASE DataEvent
    BY <1>3, SpendFacts DEF DataEvent
  <1>4. ASSUME NEW c \in Crashes, CrashEvent(c) PROVE RestOK'
    BY <1>4, SpendFacts DEF CrashEvent
  <1>5. ASSUME NEW w \in Works, TimerFires(w) PROVE RestOK'
    BY <1>5 DEF TimerFires
  <1>6. CASE Open
    <2>1. left' \in [{"tx", "mail", "in", "open"} -> Nat]
      BY <1>6, SpendFacts DEF Open
    <2>2. out' \in 0 .. Room
      BY <1>6 DEF Open
    <2>3. stopped' \in BOOLEAN
      BY <1>6 DEF Open
    <2>4. net' \in {"down", "up"} /\ si' \in {"none", "ok", "err"}
      BY <1>6 DEF Open
    <2>5. exitFlag' \in {"NORMAL", "RESET", "EXIT"}
      BY <1>6 DEF Open
    <2> QED
      BY <1>6, <2>1, <2>2, <2>3, <2>4, <2>5 DEF Open
  <1>7. CASE CloseBegins
    BY <1>7 DEF CloseBegins
  <1>8. CASE CloseFrees
    BY <1>8 DEF CloseFrees
  <1>9. CASE CpTakes
    BY <1>9 DEF CpTakes
  <1>10. ASSUME NEW r \in DOMAIN in, CpFills(r) PROVE RestOK'
    BY <1>10, SpendFacts DEF CpFills
  <1>11. CASE Read
    <2>1. CASE ReadBegins
      BY <2>1 DEF ReadBegins, Take
    <2>2. CASE NextEvent
      BY <2>2 DEF NextEvent
    <2>3. CASE EventsDone
      BY <2>3 DEF EventsDone, ReadEnds
    <2>4. CASE ReadTimesOut
      BY <2>4 DEF ReadTimesOut, ReadFails, ReadEnds
    <2>5. CASE ReadStarts
      BY <2>5 DEF ReadStarts
    <2>6. CASE RingsRead
      <3>1. out' = out
        BY <2>6 DEF RingsRead
      <3>2. contd' \in BOOLEAN
        <4>1. (rfsRx + in.rfs > 0) \in BOOLEAN
          BY SMT DEF QueueOK
        <4> QED
          BY <2>6, <4>1, Zenon DEF RingsRead, RingFails, ReadFails, ReadEnds
      <3>3. pc' \in {"event", "idle"}
        BY <2>6 DEF RingsRead, RingFails, ReadFails, ReadEnds
      <3>4. putBack' \in BOOLEAN /\ stale' \in BOOLEAN
        BY <2>6 DEF RingsRead, RingFails, ReadFails, ReadEnds
      <3> QED
        BY <2>6, <3>1, <3>2, <3>3, <3>4 DEF RingsRead
    <2> QED
      BY <1>11, <2>1, <2>2, <2>3, <2>4, <2>5, <2>6 DEF Read
  <1>12. CASE Write
    <2>1. CASE WriteBegins
      BY <2>1 DEF WriteBegins, Take
    <2>2. CASE WriteTimesOut
      BY <2>2 DEF WriteTimesOut, WriteEnds
    <2>3. CASE WriteStarts
      BY <2>3 DEF WriteStarts
    <2>4. CASE WritePacket
      <3>1. out' \in 0 .. Room
        BY <2>4 DEF WritePacket
      <3>2. stopped' \in BOOLEAN
        BY <2>4 DEF WritePacket
      <3> QED
        BY <2>4, <3>1, <3>2 DEF WritePacket
    <2>5. CASE WriteInvalid
      BY <2>5 DEF WriteInvalid, WriteEnds
    <2>6. CASE WriteDone
      BY <2>6 DEF WriteDone, WriteEnds
    <2>7. CASE WriteFull
      BY <2>7 DEF WriteFull
    <2>8. CASE FullWaits
      BY <2>8 DEF FullWaits, WriteEnds, Delayed
    <2> QED
      BY <1>12, <2>1, <2>2, <2>3, <2>4, <2>5, <2>6, <2>7, <2>8 DEF Write
  <1>13. CASE RxRuns
    BY <1>13 DEF RxRuns, Take
  <1>14. CASE ExitBegins
    BY <1>14 DEF ExitBegins, Take
  <1>15. CASE ExitPurges
    BY <1>15 DEF ExitPurges
  <1>16. CASE Flushed
    BY <1>16 DEF Flushed, Take
  <1>17. CASE Faults
    BY <1>17 DEF Faults
  <1> QED
    BY <1>1, <1>2, <1>3, <1>4, <1>5, <1>6, <1>7, <1>8, <1>9, <1>10, <1>11, <1>12, <1>13,
       <1>14, <1>15, <1>16, <1>17 DEF Next, Svnetd

\* Every variable of the device keeps its type; the out ring never holds more
\* packets than it has room for.
THEOREM TypeCorrect == Spec => []TypeOK
  <1>1. Init => RestOK
    <2> SUFFICES ASSUME Init PROVE RestOK
      OBVIOUS
    <2>1. {stopped, stale, contd, putBack} \subseteq BOOLEAN
      BY Zenon DEF Init
    <2>2. left \in [{"tx", "mail", "in", "open"} -> Nat]
      BY SvnetAssumption DEF Init
    <2>3. out \in 0 .. Room
      BY SvnetAssumption DEF Init
    <2> QED
      BY <2>1, <2>2, <2>3 DEF Init, RestOK, Places, Results
  <1>2. CoverInv => QueueOK
    BY DEF CoverInv
  <1>3. QueueOK /\ RestOK => TypeOK
    BY DEF QueueOK, RestOK, TypeOK, Items
  <1> QED
    BY <1>1, <1>2, <1>3, RestStep, Covered, PTL DEF Spec
=============================================================================
