---------------------------- MODULE SipcFmtStream ----------------------------
(***************************************************************************)
(* The packets of SipcFmt as the reader hands them up: whole and in order, *)
(* for rings, blocks and packets of any size, any number of packets, of    *)
(* failing allocations and of resets.                                      *)
(***************************************************************************)
EXTENDS SipcFmtProof
-----------------------------------------------------------------------------
(* Frames. *)

\* A frame carries something, its id says whether it is a packet of its own, and
\* the last one ends where its packet ends.
FrameOK(f) == /\ f.no \in DOMAIN sent
              /\ f.from < f.to
              /\ f.id = IF f.more \/ f.from > 0 THEN 1 ELSE 0
              /\ ~f.more => f.to = sent[f.no]

\* Pieces are only ever kept for id 1.
FramesInv == /\ \A i \in DOMAIN ring : FrameOK(ring[i])
             /\ frags[0] = <<>>
-----------------------------------------------------------------------------
(* Order. *)

\* The least number that may follow f in the ring.
NextNo(f) == IF f.more THEN f.no ELSE f.no + 1

LastNo(u) == Last(u).no

UpOrder   == \A i, j \in DOMAIN up : i < j => LastNo(up[i]) < LastNo(up[j])
RingOrder == \A i, j \in DOMAIN ring : i < j => NextNo(ring[i]) <= ring[j].no
TxOrder   == \A i, j \in DOMAIN txq : i < j => txq[i].no < txq[j].no

OrderInv == /\ UpOrder
            /\ RingOrder
            /\ TxOrder
            /\ \A i \in DOMAIN up, j \in DOMAIN ring : LastNo(up[i]) < ring[j].no
            /\ \A i \in DOMAIN up, j \in DOMAIN txq : LastNo(up[i]) < txq[j].no
            /\ \A i \in DOMAIN ring, j \in DOMAIN txq : NextNo(ring[i]) <= txq[j].no
            /\ \A i \in DOMAIN up : LastNo(up[i]) \in DOMAIN sent
            /\ \A i \in DOMAIN up : up[i] # <<>>
-----------------------------------------------------------------------------
(* Without resets the packets are numbered through: handed up, in the ring,  *)
(* in txq.                                                                   *)

\* The number due at place i of the ring.
NumberAt(i) == IF i = 1 THEN Len(up) + 1 ELSE NextNo(ring[i - 1])

Numbered == /\ \A i \in DOMAIN up : LastNo(up[i]) = i
            /\ \A i \in DOMAIN ring : ring[i].no = NumberAt(i)
            /\ \A i \in DOMAIN txq : txq[i].no = NumberAt(Len(ring) + 1) + i - 1
            /\ Len(sent) = NumberAt(Len(ring) + 1) + Len(txq) - 1

Budget == left.reset <= MaxResets

CountInv == /\ Budget
            /\ ~torn /\ ~Reset => Numbered
-----------------------------------------------------------------------------
(* The stream of frames through the ring. A position is the number of the    *)
(* packet that is half-way and the bytes of it that have gone by.            *)

Between == [no |-> 0, off |-> 0]

After(f) == IF f.more THEN [no |-> f.no, off |-> f.to] ELSE Between

Kept == FlattenSeq(frags[1])

ReadPos == IF Kept = <<>> THEN Between
                          ELSE [no |-> Kept[Len(Kept)].no, off |-> Kept[Len(Kept)].to]

\* The position at which the frame at place i of the ring begins, and behind the
\* last frame.
PosAt(i) == IF i = 1 THEN ReadPos ELSE After(ring[i - 1])

Continues(p, f) == /\ f.from = p.off
                   /\ p.off > 0 => f.no = p.no

\* Pieces that lie end to end from the beginning of one packet.
EndToEnd(u) == \A j \in DOMAIN u :
                   /\ u[j].no = u[1].no
                   /\ u[j].from = IF j = 1 THEN 0 ELSE u[j - 1].to
                   /\ u[j].to > 0

Whole(u) == /\ u # <<>>
            /\ EndToEnd(u)
            /\ u[1].no \in DOMAIN sent
            /\ u[Len(u)].to = sent[u[1].no]

\* The writer stands behind the last frame, in the packet at the head of txq.
WriterAt(p) == /\ fi.offset = p.off
               /\ p.off > 0 => /\ txq # <<>>
                               /\ Head(txq).no = p.no
                               /\ Head(txq).skb = fi.skb

Stream == /\ EndToEnd(Kept)
          /\ \A i \in DOMAIN ring : Continues(PosAt(i), ring[i])
          /\ WriterAt(PosAt(Len(ring) + 1))
          /\ \A i \in DOMAIN up : Whole(up[i])

StreamInv == ~torn => Stream
-----------------------------------------------------------------------------
(* What the steps do to the frames. *)

\* _write_fmt: the frame that it adds, and what becomes of the packet.
LEMMA FrameWritten ==
  ASSUME LongInv, DataOK, WriteFrame
  PROVE  /\ txq # <<>>
         /\ UNCHANGED <<sent, frags, up, torn, left>>
         /\ \E f \in Frames :
               /\ ring' = Append(ring, f)
               /\ FrameOK(f)
               /\ f.no = Head(txq).no
               /\ f.from = Sent
               /\ f.more => txq' = txq /\ fi'.skb = Head(txq).skb /\ fi'.offset = f.to
               /\ ~f.more => txq' = Tail(txq) /\ fi'.offset = 0
  <1> DEFINE h == Head(txq)
             more == Remain > Space
             n    == Written(Carries + Ovh)
             f    == [id |-> Id(more), more |-> more, no |-> h.no, from |-> Sent,
                      to |-> Sent + Carries, size |-> n]
  <1>1. /\ txq # <<>> /\ ring' = Append(ring, f)
        /\ UNCHANGED <<sent, frags, up, torn, left>>
    BY DEF WriteFrame, ghosts, reader
  <1>2. h \in [skb : Addrs, no : 1 .. MaxPackets, len : Lens]
    BY <1>1, TailKeeps DEF DataOK
  <1>3. h.no \in DOMAIN sent /\ h.len = sent[h.no]
    BY <1>1, TailKeeps DEF LongInv, FmtTypes, KnownPacket
  <1>4. more \in BOOLEAN /\ Id(more) \in {0, 1}
    BY FrameFacts DEF Id
  <1>5. /\ Sent \in Nat /\ Carries \in Nat /\ Carries > 0
        /\ n = Carries + Ovh /\ Ovh \in Nat /\ n \in Nat
        /\ n - Ovh = Carries /\ Sent + n - Ovh = Sent + Carries
        /\ more => Carries # Remain
        /\ ~more => Carries = Remain /\ Sent + Carries = h.len
    BY FrameFacts, FmtAssumption DEF Packet
  <1>6. f \in Frames
    BY <1>2, <1>4, <1>5 DEF Frames
  <1>7. f.no = h.no /\ f.from = Sent /\ f.more = more /\ f.to = Sent + Carries /\ f.id = Id(more)
    OBVIOUS
  <1>8. more => txq' = txq /\ fi'.skb = h.skb /\ fi'.offset = Sent + Carries
    BY <1>5 DEF WriteFrame
  <1>9. ~more => txq' = Tail(txq) /\ fi'.offset = 0
    BY <1>5 DEF WriteFrame
  <1> HIDE DEF f, h, n, more
  <1>10. FrameOK(f)
    <2>1. f.from < f.to
      BY <1>5, <1>7
    <2>2. f.id = IF f.more \/ f.from > 0 THEN 1 ELSE 0
      BY <1>7 DEF Id
    <2>3. ~f.more => f.to = sent[f.no]
      BY <1>3, <1>5, <1>7
    <2> QED
      BY <1>3, <1>7, <2>1, <2>2, <2>3 DEF FrameOK
  <1>11. /\ f.no = Head(txq).no
         /\ f.more => txq' = txq /\ fi'.skb = Head(txq).skb /\ fi'.offset = f.to
         /\ ~f.more => txq' = Tail(txq) /\ fi'.offset = 0
    BY <1>7, <1>8, <1>9 DEF h
  <1> QED
    BY <1>1, <1>6, <1>7, <1>10, <1>11

\* Reading: the first frame leaves the ring.
LEMMA FrameRead ==
  ASSUME DataOK, FramesInv, ReadLast \/ ReadFrag
  PROVE  /\ ring # <<>> /\ ring' = Tail(ring)
         /\ Head(ring) = ring[1] /\ 1 \in DOMAIN ring
         /\ ring[1] \in Frames /\ FrameOK(ring[1]) /\ Piece(ring[1]) \in Pieces
         /\ UNCHANGED <<sent, txq, fi, torn, left>>
  <1>1. ring # <<>> /\ ring' = Tail(ring) /\ UNCHANGED <<sent, txq, fi, torn, left>>
    BY DEF ReadLast, ReadFrag, Taken, writer, ghosts
  <1>2. Head(ring) = ring[1] /\ 1 \in DOMAIN ring
    BY <1>1, TailKeeps DEF DataOK
  <1> QED
    BY <1>1, <1>2, PieceFacts DEF FramesInv

\* _read_fmt_frag: a piece more for id 1.
LEMMA FragRead ==
  ASSUME DataOK, FramesInv, ReadFrag
  PROVE  /\ ring[1].more
         /\ frags'[0] = <<>>
         /\ FlattenSeq(frags'[1]) = Append(FlattenSeq(frags[1]), Piece(ring[1]))
         /\ up' = up
  <1> DEFINE f == ring[1]
  <1>1. f = Head(ring) /\ f.more /\ f.id = 1 /\ Piece(f) \in Pieces
    BY FrameRead DEF ReadFrag, FrameOK
  <1>2. frags' = [frags EXCEPT ![1] = Extended(frags[1], f)] /\ up' = up
    BY <1>1 DEF ReadFrag, Extended
  <1>3. frags \in [{0, 1} -> Seq(Seq(Pieces))]
    BY DEF DataOK
  <1>4. frags'[1] = Extended(frags[1], f) /\ frags'[0] = frags[0]
    BY <1>2, <1>3
  <1>5. FlattenSeq(Extended(frags[1], f)) = Append(FlattenSeq(frags[1]), Piece(f))
    BY <1>1, <1>3, ExtendedFacts
  <1> QED
    BY <1>1, <1>2, <1>4, <1>5 DEF FramesInv

\* _read_fmt_last: the packet is made of the pieces of the frame's id.
LEMMA LastRead ==
  ASSUME DataOK, FramesInv, ReadLast
  PROVE  /\ ~ring[1].more
         /\ frags'[0] = <<>>
         /\ ring[1].from > 0 => /\ up' = Append(up, Append(FlattenSeq(frags[1]), Piece(ring[1])))
                                /\ FlattenSeq(frags'[1]) = <<>>
         /\ ring[1].from = 0 => /\ up' = Append(up, <<Piece(ring[1])>>)
                                /\ frags'[1] = frags[1]
  <1> DEFINE f == ring[1]
  <1>1. f = Head(ring) /\ ~f.more /\ FrameOK(f) /\ f.from \in Nat
    BY FrameRead DEF ReadLast, Frames
  <1>2. /\ frags' = [frags EXCEPT ![f.id] = <<>>]
        /\ up' = Append(up, Append(FlattenSeq(frags[f.id]), Piece(f)))
    BY <1>1 DEF ReadLast, Destroyed
  <1>3. frags \in [{0, 1} -> Seq(Seq(Pieces))]
    BY DEF DataOK
  <1>4. CASE f.from > 0
    <2>1. f.id = 1
      BY <1>1, <1>4 DEF FrameOK
    <2>2. frags'[0] = frags[0] /\ frags'[1] = <<>>
      BY <1>2, <1>3, <2>1
    <2>3. FlattenSeq(frags'[1]) = <<>> /\ frags'[0] = <<>>
      BY <2>2, FlattenEmpty DEF FramesInv
    <2>4. up' = Append(up, Append(FlattenSeq(frags[1]), Piece(f)))
      BY <1>2, <2>1
    <2>5. f.from # 0
      BY <1>4
    <2> QED
      BY <1>1, <2>3, <2>4, <2>5, Zenon
  <1>5. CASE f.from = 0
    <2>1. f.id = 0
      BY <1>1, <1>5 DEF FrameOK
    <2>2. frags'[0] = <<>> /\ frags'[1] = frags[1]
      BY <1>2, <1>3, <2>1
    <2>3. FlattenSeq(frags[0]) = <<>>
      BY FlattenEmpty DEF FramesInv
    <2>4. Append(FlattenSeq(frags[0]), Piece(f)) = <<Piece(f)>>
      BY <2>3
    <2> QED
      BY <1>1, <1>2, <1>5, <2>1, <2>2, <2>4
  <1> QED
    BY <1>1, <1>4, <1>5

\* Steps that touch neither a frame nor a packet.
Idle == UNCHANGED <<sent, txq, ring, frags, up, torn, left.reset>>

\* Beginnings, ends and failures.
Waits == \/ WriteBegins \/ WriteTimesOut \/ WriteEnds
         \/ ReadBegins \/ ReadTimesOut \/ ReadBug \/ ReadEnds \/ ReadNoMem

LEMMA IdleSteps ==
  ASSUME DataOK, Waits
  PROVE  Idle
  <1>1. CASE WriteBegins \/ WriteTimesOut \/ WriteEnds \/ ReadBegins \/ ReadTimesOut \/ ReadBug
             \/ ReadEnds
    BY <1>1 DEF WriteBegins, WriteTimesOut, WriteEnds, ReadBegins, ReadTimesOut, ReadBug, ReadEnds,
                Idle, writer, reader, ghosts
  <1>2. CASE ReadNoMem
    <2>1. left'.reset = left.reset
      BY <1>2 DEF ReadNoMem, DataOK
    <2> QED
      BY <1>2, <2>1 DEF ReadNoMem, Idle, writer, reader, ghosts
  <1> QED
    BY <1>1, <1>2 DEF Waits

LEMMA FramesStep ==
  ASSUME LongInv, DataOK, FramesInv, Next
  PROVE  FramesInv'
  <1> SUFFICES /\ \A i \in DOMAIN ring' : FrameOK(ring[i])'
               /\ frags'[0] = <<>>
    BY DEF FramesInv
  <1>1. CASE \E n \in Lens, a \in Addrs : Xmit(n, a)
    <2>1. PICK n \in Lens, a \in Addrs : Xmit(n, a)
      BY <1>1
    <2>2. ring' = ring /\ frags' = frags /\ sent' = Append(sent, n) /\ sent \in Seq(Lens)
      BY <2>1 DEF Xmit, reader, DataOK
    <2>3. \A k \in DOMAIN sent : k \in DOMAIN sent' /\ sent'[k] = sent[k]
      BY <2>2, AppendKeeps
    <2> QED
      BY <2>2, <2>3 DEF FramesInv, FrameOK
  <1>2. CASE WriteFrame
    <2>1. PICK f \in Frames : ring' = Append(ring, f) /\ FrameOK(f)
      BY <1>2, FrameWritten
    <2>2. sent' = sent /\ frags' = frags /\ ring \in Seq(Frames)
      BY <1>2, FrameWritten DEF DataOK
    <2>3. \A i \in DOMAIN ring' : (i \in DOMAIN ring /\ ring'[i] = ring[i]) \/ ring'[i] = f
      BY <2>1, <2>2, AppendKeeps
    <2> QED
      BY <2>1, <2>2, <2>3 DEF FramesInv, FrameOK
  <1>3. CASE ReadLast \/ ReadFrag
    <2>1. ring' = Tail(ring) /\ ring # <<>> /\ sent' = sent /\ ring \in Seq(Frames)
      BY <1>3, FrameRead DEF DataOK
    <2>2. \A i \in DOMAIN ring' : i + 1 \in DOMAIN ring /\ ring'[i] = ring[i + 1]
      BY <2>1, TailKeeps
    <2>3. frags'[0] = <<>>
      BY <1>3, FragRead, LastRead
    <2> QED
      BY <2>1, <2>2, <2>3 DEF FramesInv, FrameOK
  <1>4. CASE Waits
    BY <1>4, IdleSteps DEF Idle, FramesInv, FrameOK
  <1>5. CASE WriteNothing \/ Purge
    BY <1>5 DEF WriteNothing, Purge, reader, ghosts, FramesInv, FrameOK
  <1>6. CASE BadMessage
    <2>1. ring' = <<>>
      BY <1>6 DEF BadMessage
    <2>2. frags'[0] = <<>>
      <3>1. frags \in [{0, 1} -> Seq(Seq(Pieces))] /\ Head(ring).id \in {0, 1}
        BY <1>6, PieceFacts DEF BadMessage, DataOK
      <3>2. Destroyed(Head(ring))[0] = <<>>
        BY <3>1 DEF Destroyed, FramesInv
      <3> QED
        BY <1>6, <3>2 DEF BadMessage, FramesInv
    <2> QED
      BY <2>1, <2>2
  <1>7. CASE WriterReopens \/ ReaderReopens
    BY <1>7 DEF WriterReopens, ReaderReopens, reader, FramesInv
  <1> QED
    BY <1>1, <1>2, <1>3, <1>4, <1>5, <1>6, <1>7 DEF Next, Write, Read, Waits

LEMMA FramesAlways == Spec => [](LongInv /\ DataOK /\ FramesInv)
  <1>1. Init => FramesInv
    BY DEF Init, FramesInv
  <1>2. LongInv /\ DataOK /\ FramesInv /\ [Next]_vars => FramesInv'
    <2>1. FramesInv /\ UNCHANGED vars => FramesInv'
      BY DEF vars, FramesInv, FrameOK
    <2> QED
      BY <2>1, FramesStep
  <1> QED
    BY <1>1, <1>2, LongAlways, DataAlways, PTL DEF Spec
-----------------------------------------------------------------------------
(* The order of the packets. *)

\* The numbers and the places that the order is about.
LEMMA Numbers ==
  ASSUME LongInv, DataOK, OrderInv
  PROVE  /\ Len(sent) \in Nat /\ DOMAIN sent = 1 .. Len(sent)
         /\ Len(ring) \in Nat /\ DOMAIN ring = 1 .. Len(ring)
         /\ Len(txq) \in Nat /\ DOMAIN txq = 1 .. Len(txq)
         /\ Len(up) \in Nat /\ DOMAIN up = 1 .. Len(up)
         /\ \A i \in DOMAIN ring : ring[i].no \in DOMAIN sent /\ ring[i].more \in BOOLEAN
         /\ \A i \in DOMAIN txq : txq[i].no \in DOMAIN sent
         /\ \A i \in DOMAIN up : LastNo(up[i]) \in DOMAIN sent
  <1>1. /\ Len(sent) \in Nat /\ DOMAIN sent = 1 .. Len(sent)
        /\ Len(ring) \in Nat /\ DOMAIN ring = 1 .. Len(ring)
        /\ Len(txq) \in Nat /\ DOMAIN txq = 1 .. Len(txq)
        /\ Len(up) \in Nat /\ DOMAIN up = 1 .. Len(up)
    BY DEF DataOK
  <1>2. \A i \in DOMAIN ring : ring[i] \in Frames
    BY DEF DataOK
  <1>3. \A i \in DOMAIN ring : ring[i].no \in DOMAIN sent
    BY DEF LongInv, PartOfPacket
  <1>4. \A i \in DOMAIN ring : ring[i].more \in BOOLEAN
    BY <1>2 DEF Frames
  <1>5. \A i \in DOMAIN txq : txq[i].no \in DOMAIN sent
    BY DEF LongInv, KnownPacket
  <1>6. \A i \in DOMAIN up : LastNo(up[i]) \in DOMAIN sent
    BY DEF OrderInv
  <1> QED
    BY <1>1, <1>3, <1>4, <1>5, <1>6

\* A sequence without its first element.
LEMMA TailPlaces ==
  ASSUME NEW S, NEW q \in Seq(S), q # <<>>
  PROVE  /\ Len(Tail(q)) = Len(q) - 1 /\ Len(q) \in Nat /\ Len(q) > 0
         /\ DOMAIN Tail(q) = 1 .. Len(q) - 1
         /\ \A i \in DOMAIN Tail(q) : i + 1 \in DOMAIN q /\ Tail(q)[i] = q[i + 1]
         /\ 1 \in DOMAIN q /\ Head(q) = q[1]
  OBVIOUS

\* A packet more at the end of txq.
LEMMA OrderXmit ==
  ASSUME LongInv, DataOK, OrderInv, NEW n \in Lens, NEW a \in Addrs, Xmit(n, a)
  PROVE  OrderInv'
  <1> DEFINE p == [skb |-> a, no |-> Len(sent) + 1, len |-> n]
  <1>1. /\ sent' = Append(sent, n) /\ txq' = Append(txq, p) /\ sent \in Seq(Lens)
        /\ txq \in Seq([skb : Addrs, no : 1 .. MaxPackets, len : Lens])
        /\ UNCHANGED <<ring, up>>
    BY DEF Xmit, reader, DataOK
  <1>2. p.no = Len(sent) + 1
    OBVIOUS
  <1> HIDE DEF p
  <1>3. DOMAIN sent' = 1 .. Len(sent) + 1
    BY <1>1
  <1>4. /\ DOMAIN txq' = 1 .. Len(txq) + 1 /\ txq'[Len(txq) + 1] = p
        /\ \A i \in 1 .. Len(txq) : txq'[i] = txq[i]
    BY <1>1
  <1>5. TxOrder'
    <2> SUFFICES ASSUME NEW i \in DOMAIN txq', NEW j \in DOMAIN txq', i < j
                 PROVE  txq'[i].no < txq'[j].no
      BY DEF TxOrder
    <2>1. i \in DOMAIN txq /\ txq'[i] = txq[i]
      BY <1>4, Numbers
    <2>2. CASE j = Len(txq) + 1
      BY <1>2, <1>4, <2>1, <2>2, Numbers
    <2>3. CASE j \in DOMAIN txq
      BY <1>4, <2>1, <2>3, Numbers DEF OrderInv, TxOrder
    <2>4. j = Len(txq) + 1 \/ j \in DOMAIN txq
      BY <1>4, Numbers
    <2> QED
      BY <2>2, <2>3, <2>4
  <1>6. \A i \in DOMAIN up, j \in DOMAIN txq' : LastNo(up[i]) < txq'[j].no
    BY <1>2, <1>4, Numbers DEF OrderInv
  <1>7. \A i \in DOMAIN ring, j \in DOMAIN txq' : NextNo(ring[i]) <= txq'[j].no
    <2> TAKE i \in DOMAIN ring, j \in DOMAIN txq'
    <2>1. CASE j = Len(txq) + 1
      <3>1. NextNo(ring[i]) <= Len(sent) + 1
        BY Numbers DEF NextNo
      <3> QED
        BY <1>2, <1>4, <2>1, <3>1
    <2>2. CASE j \in DOMAIN txq
      BY <1>4, <2>2, Numbers DEF OrderInv
    <2>3. j = Len(txq) + 1 \/ j \in DOMAIN txq
      BY <1>4, Numbers
    <2> QED
      BY <2>1, <2>2, <2>3
  <1>8. \A i \in DOMAIN up : LastNo(up[i]) \in DOMAIN sent'
    BY <1>3, Numbers
  <1> QED
    BY <1>1, <1>5, <1>6, <1>7, <1>8
       DEF OrderInv, UpOrder, RingOrder, NextNo, LastNo

\* A frame more at the end of the ring.
LEMMA OrderFrame ==
  ASSUME LongInv, DataOK, OrderInv, WriteFrame
  PROVE  OrderInv'
  <1>1. PICK f \in Frames :
           /\ ring' = Append(ring, f)
           /\ f.no = Head(txq).no
           /\ f.more => txq' = txq
           /\ ~f.more => txq' = Tail(txq)
    BY FrameWritten
  <1>2. txq # <<>> /\ UNCHANGED <<sent, up>>
    BY FrameWritten
  <1>3. /\ 1 \in DOMAIN txq /\ Head(txq) = txq[1] /\ Len(txq) > 0
        /\ DOMAIN Tail(txq) = 1 .. Len(txq) - 1
        /\ \A i \in DOMAIN Tail(txq) : i + 1 \in DOMAIN txq /\ Tail(txq)[i] = txq[i + 1]
    BY <1>2, TailPlaces DEF DataOK
  <1>4. f.no = txq[1].no /\ f.more \in BOOLEAN /\ f.no \in Nat
    BY <1>1, <1>3 DEF Frames
  <1>5. /\ DOMAIN ring' = 1 .. Len(ring) + 1 /\ ring'[Len(ring) + 1] = f
        /\ \A i \in 1 .. Len(ring) : ring'[i] = ring[i]
    BY <1>1 DEF DataOK
  <1>6. /\ \A j \in DOMAIN txq' : \E k \in DOMAIN txq :
                txq'[j] = txq[k] /\ (f.more => k = j) /\ (~f.more => k = j + 1)
        /\ \A j \in DOMAIN txq' : j \in Nat /\ j > 0
    <2>1. CASE f.more
      BY <1>1, <2>1, Numbers
    <2>2. CASE ~f.more
      BY <1>1, <1>3, <2>2, Numbers
    <2> QED
      BY <2>1, <2>2
  <1>7. \A j \in DOMAIN txq' : NextNo(f) <= txq'[j].no
    <2> TAKE j \in DOMAIN txq'
    <2>1. PICK k \in DOMAIN txq : txq'[j] = txq[k] /\ (f.more => k = j) /\ (~f.more => k = j + 1)
      BY <1>6
    <2>2. CASE f.more
      <3>1. k = 1 \/ 1 < k
        BY <1>6, <2>1, <2>2
      <3>2. txq[1].no <= txq[k].no
        BY <1>3, <3>1, Numbers DEF OrderInv, TxOrder
      <3> QED
        BY <1>4, <2>1, <2>2, <3>2 DEF NextNo
    <2>3. CASE ~f.more
      <3>1. 1 < k
        BY <1>6, <2>1, <2>3
      <3>2. txq[1].no < txq[k].no
        BY <1>3, <3>1 DEF OrderInv, TxOrder
      <3> QED
        BY <1>3, <1>4, <2>1, <2>3, <3>2, Numbers DEF NextNo
    <2> QED
      BY <2>2, <2>3
  <1>8. RingOrder'
    <2> SUFFICES ASSUME NEW i \in DOMAIN ring', NEW j \in DOMAIN ring', i < j
                 PROVE  NextNo(ring'[i]) <= ring'[j].no
      BY DEF RingOrder, NextNo
    <2>1. i \in 1 .. Len(ring) /\ ring'[i] = ring[i]
      BY <1>5, Numbers
    <2>2. CASE j = Len(ring) + 1
      BY <1>3, <1>4, <1>5, <2>1, <2>2, Numbers DEF OrderInv
    <2>3. CASE j \in 1 .. Len(ring)
      BY <1>5, <2>1, <2>3, Numbers DEF OrderInv, RingOrder
    <2> QED
      BY <1>5, <2>2, <2>3, Numbers
  <1>9. TxOrder'
    <2> SUFFICES ASSUME NEW i \in DOMAIN txq', NEW j \in DOMAIN txq', i < j
                 PROVE  txq'[i].no < txq'[j].no
      BY DEF TxOrder
    <2>1. PICK k \in DOMAIN txq : txq'[i] = txq[k] /\ (f.more => k = i) /\ (~f.more => k = i + 1)
      BY <1>6
    <2>2. PICK m \in DOMAIN txq : txq'[j] = txq[m] /\ (f.more => m = j) /\ (~f.more => m = j + 1)
      BY <1>6
    <2>3. k < m
      BY <1>4, <1>6, <2>1, <2>2
    <2> QED
      BY <2>1, <2>2, <2>3 DEF OrderInv, TxOrder
  <1>10. \A i \in DOMAIN up, j \in DOMAIN ring' : LastNo(up[i]) < ring'[j].no
    <2> TAKE i \in DOMAIN up, j \in DOMAIN ring'
    <2>1. CASE j = Len(ring) + 1
      BY <1>3, <1>4, <1>5, <2>1 DEF OrderInv
    <2>2. CASE j \in 1 .. Len(ring)
      BY <1>5, <2>2, Numbers DEF OrderInv
    <2> QED
      BY <1>5, <2>1, <2>2, Numbers
  <1>11. \A i \in DOMAIN up, j \in DOMAIN txq' : LastNo(up[i]) < txq'[j].no
    BY <1>6 DEF OrderInv
  <1>12. \A i \in DOMAIN ring', j \in DOMAIN txq' : NextNo(ring'[i]) <= txq'[j].no
    <2> TAKE i \in DOMAIN ring', j \in DOMAIN txq'
    <2>1. CASE i = Len(ring) + 1
      BY <1>5, <1>7, <2>1
    <2>2. CASE i \in 1 .. Len(ring)
      BY <1>5, <1>6, <2>2, Numbers DEF OrderInv
    <2> QED
      BY <1>5, <2>1, <2>2, Numbers
  <1> QED
    BY <1>2, <1>8, <1>9, <1>10, <1>11, <1>12 DEF OrderInv, UpOrder, NextNo, LastNo

\* A packet more is handed up: the one of the frame.
LEMMA UpGrows ==
  ASSUME DataOK, FramesInv, ReadLast
  PROVE  \E w \in Seq(Pieces) : /\ up' = Append(up, w)
                                /\ w # <<>>
                                /\ LastNo(w) = ring[1].no
  <1> DEFINE p == Piece(ring[1])
  <1>1. ring[1].from \in Nat /\ p \in Pieces /\ p.no = ring[1].no
    BY FrameRead DEF Frames, Piece
  <1>2. <<>> \in Seq(Pieces) /\ FlattenSeq(frags[1]) \in Seq(Pieces)
    BY FlattenType DEF DataOK
  <1>3. ring[1].from = 0 \/ ring[1].from > 0
    BY <1>1
  <1> HIDE DEF p
  <1>4. <<p>> = Append(<<>>, p)
    OBVIOUS
  <1>5. PICK u \in Seq(Pieces) : up' = Append(up, Append(u, p))
    BY <1>2, <1>3, <1>4, LastRead DEF p
  <1>6. Append(u, p) \in Seq(Pieces) /\ Append(u, p) # <<>> /\ LastNo(Append(u, p)) = p.no
    BY <1>1 DEF LastNo, Last
  <1> QED
    BY <1>1, <1>5, <1>6

\* The first frame leaves the ring; with the last frame of a packet goes the
\* packet.
LEMMA OrderRead ==
  ASSUME LongInv, DataOK, FramesInv, OrderInv, ReadLast \/ ReadFrag
  PROVE  OrderInv'
  <1> DEFINE f == ring[1]
  <1>1. /\ ring # <<>> /\ ring' = Tail(ring) /\ f \in Frames /\ FrameOK(f) /\ 1 \in DOMAIN ring
        /\ UNCHANGED <<sent, txq>>
    BY FrameRead
  <1>2. /\ \A i \in DOMAIN ring' : i + 1 \in DOMAIN ring /\ ring'[i] = ring[i + 1]
        /\ \A i \in DOMAIN ring' : i \in Nat /\ i > 0
    BY <1>1, TailPlaces DEF DataOK
  <1>3. RingOrder' /\ \A i \in DOMAIN ring', j \in DOMAIN txq : NextNo(ring'[i]) <= txq[j].no
    BY <1>2 DEF OrderInv, RingOrder, NextNo
  <1>4. CASE ReadFrag
    <2>1. up' = up
      BY <1>4, FragRead
    <2> QED
      BY <1>1, <1>2, <1>3, <2>1 DEF OrderInv, UpOrder, TxOrder, NextNo, LastNo
  <1>5. CASE ReadLast
    <2>1. PICK w \in Seq(Pieces) : up' = Append(up, w) /\ w # <<>> /\ LastNo(w) = f.no
      BY <1>5, UpGrows
    <2>2. /\ DOMAIN up' = 1 .. Len(up) + 1 /\ up'[Len(up) + 1] = w
          /\ \A i \in 1 .. Len(up) : up'[i] = up[i]
      BY <2>1 DEF DataOK
    <2>3. f.no \in DOMAIN sent /\ NextNo(f) = f.no + 1 /\ f.no \in Nat
      BY <1>1, <1>5, LastRead, Numbers DEF NextNo
    <2>4. \A j \in DOMAIN ring' : f.no < ring'[j].no
      <3> TAKE j \in DOMAIN ring'
      <3>1. j + 1 \in DOMAIN ring /\ 1 < j + 1 /\ ring'[j] = ring[j + 1]
        BY <1>2
      <3>2. NextNo(f) <= ring[j + 1].no
        BY <1>1, <3>1 DEF OrderInv, RingOrder
      <3>3. ring[j + 1].no \in Nat
        BY <3>1, Numbers
      <3> QED
        BY <2>3, <3>1, <3>2, <3>3
    <2>5. \A j \in DOMAIN txq : f.no < txq[j].no
      BY <1>1, <2>3, Numbers DEF OrderInv
    <2>6. UpOrder'
      <3> SUFFICES ASSUME NEW i \in DOMAIN up', NEW j \in DOMAIN up', i < j
                   PROVE  LastNo(up'[i]) < LastNo(up'[j])
        BY DEF UpOrder, LastNo
      <3>1. i \in 1 .. Len(up) /\ up'[i] = up[i]
        BY <2>2, Numbers
      <3>2. CASE j = Len(up) + 1
        BY <1>1, <2>1, <2>2, <3>1, <3>2, Numbers DEF OrderInv
      <3>3. CASE j \in 1 .. Len(up)
        BY <2>2, <3>1, <3>3, Numbers DEF OrderInv, UpOrder
      <3> QED
        BY <2>2, <3>2, <3>3, Numbers
    <2>7. ASSUME NEW i \in DOMAIN up'
          PROVE  /\ \A j \in DOMAIN ring' : LastNo(up'[i]) < ring'[j].no
                 /\ \A j \in DOMAIN txq : LastNo(up'[i]) < txq[j].no
                 /\ LastNo(up'[i]) \in DOMAIN sent
                 /\ up'[i] # <<>>
      <3>1. CASE i = Len(up) + 1
        BY <2>1, <2>2, <2>3, <2>4, <2>5, <3>1
      <3>2. CASE i \in 1 .. Len(up)
        <4>1. up'[i] = up[i] /\ i \in DOMAIN up
          BY <2>2, <3>2, Numbers
        <4>2. \A j \in DOMAIN ring' : LastNo(up[i]) < ring'[j].no
          BY <1>2, <4>1 DEF OrderInv
        <4> QED
          BY <4>1, <4>2 DEF OrderInv
      <3> QED
        BY <2>2, <3>1, <3>2, Numbers
    <2> QED
      BY <1>1, <1>3, <2>6, <2>7 DEF OrderInv, TxOrder, NextNo, LastNo
  <1> QED
    BY <1>4, <1>5

\* A packet or the frames dropped.
LEMMA OrderOther ==
  ASSUME LongInv, DataOK, OrderInv,
         WriteNothing \/ BadMessage \/ Purge \/ WriterReopens \/ ReaderReopens
  PROVE  OrderInv'
  <1>1. CASE WriteNothing
    <2>1. txq # <<>> /\ txq' = Tail(txq) /\ UNCHANGED <<sent, ring, up>>
      BY <1>1 DEF WriteNothing, reader, ghosts
    <2>2. /\ \A i \in DOMAIN txq' : i + 1 \in DOMAIN txq /\ txq'[i] = txq[i + 1]
          /\ \A i \in DOMAIN txq' : i \in Nat
      BY <2>1, TailPlaces DEF DataOK
    <2> QED
      BY <2>1, <2>2 DEF OrderInv, UpOrder, RingOrder, TxOrder, NextNo, LastNo
  <1>2. CASE Purge
    <2>1. txq' = <<>> /\ UNCHANGED <<sent, ring, up>>
      BY <1>2 DEF Purge, reader
    <2> QED
      BY <2>1 DEF OrderInv, UpOrder, RingOrder, TxOrder, NextNo, LastNo
  <1>3. CASE BadMessage \/ WriterReopens \/ ReaderReopens
    <2>1. ring' = <<>> /\ UNCHANGED <<sent, txq, up>>
      BY <1>3 DEF BadMessage, WriterReopens, ReaderReopens, reader, writer
    <2> QED
      BY <2>1 DEF OrderInv, UpOrder, RingOrder, TxOrder, NextNo, LastNo
  <1> QED
    BY <1>1, <1>2, <1>3

LEMMA OrderAlways == Spec => []OrderInv
  <1> DEFINE Known == LongInv /\ DataOK /\ FramesInv
  <1>1. Init => OrderInv
    BY DEF Init, OrderInv, UpOrder, RingOrder, TxOrder
  <1>2. Known /\ OrderInv /\ [Next]_vars => OrderInv'
    <2> SUFFICES ASSUME Known, OrderInv, [Next]_vars PROVE OrderInv'
      OBVIOUS
    <2>1. CASE UNCHANGED vars
      BY <2>1 DEF vars, OrderInv, UpOrder, RingOrder, TxOrder, NextNo, LastNo
    <2>2. CASE Waits
      <3>1. UNCHANGED <<sent, txq, ring, up>>
        BY <2>2, IdleSteps DEF Idle
      <3> QED
        BY <3>1 DEF OrderInv, UpOrder, RingOrder, TxOrder, NextNo, LastNo
    <2>3. CASE Next
      BY <2>2, <2>3, OrderXmit, OrderFrame, OrderRead, OrderOther DEF Next, Write, Read, Waits
    <2> QED
      BY <2>1, <2>3
  <1> QED
    BY <1>1, <1>2, FramesAlways, PTL DEF Spec
-----------------------------------------------------------------------------
(* Numbers without resets. *)

\* Unless a packet was torn, fi never takes a packet for one that is sent
\* already.
LEMMA NothingNever ==
  ASSUME LongInv, Halfway, ~torn
  PROVE  /\ ~WriteNothing
         /\ txq # <<>> => Sent = fi.offset
  <1> SUFFICES ASSUME txq # <<>>
               PROVE  Sent = fi.offset /\ ~(Remain <= 0)
    BY DEF WriteNothing
  <1>1. Head(txq) \in Packet /\ fi.offset \in Nat
    BY TailKeeps DEF LongInv, FmtTypes
  <1>2. Head(txq).len \in Nat /\ Head(txq).len > 0
    BY <1>1 DEF Packet
  <1>3. CASE fi.offset = 0
    BY <1>2, <1>3 DEF Sent, Remain
  <1>4. CASE fi.offset > 0
    BY <1>1, <1>2, <1>4 DEF Halfway, Sent, Remain
  <1> QED
    BY <1>1, <1>3, <1>4

\* A reset is counted.
LEMMA ResetCounts ==
  ASSUME DataOK, Budget, BadMessage \/ Purge \/ WriterReopens \/ ReaderReopens
  PROVE  Budget' /\ Reset'
  <1>1. left \in [nomem : Nat, reset : Nat] /\ left' = [left EXCEPT !.reset = left.reset - 1]
    BY DEF BadMessage, Purge, WriterReopens, ReaderReopens, Resets, DataOK
  <1>2. left'.reset = left.reset - 1 /\ left.reset \in Nat /\ MaxResets \in Nat
    BY <1>1, FmtAssumption
  <1> QED
    BY <1>2 DEF Budget, Reset

LEMMA OthersKeepBudget ==
  ASSUME DataOK, Next, ~(BadMessage \/ Purge \/ WriterReopens \/ ReaderReopens)
  PROVE  left'.reset = left.reset /\ torn' = torn
  <1>1. CASE \E n \in Lens, a \in Addrs : Xmit(n, a)
    BY <1>1 DEF Xmit
  <1>2. CASE Waits
    BY <1>2, IdleSteps DEF Idle
  <1>3. CASE WriteFrame \/ WriteNothing \/ ReadLast \/ ReadFrag
    BY <1>3 DEF WriteFrame, WriteNothing, ReadLast, ReadFrag, ghosts
  <1> QED
    BY <1>1, <1>2, <1>3 DEF Next, Write, Read, Waits

LEMMA NumberedXmit ==
  ASSUME LongInv, DataOK, OrderInv, Numbered, NEW n \in Lens, NEW a \in Addrs, Xmit(n, a)
  PROVE  Numbered'
  <1> DEFINE p == [skb |-> a, no |-> Len(sent) + 1, len |-> n]
             k == NumberAt(Len(ring) + 1)
  <1>1. /\ sent' = Append(sent, n) /\ txq' = Append(txq, p) /\ sent \in Seq(Lens)
        /\ txq \in Seq([skb : Addrs, no : 1 .. MaxPackets, len : Lens])
        /\ UNCHANGED <<ring, up>>
    BY DEF Xmit, reader, DataOK
  <1>2. p.no = Len(sent) + 1
    OBVIOUS
  <1> HIDE DEF p
  <1>3. Len(sent') = Len(sent) + 1
    BY <1>1
  <1>4. /\ Len(txq') = Len(txq) + 1 /\ txq'[Len(txq) + 1] = p
        /\ DOMAIN txq' = 1 .. Len(txq) + 1
        /\ \A i \in 1 .. Len(txq) : txq'[i] = txq[i]
    BY <1>1
  <1>5. k \in Int
    <2>1. Len(sent) = k + Len(txq) - 1
      BY DEF Numbered
    <2>2. CASE Len(ring) = 0
      BY <2>2, Numbers DEF NumberAt
    <2>3. CASE Len(ring) > 0
      <3>1. Len(ring) \in DOMAIN ring /\ Len(ring) + 1 - 1 = Len(ring) /\ Len(ring) + 1 # 1
        BY <2>3, Numbers
      <3>2. ring[Len(ring)].no \in Nat /\ k = NextNo(ring[Len(ring)])
        BY <3>1, Numbers DEF NumberAt
      <3> QED
        BY <3>2 DEF NextNo
    <2> QED
      BY <2>2, <2>3, Numbers
  <1>6. NumberAt(Len(ring) + 1)' = k /\ \A i \in DOMAIN ring : NumberAt(i)' = NumberAt(i)
    BY <1>1 DEF NumberAt, NextNo
  <1> HIDE DEF k
  <1>7. Len(sent) = k + Len(txq) - 1 /\ \A i \in DOMAIN txq : txq[i].no = k + i - 1
    BY DEF Numbered, k
  <1>8. Len(sent') = k + Len(txq') - 1
    BY <1>3, <1>4, <1>5, <1>7, Numbers
  <1>9. \A i \in DOMAIN txq' : txq'[i].no = k + i - 1
    <2> TAKE i \in DOMAIN txq'
    <2>1. CASE i = Len(txq) + 1
      BY <1>2, <1>4, <1>5, <1>7, <2>1, Numbers
    <2>2. CASE i \in DOMAIN txq
      BY <1>4, <1>7, <2>2, Numbers
    <2> QED
      BY <1>4, <2>1, <2>2, Numbers
  <1> QED
    BY <1>1, <1>6, <1>8, <1>9 DEF Numbered, LastNo

LEMMA NumberedFrame ==
  ASSUME LongInv, DataOK, OrderInv, Numbered, WriteFrame
  PROVE  Numbered'
  <1> DEFINE L == Len(ring)
             k == NumberAt(L + 1)
  <1>1. PICK f \in Frames :
           /\ ring' = Append(ring, f)
           /\ f.no = Head(txq).no
           /\ f.more => txq' = txq
           /\ ~f.more => txq' = Tail(txq)
    BY FrameWritten
  <1>2. txq # <<>> /\ UNCHANGED <<sent, up>>
    BY FrameWritten
  <1>3. /\ 1 \in DOMAIN txq /\ Head(txq) = txq[1] /\ Len(txq) > 0
        /\ Len(Tail(txq)) = Len(txq) - 1
        /\ DOMAIN Tail(txq) = 1 .. Len(txq) - 1
        /\ \A i \in DOMAIN Tail(txq) : i + 1 \in DOMAIN txq /\ Tail(txq)[i] = txq[i + 1]
    BY <1>2, TailPlaces DEF DataOK
  <1>4. f.no = txq[1].no /\ f.more \in BOOLEAN /\ f.no \in Nat /\ txq[1].no = k + 1 - 1
    BY <1>1, <1>3 DEF Frames, Numbered
  <1>5. L \in Nat /\ Len(ring') = L + 1 /\ ring'[L + 1] = f
        /\ DOMAIN ring' = 1 .. L + 1
        /\ \A i \in 1 .. L : ring'[i] = ring[i]
    BY <1>1 DEF DataOK
  <1>6. \A i \in 1 .. L + 1 : NumberAt(i)' = NumberAt(i)
    <2> TAKE i \in 1 .. L + 1
    <2>1. CASE i = 1
      BY <1>2, <2>1 DEF NumberAt
    <2>2. CASE i # 1
      <3>1. i - 1 \in 1 .. L
        BY <1>5, <2>2
      <3>2. ring'[i - 1] = ring[i - 1]
        BY <1>5, <3>1
      <3> QED
        BY <2>2, <3>2 DEF NumberAt, NextNo
    <2> QED
      BY <2>1, <2>2
  <1>7. NumberAt(Len(ring) + 1)' = NextNo(f)
    <2>1. Len(ring') + 1 # 1 /\ Len(ring') + 1 - 1 = L + 1
      BY <1>5
    <2>2. ring'[Len(ring') + 1 - 1] = f
      BY <1>5, <2>1
    <2> QED
      BY <2>1, <2>2 DEF NumberAt, NextNo
  <1>8. k = f.no
    <2>1. k \in Int
      <3>1. CASE L = 0
        BY <3>1, Numbers DEF NumberAt
      <3>2. CASE L > 0
        <4>1. L \in DOMAIN ring /\ L + 1 - 1 = L /\ L + 1 # 1
          BY <1>5, <3>2, Numbers
        <4>2. ring[L].no \in Nat /\ k = NextNo(ring[L])
          BY <4>1, Numbers DEF NumberAt
        <4> QED
          BY <4>2 DEF NextNo
      <3> QED
        BY <1>5, <3>1, <3>2
    <2> QED
      BY <1>4, <2>1
  <1>9. \A i \in DOMAIN ring' : ring'[i].no = NumberAt(i)'
    <2> TAKE i \in DOMAIN ring'
    <2>1. NumberAt(i)' = NumberAt(i)
      BY <1>5, <1>6
    <2>2. CASE i = L + 1
      BY <1>5, <1>8, <2>1, <2>2
    <2>3. CASE i \in 1 .. L
      BY <1>5, <2>1, <2>3, Numbers DEF Numbered
    <2> QED
      BY <1>5, <2>2, <2>3
  <1> HIDE DEF k
  <1>10. Len(sent) = f.no + Len(txq) - 1 /\ \A i \in DOMAIN txq : txq[i].no = f.no + i - 1
    BY <1>8 DEF Numbered, k
  <1>11. /\ Len(sent) = NextNo(f) + Len(txq') - 1
         /\ \A i \in DOMAIN txq' : txq'[i].no = NextNo(f) + i - 1
    <2>1. CASE f.more
      BY <1>1, <1>10, <2>1 DEF NextNo
    <2>2. CASE ~f.more
      <3>1. Len(txq') = Len(txq) - 1 /\ NextNo(f) = f.no + 1
        BY <1>1, <1>3, <2>2 DEF NextNo
      <3>2. \A i \in DOMAIN txq' : i \in Nat /\ txq'[i].no = f.no + (i + 1) - 1
        <4> TAKE i \in DOMAIN txq'
        <4>1. i \in DOMAIN Tail(txq) /\ txq'[i] = Tail(txq)[i]
          BY <1>1, <2>2
        <4>2. i + 1 \in DOMAIN txq /\ txq'[i] = txq[i + 1]
          BY <1>3, <4>1
        <4>3. i \in Nat
          BY <1>3, <4>1, Numbers
        <4> QED
          BY <1>10, <4>2, <4>3
      <3> QED
        BY <1>4, <1>10, <3>1, <3>2, Numbers
    <2> QED
      BY <2>1, <2>2
  <1> QED
    BY <1>2, <1>7, <1>9, <1>11 DEF Numbered, LastNo

LEMMA NumberedRead ==
  ASSUME LongInv, DataOK, FramesInv, OrderInv, Numbered, ReadLast \/ ReadFrag
  PROVE  Numbered'
  <1> DEFINE f == ring[1]
             L == Len(ring)
  <1>1. /\ ring # <<>> /\ ring' = Tail(ring) /\ f \in Frames /\ 1 \in DOMAIN ring
        /\ UNCHANGED <<sent, txq>>
    BY FrameRead
  <1>2. /\ L \in Nat /\ L > 0 /\ Len(ring') = L - 1
        /\ \A i \in DOMAIN ring' : i + 1 \in DOMAIN ring /\ ring'[i] = ring[i + 1]
        /\ DOMAIN ring' = 1 .. L - 1
    BY <1>1, TailPlaces DEF DataOK
  <1>3. f.no = Len(up) + 1 /\ f.no \in Nat
    BY <1>1, Numbers DEF Numbered, NumberAt
  <1>4. /\ Len(up') + 1 = NextNo(f)
        /\ \A i \in DOMAIN up' : LastNo(up'[i]) = i
    <2>1. CASE ReadFrag
      <3>1. up' = up /\ f.more
        BY <2>1, FragRead
      <3> QED
        BY <1>3, <3>1 DEF NextNo, Numbered
    <2>2. CASE ReadLast
      <3>1. PICK w \in Seq(Pieces) : up' = Append(up, w) /\ LastNo(w) = f.no
        BY <2>2, UpGrows
      <3>2. /\ Len(up') = Len(up) + 1 /\ DOMAIN up' = 1 .. Len(up) + 1
            /\ up'[Len(up) + 1] = w
            /\ \A i \in 1 .. Len(up) : up'[i] = up[i]
        BY <3>1 DEF DataOK
      <3>3. NextNo(f) = f.no + 1
        BY <2>2, LastRead DEF NextNo
      <3>4. ASSUME NEW i \in DOMAIN up' PROVE LastNo(up'[i]) = i
        <4>1. CASE i = Len(up) + 1
          BY <1>3, <3>1, <3>2, <4>1
        <4>2. CASE i \in DOMAIN up
          BY <3>2, <4>2, Numbers DEF Numbered
        <4> QED
          BY <3>2, <4>1, <4>2, Numbers
      <3> QED
        BY <1>3, <3>2, <3>3, <3>4, Numbers
    <2> QED
      BY <2>1, <2>2
  <1>5. ASSUME NEW i \in 1 .. L PROVE NumberAt(i)' = NumberAt(i + 1)
    <2>1. CASE i = 1
      BY <1>4, <2>1 DEF NumberAt
    <2>2. CASE i # 1
      <3>1. i - 1 \in DOMAIN ring' /\ i + 1 # 1 /\ i - 1 + 1 = i /\ i + 1 - 1 = i
        BY <1>2, <2>2
      <3>2. ring'[i - 1] = ring[i]
        BY <1>2, <3>1
      <3> QED
        BY <2>2, <3>1, <3>2 DEF NumberAt, NextNo
    <2> QED
      BY <2>1, <2>2
  <1>6. NumberAt(Len(ring) + 1)' = NumberAt(L + 1)
    <2>1. Len(ring') + 1 = L /\ L \in 1 .. L
      BY <1>2
    <2>2. \A i \in 1 .. L : NumberAt(i)' = NumberAt(i + 1)
      BY <1>5
    <2>3. NumberAt(Len(ring) + 1)' = IF L = 1 THEN Len(up') + 1 ELSE NextNo(ring'[L - 1])
      BY <2>1 DEF NumberAt, NextNo
    <2> QED
      BY <2>1, <2>2, <2>3 DEF NumberAt, NextNo
  <1>7. \A i \in DOMAIN ring' : ring'[i].no = NumberAt(i)'
    <2> TAKE i \in DOMAIN ring'
    <2>1. i \in 1 .. L /\ i + 1 \in DOMAIN ring /\ ring'[i] = ring[i + 1]
      BY <1>2
    <2>2. ring[i + 1].no = NumberAt(i + 1)
      BY <2>1 DEF Numbered
    <2> QED
      BY <1>5, <2>1, <2>2
  <1> QED
    BY <1>1, <1>4, <1>6, <1>7 DEF Numbered, LastNo

LEMMA CountAlways == Spec => []CountInv
  <1> DEFINE Known == LongInv /\ DataOK /\ FramesInv /\ OrderInv /\ AnnInv
  <1>1. Init => CountInv
    <2> SUFFICES ASSUME Init PROVE Budget /\ Numbered
      BY DEF CountInv
    <2>1. Budget
      BY FmtAssumption DEF Init, Budget
    <2>2. NumberAt(Len(ring) + 1) = 1
      BY DEF Init, NumberAt
    <2> QED
      BY <2>1, <2>2 DEF Init, Numbered
  <1>2. Known /\ CountInv /\ [Next]_vars => CountInv'
    <2> SUFFICES ASSUME Known, CountInv, [Next]_vars PROVE CountInv'
      OBVIOUS
    <2>1. CASE UNCHANGED vars
      BY <2>1 DEF vars, CountInv, Budget, Reset, Numbered, NumberAt, NextNo, LastNo
    <2>2. CASE BadMessage \/ Purge \/ WriterReopens \/ ReaderReopens
      BY <2>2, ResetCounts DEF CountInv
    <2>3. CASE Next /\ ~(BadMessage \/ Purge \/ WriterReopens \/ ReaderReopens)
      <3>1. left'.reset = left.reset /\ torn' = torn
        BY <2>3, OthersKeepBudget
      <3> SUFFICES ASSUME ~torn, ~Reset PROVE Numbered'
        BY <3>1 DEF CountInv, Budget, Reset
      <3>2. Numbered
        BY DEF CountInv
      <3>3. CASE Waits
        <4>1. UNCHANGED <<sent, txq, ring, up>>
          BY <3>3, IdleSteps DEF Idle
        <4> QED
          BY <3>2, <4>1 DEF Numbered, NumberAt, NextNo, LastNo
      <3>4. ~WriteNothing
        BY NothingNever DEF AnnInv
      <3> QED
        BY <2>3, <3>2, <3>3, <3>4, NumberedXmit, NumberedFrame, NumberedRead
           DEF Next, Write, Read, Waits
    <2> QED
      BY <2>1, <2>2, <2>3
  <1> QED
    BY <1>1, <1>2, FramesAlways, OrderAlways, AnnAlways, PTL DEF Spec
-----------------------------------------------------------------------------
(* The stream. *)

LEMMA KeptType ==
  ASSUME DataOK
  PROVE  /\ Kept \in Seq(Pieces)
         /\ \A i \in DOMAIN Kept : Kept[i].no \in Nat /\ Kept[i].from \in Nat /\ Kept[i].to \in Nat
         /\ Len(ring) \in Nat /\ DOMAIN ring = 1 .. Len(ring)
         /\ Len(up) \in Nat /\ DOMAIN up = 1 .. Len(up)
  <1>1. frags[1] \in Seq(Seq(Pieces))
    BY DEF DataOK
  <1>2. Kept \in Seq(Pieces)
    BY <1>1, FlattenType DEF Kept
  <1> HIDE DEF Kept
  <1>3. \A i \in DOMAIN Kept : Kept[i] \in Pieces
    BY <1>2
  <1>4. \A p \in Pieces : p.no \in Nat /\ p.from \in Nat /\ p.to \in Nat
    BY FmtAssumption DEF Pieces
  <1> QED
    BY <1>2, <1>3, <1>4 DEF DataOK

LEMMA StreamXmit ==
  ASSUME LongInv, DataOK, Stream, NEW n \in Lens, NEW a \in Addrs, Xmit(n, a)
  PROVE  Stream'
  <1> DEFINE p == [skb |-> a, no |-> Len(sent) + 1, len |-> n]
  <1>1. /\ sent' = Append(sent, n) /\ txq' = Append(txq, p) /\ sent \in Seq(Lens)
        /\ txq \in Seq([skb : Addrs, no : 1 .. MaxPackets, len : Lens])
        /\ UNCHANGED <<ring, up, frags, fi>>
    BY DEF Xmit, reader, DataOK
  <1> HIDE DEF p
  <1>2. \A i \in DOMAIN sent : i \in DOMAIN sent' /\ sent'[i] = sent[i]
    BY <1>1, AppendKeeps
  <1>3. txq # <<>> => txq' # <<>> /\ Head(txq') = Head(txq)
    BY <1>1
  <1>4. Kept' = Kept
    BY <1>1 DEF Kept
  <1>5. PosAt(Len(ring) + 1)' = PosAt(Len(ring) + 1) /\ \A i \in DOMAIN ring : PosAt(i)' = PosAt(i)
    BY <1>1, <1>4 DEF PosAt, ReadPos, After, Between
  <1>6. WriterAt(PosAt(Len(ring) + 1))'
    BY <1>1, <1>3, <1>5 DEF Stream, WriterAt
  <1>7. \A i \in DOMAIN up' : Whole(up[i])'
    BY <1>1, <1>2 DEF Stream, Whole, EndToEnd
  <1>8. EndToEnd(Kept)'
    BY <1>4 DEF Stream, EndToEnd
  <1>9. \A i \in DOMAIN ring' : Continues(PosAt(i), ring[i])'
    BY <1>1, <1>5 DEF Stream, Continues
  <1> QED
    BY <1>6, <1>7, <1>8, <1>9 DEF Stream

LEMMA StreamFrame ==
  ASSUME LongInv, DataOK, Halfway, ~torn, Stream, WriteFrame
  PROVE  Stream'
  <1> DEFINE L == Len(ring)
             pos == PosAt(L + 1)
  <1>1. PICK f \in Frames :
           /\ ring' = Append(ring, f)
           /\ f.no = Head(txq).no
           /\ f.from = Sent
           /\ f.more => txq' = txq /\ fi'.skb = Head(txq).skb /\ fi'.offset = f.to
           /\ ~f.more => txq' = Tail(txq) /\ fi'.offset = 0
    BY FrameWritten
  <1>2. txq # <<>> /\ UNCHANGED <<sent, frags, up>>
    BY FrameWritten
  <1>3. Continues(pos, f)
    <2>1. Sent = fi.offset
      BY <1>2, NothingNever
    <2>2. WriterAt(pos)
      BY DEF Stream
    <2> HIDE DEF pos
    <2> QED
      BY <1>1, <2>1, <2>2 DEF WriterAt, Continues
  <1>4. L \in Nat /\ Len(ring') = L + 1 /\ ring'[L + 1] = f
        /\ DOMAIN ring' = 1 .. L + 1
        /\ \A i \in 1 .. L : ring'[i] = ring[i]
    BY <1>1 DEF DataOK
  <1>5. Kept' = Kept /\ ReadPos' = ReadPos
    BY <1>2 DEF Kept, ReadPos, Between
  <1>6. \A i \in 1 .. L + 1 : PosAt(i)' = PosAt(i)
    <2> TAKE i \in 1 .. L + 1
    <2>1. CASE i = 1
      BY <1>5, <2>1 DEF PosAt
    <2>2. CASE i # 1
      <3>1. i - 1 \in 1 .. L
        BY <1>4, <2>2
      <3>2. ring'[i - 1] = ring[i - 1]
        BY <1>4, <3>1
      <3> QED
        BY <2>2, <3>2 DEF PosAt, After, Between
    <2> QED
      BY <2>1, <2>2
  <1>7. PosAt(Len(ring) + 1)' = After(f)
    <2>1. Len(ring') + 1 # 1 /\ Len(ring') + 1 - 1 = L + 1
      BY <1>4
    <2>2. ring'[Len(ring') + 1 - 1] = f
      BY <1>4, <2>1
    <2> QED
      BY <2>1, <2>2 DEF PosAt, After, Between
  <1>8. WriterAt(PosAt(Len(ring) + 1))'
    <2>1. CASE f.more
      <3>1. After(f).off = f.to /\ After(f).no = f.no
        BY <2>1 DEF After
      <3> QED
        BY <1>1, <1>2, <1>7, <2>1, <3>1 DEF WriterAt
    <2>2. CASE ~f.more
      <3>1. After(f).off = 0
        BY <2>2 DEF After, Between
      <3> QED
        BY <1>1, <1>7, <2>2, <3>1 DEF WriterAt
    <2> QED
      BY <2>1, <2>2
  <1>9. \A i \in DOMAIN ring' : Continues(PosAt(i), ring[i])'
    <2> TAKE i \in DOMAIN ring'
    <2>1. PosAt(i)' = PosAt(i)
      BY <1>4, <1>6
    <2>2. Continues(PosAt(i), ring'[i])
      <3>1. CASE i = L + 1
        BY <1>3, <1>4, <3>1
      <3>2. CASE i \in 1 .. L
        BY <1>4, <3>2, KeptType DEF Stream
      <3> QED
        BY <1>4, <3>1, <3>2
    <2> QED
      BY <2>1, <2>2 DEF Continues
  <1>10. EndToEnd(Kept)' /\ \A i \in DOMAIN up' : Whole(up[i])'
    BY <1>2, <1>5 DEF Stream, EndToEnd, Whole
  <1> QED
    BY <1>8, <1>9, <1>10 DEF Stream

\* The frame at the head of the ring goes on where the pieces end.
LEMMA PieceJoins ==
  ASSUME DataOK, FramesInv, Stream, ReadLast \/ ReadFrag, NEW u, u = Append(Kept, Piece(ring[1]))
  PROVE  /\ u \in Seq(Pieces) /\ u # <<>> /\ u[Len(u)] = Piece(ring[1])
         /\ EndToEnd(u) /\ u[1].no = ring[1].no
         /\ ring[1].from > 0 <=> Kept # <<>>
  <1> DEFINE f == ring[1]
             p == Piece(f)
             K == Len(Kept)
  <1>1. /\ f \in Frames /\ FrameOK(f) /\ p \in Pieces /\ 1 \in DOMAIN ring
        /\ f.from \in Nat /\ f.to \in Nat
    BY FrameRead DEF Frames
  <1>2. p.no = f.no /\ p.from = f.from /\ p.to = f.to
    BY DEF Piece
  <1>3. f.to > 0
    BY <1>1 DEF FrameOK
  <1>4. Continues(ReadPos, f)
    BY <1>1 DEF Stream, PosAt
  <1> HIDE DEF p
  <1>5. /\ K \in Nat /\ DOMAIN Kept = 1 .. K /\ (Kept = <<>> <=> K = 0)
        /\ u \in Seq(Pieces) /\ u # <<>> /\ DOMAIN u = 1 .. K + 1
        /\ Len(u) = K + 1 /\ u[K + 1] = p /\ \A j \in 1 .. K : u[j] = Kept[j]
    BY <1>1, KeptType DEF p
  <1>6. CASE K = 0
    <2>1. f.from = 0
      BY <1>4, <1>5, <1>6 DEF Continues, ReadPos, Between
    <2>2. EndToEnd(u) /\ u[1].no = f.no
      BY <1>2, <1>3, <1>5, <1>6, <2>1 DEF EndToEnd
    <2> QED
      BY <1>5, <1>6, <2>1, <2>2 DEF p
  <1>7. CASE K > 0
    <2>1. K \in DOMAIN Kept /\ 1 \in DOMAIN Kept /\ Kept # <<>>
      BY <1>5, <1>7
    <2>2. Kept[K].to > 0 /\ Kept[K].no = Kept[1].no
      BY <2>1 DEF Stream, EndToEnd
    <2>3. f.from = Kept[K].to /\ f.no = Kept[K].no
      BY <1>4, <2>1, <2>2 DEF Continues, ReadPos
    <2>4. u[1] = Kept[1]
      BY <1>5, <2>1
    <2>5. ASSUME NEW j \in DOMAIN u
          PROVE  /\ u[j].no = u[1].no
                 /\ u[j].from = IF j = 1 THEN 0 ELSE u[j - 1].to
                 /\ u[j].to > 0
      <3>1. CASE j = K + 1
        <4>1. j # 1 /\ j - 1 = K /\ K \in 1 .. K
          BY <1>5, <1>7, <3>1
        <4>2. u[j - 1] = Kept[K] /\ u[j] = p
          BY <1>5, <3>1, <4>1
        <4> QED
          BY <1>2, <1>3, <2>2, <2>3, <2>4, <4>1, <4>2
      <3>2. CASE j \in 1 .. K
        <4>1. u[j] = Kept[j] /\ j \in DOMAIN Kept /\ (j # 1 => u[j - 1] = Kept[j - 1])
          BY <1>5, <3>2
        <4> QED
          BY <2>4, <4>1 DEF Stream, EndToEnd
      <3> QED
        BY <1>5, <3>1, <3>2
    <2>6. EndToEnd(u)
      BY <2>5 DEF EndToEnd
    <2>7. u[1].no = f.no /\ f.from > 0
      BY <2>2, <2>3, <2>4
    <2> QED
      BY <1>5, <2>1, <2>6, <2>7 DEF p
  <1> QED
    BY <1>5, <1>6, <1>7

\* The places of the ring move up by one.
LEMMA StreamMoves ==
  ASSUME DataOK, FramesInv, Stream, ReadLast \/ ReadFrag, ReadPos' = After(ring[1])
  PROVE  /\ \A i \in DOMAIN ring' : Continues(PosAt(i), ring[i])'
         /\ WriterAt(PosAt(Len(ring) + 1))'
  <1> DEFINE L == Len(ring)
  <1>1. ring # <<>> /\ ring' = Tail(ring) /\ UNCHANGED <<txq, fi>>
    BY FrameRead
  <1>2. /\ L \in Nat /\ L > 0 /\ Len(ring') = L - 1
        /\ \A i \in DOMAIN ring' : i + 1 \in DOMAIN ring /\ ring'[i] = ring[i + 1]
        /\ DOMAIN ring' = 1 .. L - 1
    BY <1>1, TailPlaces DEF DataOK
  <1>3. ASSUME NEW i \in 1 .. L PROVE PosAt(i)' = PosAt(i + 1)
    <2>1. CASE i = 1
      BY <2>1 DEF PosAt
    <2>2. CASE i # 1
      <3>1. i - 1 \in DOMAIN ring' /\ i + 1 # 1 /\ i - 1 + 1 = i /\ i + 1 - 1 = i
        BY <1>2, <2>2
      <3>2. ring'[i - 1] = ring[i]
        BY <1>2, <3>1
      <3> QED
        BY <2>2, <3>1, <3>2 DEF PosAt, After, Between
    <2> QED
      BY <2>1, <2>2
  <1>4. PosAt(Len(ring) + 1)' = PosAt(L + 1)
    <2>1. Len(ring') + 1 = L /\ L \in 1 .. L
      BY <1>2
    <2>2. \A i \in 1 .. L : PosAt(i)' = PosAt(i + 1)
      BY <1>3
    <2>3. PosAt(Len(ring) + 1)' = IF L = 1 THEN ReadPos' ELSE After(ring'[L - 1])
      BY <2>1 DEF PosAt, After, Between
    <2>4. ASSUME NEW i \in 1 .. L
          PROVE  PosAt(i)' = IF i = 1 THEN ReadPos' ELSE After(ring'[i - 1])
      BY DEF PosAt, After, Between
    <2> QED
      BY <2>1, <2>2, <2>3, <2>4
  <1>5. WriterAt(PosAt(Len(ring) + 1))'
    <2>1. WriterAt(PosAt(L + 1))
      BY DEF Stream
    <2> QED
      BY <1>1, <1>4, <2>1 DEF WriterAt
  <1>6. \A i \in DOMAIN ring' : Continues(PosAt(i), ring[i])'
    <2> TAKE i \in DOMAIN ring'
    <2>1. i \in 1 .. L /\ i + 1 \in DOMAIN ring /\ ring'[i] = ring[i + 1]
      BY <1>2
    <2>2. Continues(PosAt(i + 1), ring[i + 1])
      BY <2>1 DEF Stream
    <2>3. PosAt(i)' = PosAt(i + 1)
      BY <1>3, <2>1
    <2> QED
      BY <2>1, <2>2, <2>3 DEF Continues
  <1> QED
    BY <1>5, <1>6

LEMMA StreamFrag ==
  ASSUME DataOK, FramesInv, Stream, ReadFrag
  PROVE  Stream'
  <1> DEFINE f == ring[1]
  <1>1. Kept' = Append(Kept, Piece(f)) /\ f.more /\ up' = up /\ sent' = sent
    BY FragRead, FrameRead DEF Kept
  <1>2. /\ EndToEnd(Append(Kept, Piece(f)))
        /\ LET u == Append(Kept, Piece(f)) IN u # <<>> /\ u[Len(u)] = Piece(f)
    BY PieceJoins
  <1>3. ReadPos' = After(f)
    <2>1. Kept' # <<>> /\ Kept'[Len(Kept')] = Piece(f)
      BY <1>1, <1>2
    <2>2. Piece(f).no = f.no /\ Piece(f).to = f.to
      BY DEF Piece
    <2> QED
      BY <1>1, <2>1, <2>2 DEF ReadPos, After
  <1>4. EndToEnd(Kept)'
    BY <1>1, <1>2 DEF EndToEnd
  <1>5. \A i \in DOMAIN up' : Whole(up[i])'
    BY <1>1 DEF Stream, Whole, EndToEnd
  <1> QED
    BY <1>3, <1>4, <1>5, StreamMoves DEF Stream

LEMMA StreamLast ==
  ASSUME DataOK, FramesInv, Stream, ReadLast
  PROVE  Stream'
  <1> DEFINE f == ring[1]
             u == Append(Kept, Piece(f))
  <1>1. /\ u \in Seq(Pieces) /\ u # <<>> /\ u[Len(u)] = Piece(f)
        /\ EndToEnd(u) /\ u[1].no = f.no
        /\ f.from > 0 <=> Kept # <<>>
    BY PieceJoins
  <1>2. ~f.more /\ FrameOK(f) /\ f.from \in Nat /\ sent' = sent
    BY LastRead, FrameRead DEF Frames
  <1>3. up' = Append(up, u) /\ Kept' = <<>>
    <2>1. CASE f.from > 0
      BY <2>1, LastRead DEF Kept
    <2>2. CASE f.from = 0
      <3>1. Kept = <<>>
        BY <1>1, <2>2
      <3>2. u = <<Piece(f)>>
        BY <3>1
      <3> QED
        BY <2>2, <3>1, <3>2, LastRead DEF Kept
    <2> QED
      BY <1>2, <2>1, <2>2
  <1>4. ReadPos' = After(f)
    BY <1>2, <1>3 DEF ReadPos, After, Between
  <1>5. EndToEnd(Kept)'
    BY <1>3 DEF EndToEnd
  <1>6. Whole(u)
    <2>1. u[Len(u)].to = sent[f.no] /\ f.no \in DOMAIN sent
      <3>1. Piece(f).to = f.to
        BY DEF Piece
      <3> QED
        BY <1>1, <1>2, <3>1 DEF FrameOK
    <2> QED
      BY <1>1, <2>1 DEF Whole
  <1> HIDE DEF u
  <1>7. \A i \in DOMAIN up' : Whole(up'[i])
    <2>1. /\ DOMAIN up' = 1 .. Len(up) + 1 /\ up'[Len(up) + 1] = u
          /\ \A i \in 1 .. Len(up) : up'[i] = up[i]
      BY <1>1, <1>3 DEF DataOK
    <2>2. \A i \in DOMAIN up' : i = Len(up) + 1 \/ i \in DOMAIN up
      BY <2>1, KeptType
    <2> QED
      BY <1>6, <2>1, <2>2, KeptType DEF Stream
  <1>8. \A i \in DOMAIN up' : Whole(up[i])'
    BY <1>2, <1>7 DEF Whole, EndToEnd
  <1> QED
    BY <1>4, <1>5, <1>8, StreamMoves DEF Stream

\* With nobody half-way, the stream begins anew.
LEMMA StreamRestarts ==
  ASSUME DataOK, Stream, ring' = <<>>, frags'[1] = <<>>, fi'.offset = 0, UNCHANGED <<sent, up>>
  PROVE  Stream'
  <1>1. Kept' = <<>>
    BY FlattenEmpty DEF Kept
  <1>2. PosAt(Len(ring) + 1)' = Between
    BY <1>1 DEF PosAt, ReadPos, Between
  <1>3. WriterAt(PosAt(Len(ring) + 1))'
    BY <1>2 DEF WriterAt, Between
  <1>4. EndToEnd(Kept)' /\ \A i \in DOMAIN up' : Whole(up[i])'
    BY <1>1 DEF Stream, EndToEnd, Whole
  <1> QED
    BY <1>3, <1>4 DEF Stream

LEMMA StreamReset ==
  ASSUME LongInv, DataOK, Stream, ~torn',
         BadMessage \/ Purge \/ WriterReopens \/ ReaderReopens
  PROVE  Stream'
  <1>1. CASE BadMessage
    <2>1. /\ ~(fi.offset > 0) /\ frags = [id \in {0, 1} |-> <<>>]
          /\ frags' \in {frags, Destroyed(Head(ring))} /\ ring # <<>>
          /\ ring' = <<>> /\ UNCHANGED <<sent, up, fi>>
      BY <1>1 DEF BadMessage, Resets, writer
    <2>2. fi'.offset = 0
      BY <2>1 DEF LongInv, FmtTypes
    <2>3. frags'[1] = <<>>
      <3>1. Head(ring).id \in {0, 1}
        BY <2>1, PieceFacts
      <3>2. Destroyed(Head(ring))[1] = <<>>
        BY <2>1, <3>1 DEF Destroyed
      <3> QED
        BY <2>1, <3>2
    <2> QED
      BY <2>1, <2>2, <2>3, StreamRestarts
  <1>2. CASE WriterReopens
    <2>1. /\ frags = [id \in {0, 1} |-> <<>>] /\ frags' = frags
          /\ ring' = <<>> /\ fi'.offset = 0 /\ UNCHANGED <<sent, up>>
      BY <1>2 DEF WriterReopens, Resets, reader
    <2> QED
      BY <2>1, StreamRestarts
  <1>3. CASE ReaderReopens
    <2>1. /\ ~(fi.offset > 0) /\ frags' = [id \in {0, 1} |-> <<>>]
          /\ ring' = <<>> /\ UNCHANGED <<sent, up, fi>>
      BY <1>3 DEF ReaderReopens, Resets, writer
    <2>2. fi'.offset = 0
      BY <2>1 DEF LongInv, FmtTypes
    <2> QED
      BY <2>1, <2>2, StreamRestarts
  <1>4. CASE Purge
    <2>1. ~(fi.offset > 0) /\ UNCHANGED <<sent, up, fi, ring, frags>>
      BY <1>4 DEF Purge, Resets, reader
    <2>2. Kept' = Kept
      BY <2>1 DEF Kept
    <2>3. /\ PosAt(Len(ring) + 1)' = PosAt(Len(ring) + 1)
          /\ \A i \in DOMAIN ring : PosAt(i)' = PosAt(i)
      BY <2>1, <2>2 DEF PosAt, ReadPos, After, Between
    <2>4. WriterAt(PosAt(Len(ring) + 1))'
      BY <2>1, <2>3 DEF Stream, WriterAt
    <2>5. EndToEnd(Kept)' /\ \A i \in DOMAIN up' : Whole(up[i])'
      BY <2>1, <2>2 DEF Stream, EndToEnd, Whole
    <2>6. \A i \in DOMAIN ring' : Continues(PosAt(i), ring[i])'
      BY <2>1, <2>3 DEF Stream, Continues
    <2> QED
      BY <2>4, <2>5, <2>6 DEF Stream
  <1> QED
    BY <1>1, <1>2, <1>3, <1>4

\* Nothing moves; when sipc_write stops at a full ring, fi is set to what it was.
LEMMA StreamIdle ==
  ASSUME LongInv, DataOK, Halfway, ~torn, Stream,
         \/ UNCHANGED vars
         \/ Waits
  PROVE  Stream'
  <1>1. UNCHANGED <<sent, txq, ring, frags, up>>
    BY IdleSteps DEF vars, Idle
  <1>2. Kept' = Kept
    BY <1>1 DEF Kept
  <1>3. /\ PosAt(Len(ring) + 1)' = PosAt(Len(ring) + 1)
        /\ \A i \in DOMAIN ring : PosAt(i)' = PosAt(i)
    BY <1>1, <1>2 DEF PosAt, ReadPos, After, Between
  <1>4. \/ fi' = fi
        \/ txq # <<>> /\ fi'.offset = Sent /\ fi'.skb = Head(txq).skb
    BY DEF vars, Waits, WriteBegins, WriteTimesOut, WriteEnds, ReadBegins, ReadTimesOut, ReadBug,
           ReadEnds, ReadNoMem, writer
  <1>5. WriterAt(PosAt(Len(ring) + 1))'
    <2>1. WriterAt(PosAt(Len(ring) + 1)) /\ (txq # <<>> => Sent = fi.offset)
      BY NothingNever DEF Stream
    <2> QED
      BY <1>1, <1>3, <1>4, <2>1 DEF WriterAt
  <1>6. EndToEnd(Kept)' /\ \A i \in DOMAIN up' : Whole(up[i])'
    BY <1>1, <1>2 DEF Stream, EndToEnd, Whole
  <1>7. \A i \in DOMAIN ring' : Continues(PosAt(i), ring[i])'
    BY <1>1, <1>3 DEF Stream, Continues
  <1> QED
    BY <1>5, <1>6, <1>7 DEF Stream

LEMMA TornStays ==
  ASSUME DataOK, [Next]_vars, ~torn'
  PROVE  ~torn
  <1>1. CASE UNCHANGED vars
    BY <1>1 DEF vars
  <1>2. CASE BadMessage \/ Purge \/ WriterReopens \/ ReaderReopens
    BY <1>2 DEF BadMessage, Purge, WriterReopens, ReaderReopens, Resets
  <1> QED
    BY <1>1, <1>2, OthersKeepBudget

LEMMA StreamAlways == Spec => []StreamInv
  <1> DEFINE Known == LongInv /\ DataOK /\ FramesInv /\ AnnInv
  <1>1. Init => StreamInv
    <2> SUFFICES ASSUME Init PROVE Stream
      BY DEF StreamInv
    <2>1. frags[1] = <<>>
      BY DEF Init
    <2>2. Kept = <<>>
      BY <2>1, FlattenEmpty DEF Kept
    <2>3. PosAt(Len(ring) + 1) = Between
      BY <2>2 DEF Init, PosAt, ReadPos
    <2> QED
      BY <2>2, <2>3 DEF Init, Stream, EndToEnd, WriterAt, Between
  <1>2. Known /\ StreamInv /\ [Next]_vars => StreamInv'
    <2> SUFFICES ASSUME Known, StreamInv, [Next]_vars, ~torn' PROVE Stream'
      BY DEF StreamInv
    <2>1. ~torn /\ Stream /\ Halfway
      BY TornStays DEF StreamInv, AnnInv
    <2>2. ~WriteNothing
      BY <2>1, NothingNever
    <2> QED
      BY <2>1, <2>2, StreamXmit, StreamFrame, StreamFrag, StreamLast, StreamReset, StreamIdle
         DEF Next, Write, Read, Waits
  <1> QED
    BY <1>1, <1>2, FramesAlways, AnnAlways, PTL DEF Spec

\* _read_fmt_last hands up packets with all their bytes and no others, however
\* _write_fmt cut them, whatever allocation failed on the way, and after resets
\* that found no packet half-way.
THEOREM AlwaysIntact == Spec => []Intact
  <1>1. DataOK /\ StreamInv => Intact
    <2> SUFFICES ASSUME DataOK, Stream, NEW i \in DOMAIN up
                 PROVE  /\ up[i][1].from = 0
                        /\ \A j \in DOMAIN up[i] :
                              /\ up[i][j].no = up[i][1].no
                              /\ j > 1 => up[i][j].from = up[i][j - 1].to
                        /\ Last(up[i]).to = sent[up[i][1].no]
      BY DEF Intact, StreamInv
    <2> DEFINE u == up[i]
    <2>1. u \in Seq(Pieces) /\ Whole(u)
      BY DEF DataOK, Stream
    <2> HIDE DEF u
    <2>2. 1 \in DOMAIN u
      BY <2>1 DEF Whole
    <2>3. u[1].from = 0 /\ \A j \in DOMAIN u : /\ u[j].no = u[1].no
                                               /\ j > 1 => u[j].from = u[j - 1].to
      BY <2>1, <2>2 DEF Whole, EndToEnd
    <2>4. Last(u).to = sent[u[1].no]
      BY <2>1 DEF Whole, Last
    <2> QED
      BY <2>3, <2>4 DEF u
  <1> QED
    BY <1>1, DataAlways, StreamAlways, PTL

\* Packets are handed up in the order of their transmission and none twice;
\* while nothing is reset none is missing.
THEOREM AlwaysInOrder == Spec => []InOrder
  <1>1. LongInv /\ DataOK /\ StreamInv /\ OrderInv /\ CountInv => InOrder
    <2> SUFFICES ASSUME LongInv, DataOK, Stream, OrderInv, CountInv, ~torn,
                        NEW i \in DOMAIN up
                 PROVE  /\ i > 1 => up[i][1].no > up[i - 1][1].no
                        /\ ~Reset => up[i][1].no = i
      BY DEF InOrder, StreamInv
    <2>1. ASSUME NEW k \in DOMAIN up PROVE LastNo(up[k]) = up[k][1].no
      <3> DEFINE u == up[k]
      <3>1. u \in Seq(Pieces) /\ Whole(u)
        BY DEF DataOK, Stream
      <3> HIDE DEF u
      <3>2. Len(u) \in DOMAIN u
        BY <3>1 DEF Whole
      <3>3. LastNo(u) = u[1].no
        BY <3>1, <3>2 DEF Whole, EndToEnd, LastNo, Last
      <3> QED
        BY <3>3 DEF u
    <2>2. i > 1 => i - 1 \in DOMAIN up /\ i - 1 < i
      BY Numbers
    <2>3. i > 1 => LastNo(up[i - 1]) < LastNo(up[i])
      BY <2>2 DEF OrderInv, UpOrder
    <2>4. i > 1 => up[i][1].no > up[i - 1][1].no
      BY <2>1, <2>2, <2>3, Numbers
    <2>5. ~Reset => LastNo(up[i]) = i
      BY DEF CountInv, Numbered
    <2> QED
      BY <2>1, <2>4, <2>5
  <1> QED
    BY <1>1, LongAlways, DataAlways, StreamAlways, OrderAlways, CountAlways, PTL
-----------------------------------------------------------------------------
(* No packet is lost. *)

\* Without a reset each packet is handed up, in the ring to its end, or still at
\* hand in txq: _write_fmt takes a packet off txq only when its last frame is in
\* the ring, and what goes into txq has been counted.
NothingLost ==
    ~torn /\ ~Reset =>
        \A k \in DOMAIN sent : \/ \E i \in DOMAIN up : up[i][1].no = k
                               \/ \E i \in DOMAIN ring : ring[i].no = k /\ ~ring[i].more
                               \/ \E i \in DOMAIN txq : txq[i].no = k

\* Between what is handed up and the number due behind the frame at place n, every
\* packet has its last frame at one of the places up to n.
LEMMA RingHoldsEnds ==
  ASSUME LongInv, DataOK, OrderInv, Numbered
  PROVE  \A n \in Nat : n <= Len(ring) =>
             /\ NumberAt(n + 1) \in Nat
             /\ \A k \in Len(up) + 1 .. NumberAt(n + 1) - 1 :
                   \E i \in DOMAIN ring : ring[i].no = k /\ ~ring[i].more
  <1> DEFINE Held(k) == \E i \in DOMAIN ring : ring[i].no = k /\ ~ring[i].more
             Good(n) == /\ NumberAt(n + 1) \in Nat
                        /\ \A k \in Len(up) + 1 .. NumberAt(n + 1) - 1 : Held(k)
             S == {n \in Nat : n <= Len(ring) => Good(n)}
  <1>1. 0 \in S
    <2>1. NumberAt(0 + 1) = Len(up) + 1 /\ Len(up) \in Nat
      BY Numbers DEF NumberAt
    <2> QED
      BY <2>1
  <1>2. ASSUME NEW n \in Nat, n \in S PROVE n + 1 \in S
    <2> SUFFICES ASSUME n + 1 <= Len(ring) PROVE Good(n + 1)
      OBVIOUS
    <2>1. n + 1 \in DOMAIN ring /\ n <= Len(ring) /\ n + 1 + 1 # 1 /\ n + 1 + 1 - 1 = n + 1
      BY Numbers
    <2>2. Good(n)
      BY <1>2, <2>1
    <2>3. ring[n + 1].no = NumberAt(n + 1) /\ ring[n + 1].more \in BOOLEAN
      BY <2>1, Numbers DEF Numbered
    <2>4. NumberAt(n + 1 + 1) = NextNo(ring[n + 1])
      BY <2>1 DEF NumberAt
    <2> HIDE DEF Held
    <2>5. CASE ring[n + 1].more
      <3>1. NumberAt(n + 1 + 1) = NumberAt(n + 1)
        BY <2>3, <2>4, <2>5 DEF NextNo
      <3> QED
        BY <2>2, <3>1
    <2>6. CASE ~ring[n + 1].more
      <3>1. NumberAt(n + 1 + 1) = NumberAt(n + 1) + 1
        BY <2>3, <2>4, <2>6 DEF NextNo
      <3>2. Held(NumberAt(n + 1))
        BY <2>1, <2>3, <2>6 DEF Held
      <3>3. ASSUME NEW k \in Len(up) + 1 .. NumberAt(n + 1 + 1) - 1 PROVE Held(k)
        <4>1. k = NumberAt(n + 1) \/ k \in Len(up) + 1 .. NumberAt(n + 1) - 1
          BY <2>2, <3>1, Numbers
        <4> QED
          BY <2>2, <3>2, <4>1
      <3> QED
        BY <2>2, <3>1, <3>3
    <2> QED
      BY <2>3, <2>5, <2>6
  <1>3. Nat \subseteq S
    <2> HIDE DEF S
    <2> QED
      BY <1>1, <1>2, NatSetInduction
  <1> QED
    BY <1>3

\* No packet is lost between svnet_xmit and the reader's end while nothing is reset:
\* Delivered then needs only that the two ends go on.
THEOREM NothingIsLost == Spec => []NothingLost
  <1>1. LongInv /\ DataOK /\ StreamInv /\ OrderInv /\ CountInv => NothingLost
    <2> SUFFICES ASSUME LongInv, DataOK, Stream, OrderInv, Numbered, NEW k \in DOMAIN sent
                 PROVE  \/ \E i \in DOMAIN up : up[i][1].no = k
                        \/ \E i \in DOMAIN ring : ring[i].no = k /\ ~ring[i].more
                        \/ \E i \in DOMAIN txq : txq[i].no = k
      BY DEF NothingLost, StreamInv, CountInv
    <2> DEFINE t == NumberAt(Len(ring) + 1)
    <2>1. /\ t \in Nat
          /\ \A j \in Len(up) + 1 .. t - 1 : \E i \in DOMAIN ring : ring[i].no = j /\ ~ring[i].more
      BY RingHoldsEnds, Numbers
    <2>2. /\ Len(sent) = t + Len(txq) - 1
          /\ \A i \in DOMAIN txq : txq[i].no = t + i - 1
      BY DEF Numbered
    <2> HIDE DEF t
    <2>3. k \in Nat /\ k > 0 /\ k <= Len(sent)
      BY Numbers
    <2>4. CASE k <= Len(up)
      <3>1. k \in DOMAIN up
        BY <2>3, <2>4, Numbers
      <3>2. up[k][1].no = k
        <4> DEFINE u == up[k]
        <4>1. u \in Seq(Pieces) /\ Whole(u) /\ LastNo(u) = k
          BY <3>1 DEF DataOK, Stream, Numbered
        <4> HIDE DEF u
        <4>2. Len(u) \in DOMAIN u
          BY <4>1 DEF Whole
        <4>3. u[1].no = k
          BY <4>1, <4>2 DEF Whole, EndToEnd, LastNo, Last
        <4> QED
          BY <4>3 DEF u
      <3> QED
        BY <3>1, <3>2
    <2>5. CASE k \in Len(up) + 1 .. t - 1
      BY <2>1, <2>5
    <2>6. CASE k >= t
      <3>1. k - t + 1 \in DOMAIN txq /\ t + (k - t + 1) - 1 = k
        BY <2>1, <2>2, <2>3, <2>6, Numbers
      <3> QED
        BY <2>2, <3>1
    <2>7. k <= Len(up) \/ k \in Len(up) + 1 .. t - 1 \/ k >= t
      BY <2>1, <2>3, Numbers
    <2> QED
      BY <2>4, <2>5, <2>6, <2>7
  <1> QED
    BY <1>1, LongAlways, DataAlways, StreamAlways, OrderAlways, CountAlways, PTL
====
