---------------------------- MODULE SipcFmtProof ----------------------------
(***************************************************************************)
(* Proofs about SipcFmt, for rings, blocks and packets of any size, any    *)
(* number of packets and any number of resets.                             *)
(***************************************************************************)
EXTENDS SipcFmtLemmas

Packet == [skb : Addrs, no : Nat, len : Nat \ {0}]
Frame  == [id : {0, 1}, more : BOOLEAN, no : Nat, from : Int, to : Int, size : Int]

\* The types this proof needs.
FmtTypes == /\ sent \in Seq(Nat)
            /\ txq \in Seq(Packet)
            /\ fi.offset \in Nat
            /\ head \in Int
            /\ tail \in Int
            /\ ring \in Seq(Frame)

\* Packets that wait are as long as they were when they were handed over.
KnownPacket(p) == p.no \in DOMAIN sent /\ p.len = sent[p.no]

\* A frame with more to come carries less than its packet: the offset of a
\* half-sent packet, the new packet's own or one that was left behind by a
\* purge, is never negative.
PartOfPacket(f) == /\ f.no \in DOMAIN sent
                   /\ f.more => Bytes(f) < sent[f.no]

\* The reader stops at the frame that no block can hold.
StoppedAtLong == pc = "bug" => /\ ring # <<>>
                               /\ Head(ring).more
                               /\ TooLong(Head(ring))

LongInv == /\ FmtTypes
           /\ \A i \in DOMAIN txq : KnownPacket(txq[i])
           /\ \A i \in DOMAIN ring : PartOfPacket(ring[i])
           /\ StoppedAtLong

LEMMA SpaceIsInt ==
  ASSUME FmtTypes
  PROVE  CIRC_SPACE(head, tail) \in Int
  BY FmtAssumption DEF FmtTypes, CIRC_SPACE, CIRC_CNT

LEMMA XmitStep ==
  ASSUME LongInv, NEW n \in Lens, NEW a \in Addrs, Xmit(n, a)
  PROVE  LongInv'
  <1> DEFINE p == [skb |-> a, no |-> Len(sent) + 1, len |-> n]
  <1>1. n \in Nat /\ Len(sent) \in Nat /\ p \in Packet
    BY FmtAssumption DEF LongInv, FmtTypes, Packet
  <1>2. sent' = Append(sent, n) /\ txq' = Append(txq, p)
    BY DEF Xmit
  <1>3. FmtTypes'
    BY <1>1, <1>2, AppendKeeps DEF LongInv, FmtTypes, Xmit
  <1>4. /\ \A i \in DOMAIN sent : i \in DOMAIN sent' /\ sent'[i] = sent[i]
        /\ Len(sent) + 1 \in DOMAIN sent' /\ sent'[Len(sent) + 1] = n
    BY <1>1, <1>2, AppendKeeps DEF LongInv, FmtTypes
  <1>5. ASSUME NEW i \in DOMAIN txq' PROVE KnownPacket(txq[i])'
    <2>1. (i \in DOMAIN txq /\ txq'[i] = txq[i]) \/ txq'[i] = p
      BY <1>1, <1>2, AppendKeeps DEF LongInv, FmtTypes
    <2>2. CASE i \in DOMAIN txq /\ txq'[i] = txq[i]
      BY <1>4, <2>2 DEF LongInv, KnownPacket
    <2>3. CASE txq'[i] = p
      <3>1. p.no = Len(sent) + 1 /\ p.len = n
        OBVIOUS
      <3> HIDE DEF p
      <3> QED
        BY <1>4, <2>3, <3>1 DEF KnownPacket
    <2> QED
      BY <2>1, <2>2, <2>3
  <1>6. ring' = ring /\ pc' = pc
    BY DEF Xmit
  <1>7. ASSUME NEW i \in DOMAIN ring' PROVE PartOfPacket(ring[i])'
    BY <1>4, <1>6 DEF LongInv, PartOfPacket, Bytes
  <1>8. StoppedAtLong'
    BY <1>6 DEF LongInv, StoppedAtLong, Bytes, TooLong
  <1> QED
    BY <1>3, <1>5, <1>7, <1>8 DEF LongInv

\* The frame that _write_fmt writes: it carries some of what remains of the
\* packet, and __write finds the space for all of it.
LEMMA FrameFacts ==
  ASSUME LongInv, WriteFrame
  PROVE  /\ Head(txq) \in Packet
         /\ Ovh \in Nat
         /\ Space \in Int
         /\ Sent \in Nat
         /\ Remain \in Int /\ Remain = Head(txq).len - Sent
         /\ Carries \in Int /\ Carries > 0 /\ Carries <= Remain /\ Carries <= Space
         /\ Remain > Space => Carries < Remain
         /\ Remain <= Space => Carries = Remain
         /\ Written(Carries + Ovh) = Carries + Ovh
  <1>1. Head(txq) \in Packet
    BY TailKeeps DEF LongInv, FmtTypes, WriteFrame
  <1>2. Space \in Int /\ Ovh \in Nat /\ TxMin \in Nat /\ TxMin > 0 /\ Space >= TxMin
    BY SpaceIsInt, FmtAssumption DEF LongInv, Space, WriteFrame
  <1>3. /\ Sent \in Nat
        /\ Remain \in Int /\ Remain = Head(txq).len - Sent /\ Remain > 0
    BY <1>1 DEF LongInv, FmtTypes, Sent, Remain, WriteFrame, Packet
  <1>4. /\ Carries \in Int /\ Carries > 0 /\ Carries <= Remain /\ Carries <= Space
        /\ Remain > Space => Carries < Remain
        /\ Remain <= Space => Carries = Remain
    BY <1>2, <1>3 DEF Carries
  <1>5. CIRC_SPACE(head, tail) = Space + Ovh
    BY <1>2, SpaceIsInt DEF LongInv, Space
  <1>6. Written(Carries + Ovh) = Carries + Ovh
    BY <1>2, <1>4, <1>5, WrittenIs DEF Written
  <1> QED
    BY <1>1, <1>2, <1>3, <1>4, <1>6

\* One round of _write_fmt.
LEMMA FrameStep ==
  ASSUME LongInv, WriteFrame
  PROVE  LongInv'
  <1> DEFINE h == Head(txq)
             more == Remain > Space
             n    == Written(Carries + Ovh)
             f    == [id |-> Id(more), more |-> more, no |-> h.no, from |-> Sent,
                      to |-> Sent + Carries, size |-> n]
  <1>1. /\ txq # <<>> /\ pc = "writing" /\ pc' = pc /\ sent' = sent /\ tail' = tail
        /\ ring' = Append(ring, f) /\ head' = Advanced(head, n)
    BY DEF WriteFrame, ghosts
  <1>2. /\ h \in Packet /\ KnownPacket(h) /\ Tail(txq) \in Seq(Packet)
        /\ \A i \in DOMAIN Tail(txq) : KnownPacket(Tail(txq)[i])
    BY <1>1, TailKeeps DEF LongInv, FmtTypes
  <1>3. Space \in Int /\ Ovh \in Nat
    BY FrameFacts
  <1>4. Sent \in Nat /\ Remain \in Int /\ Remain = h.len - Sent /\ h.len \in Nat
    BY <1>2, FrameFacts DEF Packet
  <1>5. Carries \in Int /\ Carries > 0 /\ (more => Carries < Remain)
    BY FrameFacts
  <1>6. n \in Int /\ n > Ovh
    BY <1>3, <1>5, FrameFacts
  <1>7. more \in BOOLEAN /\ Id(more) \in {0, 1}
    BY <1>3, <1>4 DEF Id
  <1>8. f \in Frame /\ PartOfPacket(f)
    <2>1. f \in Frame
      BY <1>2, <1>4, <1>5, <1>6, <1>7 DEF Frame, Packet
    <2>2. Bytes(f) = Carries
      BY <1>4, <1>5 DEF Bytes
    <2>3. f.no = h.no /\ f.more = more
      OBVIOUS
    <2>4. more => Carries < h.len
      BY <1>4, <1>5
    <2> HIDE DEF f, h, more
    <2> QED
      BY <1>2, <2>1, <2>2, <2>3, <2>4 DEF PartOfPacket, KnownPacket
  <1>9. head' \in Int
    BY <1>1, <1>6, FmtAssumption DEF LongInv, FmtTypes, Advanced
  <1>10. fi'.offset \in Nat
    <2>1. Sent + n - Ovh \in Nat
      BY <1>3, <1>4, <1>6
    <2> QED
      BY <2>1 DEF WriteFrame
  <1>11. txq' \in Seq(Packet) /\ \A i \in DOMAIN txq' : KnownPacket(txq'[i])
    BY <1>2 DEF WriteFrame, LongInv, FmtTypes
  <1>12. ring' \in Seq(Frame) /\ \A i \in DOMAIN ring' : PartOfPacket(ring'[i])
    <2>1. ring \in Seq(Frame)
      BY DEF LongInv, FmtTypes
    <2>2. ASSUME NEW i \in DOMAIN ring'
          PROVE  (i \in DOMAIN ring /\ ring'[i] = ring[i]) \/ ring'[i] = f
      <3> HIDE DEF f
      <3> QED
        BY <1>1, <1>8, <2>1, AppendKeeps
    <2>3. ring' \in Seq(Frame)
      <3> HIDE DEF f
      <3> QED
        BY <1>1, <1>8, <2>1, AppendKeeps
    <2> HIDE DEF f
    <2> QED
      BY <1>8, <2>2, <2>3 DEF LongInv
  <1> HIDE DEF f, n, h
  <1> QED
    BY <1>1, <1>9, <1>10, <1>11, <1>12
       DEF LongInv, FmtTypes, KnownPacket, PartOfPacket, StoppedAtLong, Bytes

\* The rest of the writer.
LEMMA OtherWriteStep ==
  ASSUME LongInv, WriteBegins \/ WriteTimesOut \/ WriteNothing \/ WriteEnds
  PROVE  LongInv'
  <1> USE DEF LongInv, FmtTypes, StoppedAtLong, KnownPacket, PartOfPacket, Bytes, TooLong
  <1>1. CASE WriteBegins \/ WriteTimesOut
    BY <1>1 DEF WriteBegins, WriteTimesOut, writer, ghosts
  <1>2. CASE WriteNothing
    <2>1. Tail(txq) \in Seq(Packet) /\ \A i \in DOMAIN Tail(txq) : KnownPacket(Tail(txq)[i])
      BY <1>2, TailKeeps DEF WriteNothing
    <2>2. Sent \in Nat
      BY DEF Sent
    <2> QED
      BY <1>2, <2>1, <2>2 DEF WriteNothing, ghosts
  <1>3. CASE WriteEnds
    <2>1. Sent \in Nat
      BY DEF Sent
    <2> QED
      BY <1>3, <2>1 DEF WriteEnds, ghosts
  <1> QED
    BY <1>1, <1>2, <1>3

\* The reader.
LEMMA ReadStep ==
  ASSUME LongInv, ReadBegins \/ ReadTimesOut \/ Read \/ ReadNoMem \/ BadMessage
  PROVE  LongInv'
  <1> USE DEF LongInv, FmtTypes, StoppedAtLong, KnownPacket
  <1>1. CASE ReadBegins \/ ReadTimesOut \/ ReadBug \/ ReadEnds \/ ReadNoMem
    BY <1>1 DEF ReadBegins, ReadTimesOut, ReadBug, ReadEnds, ReadNoMem, writer, ghosts,
                PartOfPacket
  <1>2. CASE ReadLast \/ ReadFrag
    <2>1. /\ ring # <<>> /\ ring' = Tail(ring) /\ tail' = Advanced(tail, Head(ring).size)
          /\ UNCHANGED <<sent, txq, fi, head>> /\ pc' = "reading"
      BY <1>2 DEF ReadLast, ReadFrag, Taken, writer, ghosts
    <2>2. /\ ring' \in Seq(Frame) /\ Head(ring) \in Frame
          /\ \A i \in DOMAIN ring' : PartOfPacket(ring'[i])
      BY <2>1, TailKeeps
    <2>3. tail' \in Int
      BY <2>1, <2>2, FmtAssumption DEF Advanced, Frame
    <2> QED
      BY <2>1, <2>2, <2>3 DEF PartOfPacket
  <1>3. CASE BadMessage
    BY <1>3 DEF BadMessage, writer
  <1> QED
    BY <1>1, <1>2, <1>3 DEF Read

\* A purge and new sessions.
LEMMA ResetStep ==
  ASSUME LongInv, Purge \/ WriterReopens \/ ReaderReopens
  PROVE  LongInv'
  <1> USE DEF LongInv, FmtTypes, StoppedAtLong, KnownPacket, PartOfPacket, Bytes, TooLong
  <1>1. CASE Purge
    BY <1>1 DEF Purge
  <1>2. CASE WriterReopens
    BY <1>2 DEF WriterReopens
  <1>3. CASE ReaderReopens
    BY <1>3 DEF ReaderReopens, writer
  <1> QED
    BY <1>1, <1>2, <1>3

LEMMA LongAlways == Spec => []LongInv
  <1>1. Init => LongInv
    BY DEF Init, LongInv, FmtTypes, StoppedAtLong
  <1>2. LongInv /\ [Next]_vars => LongInv'
    <2> SUFFICES ASSUME LongInv, [Next]_vars PROVE LongInv'
      OBVIOUS
    <2>1. CASE UNCHANGED vars
      BY <2>1 DEF vars, LongInv, FmtTypes, StoppedAtLong, KnownPacket, PartOfPacket,
                  TooLong, Bytes
    <2>2. CASE Next
      BY <2>2, XmitStep, FrameStep, OtherWriteStep, ReadStep, ResetStep DEF Next, Write
    <2> QED
      BY <2>1, <2>2
  <1> QED
    BY <1>1, <1>2, PTL DEF Spec

\* The reader meets its BUG() only for a packet longer than a block, whatever the
\* ring, the resets and the offset a purge has left behind: _write_fmt cuts no
\* shorter packet into a frame that does not fit a block.
THEOREM BugAlwaysNeedsLong == Spec => []BugNeedsLong
  <1>1. LongInv => BugNeedsLong
    <2> SUFFICES ASSUME LongInv, pc = "bug" PROVE sent[Head(ring).no] > BlockMax
      BY DEF BugNeedsLong
    <2>1. /\ ring # <<>> /\ Head(ring).more /\ TooLong(Head(ring)) /\ ring \in Seq(Frame)
      BY DEF LongInv, StoppedAtLong, FmtTypes
    <2>2. Head(ring) \in Frame /\ PartOfPacket(Head(ring))
      BY <2>1, TailKeeps DEF LongInv
    <2>3. sent[Head(ring).no] \in Nat /\ Bytes(Head(ring)) \in Int /\ BlockMax \in Nat
      <3>1. sent \in Seq(Nat) /\ Head(ring).no \in DOMAIN sent
        BY <2>2 DEF LongInv, FmtTypes, PartOfPacket
      <3>2. sent[Head(ring).no] \in Nat
        BY <3>1
      <3>3. Bytes(Head(ring)) \in Int
        BY <2>2 DEF Frame, Bytes
      <3> QED
        BY <3>2, <3>3, FmtAssumption
    <2> QED
      BY <2>1, <2>2, <2>3 DEF PartOfPacket, TooLong
  <1> QED
    BY <1>1, LongAlways, PTL
-----------------------------------------------------------------------------
(* Announced frames. *)

\* The indices are as far apart as the frames are long: each frame leads from
\* the end of the one before it to its own.
Chained == \E pos \in [0 .. Len(ring) -> Int] :
               /\ pos[0] = tail
               /\ pos[Len(ring)] = head
               /\ \A i \in 1 .. Len(ring) : pos[i] = Advanced(pos[i - 1], ring[i].size)

\* fi is about the first packet, or a purge has torn one.
Halfway == fi.offset > 0 => \/ torn
                            \/ /\ txq # <<>>
                               /\ Head(txq).skb = fi.skb
                               /\ fi.offset < Head(txq).len

\* A packet that no empty ring could hold has been begun.
Oversized == txq # <<>> /\ ~Fits(Head(txq).len) /\ fi.offset > 0

\* What RingAnnounced says between the uses of the bank, while sipc_write runs
\* too: `mask' is the announcement it has yet to make.
Announced == pc \in {"idle", "writing"} /\ ring # <<>> =>
                 mailed \/ stalled \/ torn \/ Oversized \/ (pc = "writing" /\ mask)

AnnInv == Chained /\ Halfway /\ Announced

\* An empty ring has space for all but one byte.
LEMMA EmptySpace ==
  ASSUME FmtTypes, Chained, ring = <<>>
  PROVE  CIRC_SPACE(head, tail) = Size - 1
  <1>1. head = tail
    BY DEF Chained
  <1>2. tail - (head + 1) = -1
    BY <1>1 DEF FmtTypes
  <1>3. (-1) % Size = Size - 1
    BY FmtAssumption
  <1> QED
    BY <1>2, <1>3 DEF CIRC_SPACE, CIRC_CNT

\* A frame is appended where the last one ends.
LEMMA ChainGrows ==
  ASSUME FmtTypes, Chained, NEW f \in Frame, ring' = Append(ring, f), tail' = tail,
         head' = Advanced(head, f.size), head' \in Int
  PROVE  Chained'
  <1>1. PICK pos \in [0 .. Len(ring) -> Int] :
            /\ pos[0] = tail
            /\ pos[Len(ring)] = head
            /\ \A i \in 1 .. Len(ring) : pos[i] = Advanced(pos[i - 1], ring[i].size)
    BY DEF Chained
  <1> DEFINE L == Len(ring)
             q == [i \in 0 .. L + 1 |-> IF i = L + 1 THEN head' ELSE pos[i]]
  <1>2. L \in Nat /\ Len(ring') = L + 1
    BY DEF FmtTypes
  <1>3. /\ \A i \in 1 .. L : ring'[i] = ring[i]
        /\ ring'[L + 1] = f
    BY DEF FmtTypes
  <1>4. q \in [0 .. L + 1 -> Int] /\ q[0] = tail /\ q[L + 1] = head'
    BY <1>1, <1>2
  <1>5. ASSUME NEW i \in 1 .. L + 1 PROVE q[i] = Advanced(q[i - 1], ring'[i].size)
    <2>1. CASE i = L + 1
      <3>1. q[i] = head' /\ q[i - 1] = head /\ ring'[i] = f
        BY <1>1, <1>2, <1>3, <2>1
      <3> QED
        BY <3>1
    <2>2. CASE i \in 1 .. L
      <3>1. q[i] = pos[i] /\ q[i - 1] = pos[i - 1] /\ ring'[i] = ring[i]
        BY <1>2, <1>3, <2>2
      <3> QED
        BY <1>1, <2>2, <3>1
    <2> QED
      BY <1>2, <2>1, <2>2
  <1> HIDE DEF q
  <1> QED
    BY <1>2, <1>4, <1>5 DEF Chained, Advanced

\* The reader's index moves to the end of the frame it has taken.
LEMMA ChainShrinks ==
  ASSUME FmtTypes, Chained, ring # <<>>, ring' = Tail(ring), head' = head,
         tail' = Advanced(tail, Head(ring).size)
  PROVE  Chained'
  <1>1. PICK pos \in [0 .. Len(ring) -> Int] :
            /\ pos[0] = tail
            /\ pos[Len(ring)] = head
            /\ \A i \in 1 .. Len(ring) : pos[i] = Advanced(pos[i - 1], ring[i].size)
    BY DEF Chained
  <1> DEFINE L == Len(ring)
             q == [i \in 0 .. L - 1 |-> pos[i + 1]]
  <1>2. L \in Nat /\ L > 0 /\ Len(ring') = L - 1 /\ Head(ring) = ring[1]
    BY DEF FmtTypes
  <1>3. \A i \in 1 .. L - 1 : ring'[i] = ring[i + 1]
    BY DEF FmtTypes
  <1>4. q \in [0 .. L - 1 -> Int] /\ q[0] = tail' /\ q[L - 1] = head
    <2>1. pos[1] = Advanced(pos[0], ring[1].size)
      BY <1>1, <1>2
    <2> QED
      BY <1>1, <1>2, <2>1
  <1>5. ASSUME NEW i \in 1 .. L - 1 PROVE q[i] = Advanced(q[i - 1], ring'[i].size)
    <2>1. q[i] = pos[i + 1] /\ q[i - 1] = pos[i] /\ ring'[i] = ring[i + 1]
      BY <1>2, <1>3
    <2>2. pos[i + 1] = Advanced(pos[i], ring[i + 1].size)
      BY <1>1, <1>2
    <2> QED
      BY <2>1, <2>2
  <1> HIDE DEF q
  <1> QED
    BY <1>2, <1>4, <1>5 DEF Chained, Advanced

\* Indices that meet and a ring without frames agree.
LEMMA ChainEmpty ==
  ASSUME ring' = <<>>, head' = tail', head' \in Int
  PROVE  Chained'
  <1> DEFINE q == [i \in 0 .. 0 |-> head']
  <1>1. Len(ring') = 0 /\ q \in [0 .. 0 -> Int] /\ q[0] = head'
    OBVIOUS
  <1> HIDE DEF q
  <1> QED
    BY <1>1 DEF Chained

\* A packet that fits, written to an empty ring, is written to its end.
LEMMA FitsAtOnce ==
  ASSUME LongInv, Chained, WriteFrame, ring = <<>>, Fits(Head(txq).len)
  PROVE  Written(Carries + Ovh) - Ovh = Remain
  <1>1. CIRC_SPACE(head, tail) = Size - 1
    BY EmptySpace DEF LongInv
  <1>2. Space = Size - 1 - Ovh /\ Size \in Nat
    BY <1>1, FmtAssumption DEF Space
  <1>3. Head(txq).len \in Nat
    BY FrameFacts DEF Packet
  <1>4. Remain <= Space
    BY <1>2, <1>3, FrameFacts DEF Fits
  <1> QED
    BY <1>4, FrameFacts

LEMMA AnnFrame ==
  ASSUME LongInv, AnnInv, WriteFrame
  PROVE  AnnInv'
  <1> DEFINE h == Head(txq)
             n == Written(Carries + Ovh)
             done == n - Ovh = Remain
  <1>1. /\ txq # <<>> /\ pc = "writing" /\ tail' = tail
        /\ UNCHANGED <<mailed, stalled, torn, pc>>
    BY DEF WriteFrame, ghosts
  <1>2. /\ h.len \in Nat /\ Sent \in Nat /\ Remain = h.len - Sent
        /\ n - Ovh = Carries /\ Carries \in Int /\ Carries > 0 /\ Carries <= Remain
        /\ Sent + n - Ovh = Sent + Carries
    BY FrameFacts DEF Packet
  <1>3. Chained'
    <2> DEFINE more == Remain > Space
               f == [id |-> Id(more), more |-> more, no |-> h.no, from |-> Sent,
                     to |-> Sent + Carries, size |-> n]
    <2>1. ring' = Append(ring, f) /\ head' = Advanced(head, n) /\ f.size = n
      BY DEF WriteFrame
    <2>2. more \in BOOLEAN /\ Id(more) \in {0, 1}
      BY FrameFacts DEF Id
    <2>3. f \in Frame
      BY <2>2, FrameFacts DEF Frame, Packet
    <2>4. head' \in Int
      BY FrameStep DEF LongInv, FmtTypes
    <2> HIDE DEF f, n
    <2> QED
      BY <1>1, <2>1, <2>3, <2>4, ChainGrows DEF LongInv, AnnInv
  <1>4. CASE done
    <2>1. fi'.offset = 0 /\ mask' = TRUE
      BY <1>4, <1>2 DEF WriteFrame, MaskSet
    <2> QED
      BY <1>1, <1>3, <2>1 DEF AnnInv, Halfway, Announced
  <1>5. CASE ~done
    <2>1. /\ fi' = [skb |-> h.skb, offset |-> Sent + Carries] /\ txq' = txq
      BY <1>5, <1>2 DEF WriteFrame
    <2>2. fi'.skb = h.skb /\ fi'.offset = Sent + Carries /\ fi'.offset > 0
      BY <1>2, <2>1
    <2>3. Sent + Carries < h.len
      BY <1>2, <1>5
    <2>4. Halfway'
      BY <1>1, <2>1, <2>2, <2>3 DEF Halfway
    <2>5. mask' = (mask \/ FALSE)
      BY <1>5 DEF WriteFrame, MaskSet
    <2>6. Announced'
      <3>1. CASE ring = <<>>
        <4>1. ~Fits(h.len)
          BY <1>5, <3>1, FitsAtOnce DEF AnnInv
        <4> QED
          BY <1>1, <2>1, <2>2, <4>1 DEF Announced, Oversized, Fits
      <3>2. CASE ring # <<>>
        BY <1>1, <2>1, <2>2, <2>5, <3>2 DEF AnnInv, Announced, Oversized, Fits
      <3> QED
        BY <3>1, <3>2
    <2> QED
      BY <1>3, <2>4, <2>6 DEF AnnInv
  <1> QED
    BY <1>4, <1>5

\* The rest of the writer.
LEMMA AnnWrite ==
  ASSUME LongInv, AnnInv,
         (\E n \in Lens, a \in Addrs : Xmit(n, a))
         \/ WriteBegins \/ WriteTimesOut \/ WriteNothing \/ WriteEnds
  PROVE  AnnInv'
  <1>1. ASSUME NEW n \in Lens, NEW a \in Addrs, Xmit(n, a) PROVE AnnInv'
    <2>1. txq # <<>> => txq' # <<>> /\ Head(txq') = Head(txq)
      <3> DEFINE p == [skb |-> a, no |-> Len(sent) + 1, len |-> n]
      <3>1. txq' = Append(txq, p) /\ txq \in Seq(Packet)
        BY <1>1 DEF Xmit, LongInv, FmtTypes
      <3> HIDE DEF p
      <3> QED
        BY <3>1
    <2>2. UNCHANGED <<fi, head, tail, ring, pc, mask, mailed, stalled, torn>>
      BY <1>1 DEF Xmit
    <2>3. Chained'
      BY <2>2 DEF AnnInv, Chained, Advanced
    <2> QED
      BY <2>1, <2>2, <2>3 DEF AnnInv, Halfway, Announced, Oversized, Fits
  <1>2. CASE WriteBegins
    <2>1. /\ UNCHANGED <<txq, fi, head, tail, ring, mailed, stalled, torn>>
          /\ pc = "idle" /\ pc' = "writing"
      BY <1>2 DEF WriteBegins, writer, ghosts
    <2>2. Chained'
      BY <2>1 DEF AnnInv, Chained, Advanced
    <2> QED
      BY <2>1, <2>2 DEF AnnInv, Halfway, Announced, Oversized, Fits
  <1>3. CASE WriteNothing
    <2>1. /\ UNCHANGED <<head, tail, ring, pc, mask, mailed, stalled, torn>>
          /\ txq # <<>> /\ Remain <= 0
      BY <1>3 DEF WriteNothing, ghosts
    <2>2. Head(txq).len \in Nat /\ Head(txq).len > 0 /\ fi.offset \in Nat
      <3>1. Head(txq) \in Packet /\ fi.offset \in Nat
        BY <2>1, TailKeeps DEF LongInv, FmtTypes
      <3> QED
        BY <3>1 DEF Packet
    <2>3. torn
      BY <2>1, <2>2 DEF AnnInv, Halfway, Remain, Sent
    <2>4. Chained'
      BY <2>1 DEF AnnInv, Chained, Advanced
    <2> QED
      BY <2>1, <2>3, <2>4 DEF AnnInv, Halfway, Announced
  <1>4. CASE WriteEnds
    <2>1. /\ UNCHANGED <<txq, head, tail, ring, stalled, torn>>
          /\ mailed' = (mailed \/ mask) /\ pc = "writing" /\ pc' = "idle"
      BY <1>4 DEF WriteEnds, ghosts
    <2>2. Chained'
      BY <2>1 DEF AnnInv, Chained, Advanced
    <2>3. CASE txq = <<>>
      <3>1. fi' = fi
        BY <1>4, <2>3 DEF WriteEnds
      <3> QED
        BY <2>1, <2>2, <2>3, <3>1 DEF AnnInv, Halfway, Announced, Oversized
    <2>4. CASE txq # <<>>
      <3>1. fi' = [skb |-> Head(txq).skb, offset |-> Sent]
        BY <1>4, <2>4 DEF WriteEnds
      <3>2. fi'.skb = Head(txq).skb /\ fi'.offset = Sent
        BY <3>1
      <3>3. Halfway' /\ (Oversized /\ ~torn => Oversized')
        BY <2>1, <2>4, <3>2 DEF AnnInv, Halfway, Oversized, Sent, Fits
      <3> QED
        BY <2>1, <2>2, <3>3 DEF AnnInv, Announced
    <2> QED
      BY <2>3, <2>4
  <1>5. CASE WriteTimesOut
    <2>1. UNCHANGED <<txq, fi, head, tail, ring, pc, mask, mailed, stalled, torn>>
      BY <1>5 DEF WriteTimesOut, writer, ghosts
    <2>2. Chained'
      BY <2>1 DEF AnnInv, Chained, Advanced
    <2> QED
      BY <2>1, <2>2 DEF AnnInv, Halfway, Announced, Oversized, Fits
  <1> QED
    BY <1>1, <1>2, <1>3, <1>4, <1>5

LEMMA AnnRead ==
  ASSUME LongInv, AnnInv, ReadBegins \/ ReadTimesOut \/ Read \/ ReadNoMem \/ BadMessage
  PROVE  AnnInv'
  <1>1. UNCHANGED <<txq, fi>> /\ (torn => torn')
    <2>1. CASE BadMessage
      BY <2>1 DEF BadMessage, Resets, writer
    <2>2. CASE ReadBegins \/ ReadTimesOut \/ ReadNoMem
      BY <2>2 DEF ReadBegins, ReadTimesOut, ReadNoMem, writer, ghosts
    <2>3. CASE Read
      BY <2>3 DEF Read, ReadLast, ReadFrag, ReadBug, ReadEnds, writer, ghosts
    <2> QED
      BY <2>1, <2>2, <2>3
  <1>2. Halfway'
    BY <1>1 DEF AnnInv, Halfway
  <1>3. CASE ReadBegins \/ ReadTimesOut \/ ReadBug \/ ReadEnds \/ ReadNoMem
    <2>1. UNCHANGED <<head, tail, ring>>
      BY <1>3 DEF ReadBegins, ReadTimesOut, ReadBug, ReadEnds, ReadNoMem
    <2>2. Chained'
      BY <2>1 DEF AnnInv, Chained, Advanced
    <2>3. Announced'
      BY <1>3, <2>1 DEF ReadBegins, ReadTimesOut, ReadBug, ReadEnds, ReadNoMem, Announced
    <2> QED
      BY <1>2, <2>2, <2>3 DEF AnnInv
  <1>4. CASE ReadLast \/ ReadFrag
    <2>1. /\ ring # <<>> /\ ring' = Tail(ring) /\ tail' = Advanced(tail, Head(ring).size)
          /\ head' = head /\ pc' = "reading"
      BY <1>4 DEF ReadLast, ReadFrag, Taken
    <2>2. Chained'
      BY <2>1, ChainShrinks DEF LongInv, AnnInv
    <2> QED
      BY <1>2, <2>1, <2>2 DEF AnnInv, Announced
  <1>5. CASE BadMessage
    <2>1. ring' = <<>> /\ head' = tail' /\ head' \in Int
      BY <1>5 DEF BadMessage, LongInv, FmtTypes
    <2> QED
      BY <1>2, <2>1, ChainEmpty DEF AnnInv, Announced
  <1> QED
    BY <1>3, <1>4, <1>5 DEF Read

LEMMA AnnReset ==
  ASSUME LongInv, AnnInv, Purge \/ WriterReopens \/ ReaderReopens
  PROVE  AnnInv'
  <1>1. CASE Purge
    <2>1. /\ UNCHANGED <<fi, head, tail, ring, pc, mask, mailed, stalled>>
          /\ torn' = (torn \/ fi.offset > 0)
      BY <1>1 DEF Purge, Resets
    <2>2. Chained'
      BY <2>1 DEF AnnInv, Chained, Advanced
    <2> QED
      BY <2>1, <2>2 DEF AnnInv, Halfway, Announced, Oversized
  <1>2. CASE WriterReopens
    <2>1. ring' = <<>> /\ head' = tail' /\ head' \in Int /\ fi'.offset = 0
      BY <1>2 DEF WriterReopens
    <2> QED
      BY <2>1, ChainEmpty DEF AnnInv, Announced, Halfway
  <1>3. CASE ReaderReopens
    <2>1. /\ ring' = <<>> /\ head' = tail' /\ head' \in Int
          /\ UNCHANGED <<txq, fi>> /\ torn' = (torn \/ fi.offset > 0)
      BY <1>3 DEF ReaderReopens, Resets, writer
    <2>2. Halfway'
      BY <2>1 DEF AnnInv, Halfway
    <2> QED
      BY <2>1, <2>2, ChainEmpty DEF AnnInv, Announced
  <1> QED
    BY <1>1, <1>2, <1>3

LEMMA AnnAlways == Spec => []AnnInv
  <1>1. Init => AnnInv
    <2> SUFFICES ASSUME Init PROVE AnnInv
      OBVIOUS
    <2>1. Chained
      <3> DEFINE q == [i \in 0 .. 0 |-> 0]
      <3>1. q \in [0 .. Len(ring) -> Int] /\ q[0] = tail /\ q[Len(ring)] = head
        BY DEF Init
      <3> HIDE DEF q
      <3> QED
        BY <3>1 DEF Init, Chained
    <2> QED
      BY <2>1 DEF Init, AnnInv, Halfway, Announced
  <1>2. LongInv /\ AnnInv /\ [Next]_vars => AnnInv'
    <2> SUFFICES ASSUME LongInv, AnnInv, [Next]_vars PROVE AnnInv'
      OBVIOUS
    <2>1. CASE UNCHANGED vars
      BY <2>1 DEF vars, AnnInv, Chained, Halfway, Announced, Oversized, Advanced, Fits
    <2>2. CASE Next
      BY <2>2, AnnFrame, AnnWrite, AnnRead, AnnReset DEF Next, Write
    <2> QED
      BY <2>1, <2>2
  <1> QED
    BY <1>1, <1>2, LongAlways, PTL DEF Spec

\* No frame lies in the ring unannounced once sipc_write has ended, though it
\* announces only packets it has written to their end: a packet that fits is cut
\* only behind frames that were announced. Exceptions: a packet too long for an
\* empty ring, a reader that failed, a packet torn by a reset.
THEOREM RingAlwaysAnnounced == Spec => []RingAnnounced
  <1>1. AnnInv => RingAnnounced
    BY DEF AnnInv, Announced, Oversized, RingAnnounced
  <1> QED
    BY <1>1, AnnAlways, PTL
-----------------------------------------------------------------------------
(* The indices and the frames. *)

Sizes(r) == [i \in DOMAIN r |-> r[i].size]

LEMMA SizesAre ==
  ASSUME NEW r \in Seq(Frame)
  PROVE  /\ Sizes(r) \in Seq(Int) /\ Len(Sizes(r)) = Len(r)
         /\ \A i \in 1 .. Len(r) : Sizes(r)[i] = r[i].size
  <1>1. Len(r) \in Nat /\ DOMAIN r = 1 .. Len(r) /\ \A i \in 1 .. Len(r) : r[i] \in Frame
    OBVIOUS
  <1>2. Sizes(r) \in [1 .. Len(r) -> Int]
    BY <1>1 DEF Sizes, Frame
  <1>3. \A i \in 1 .. Len(r) : Sizes(r)[i] = r[i].size
    BY <1>1 DEF Sizes
  <1> HIDE DEF Sizes
  <1> QED
    BY <1>1, <1>2, <1>3, FunctionIsSeq

LEMMA SizesAppend ==
  ASSUME NEW r \in Seq(Frame), NEW f \in Frame
  PROVE  /\ Sizes(r) \in Seq(Int)
         /\ Sizes(Append(r, f)) = Append(Sizes(r), f.size)
  <1>1. Sizes(r) \in Seq(Int) /\ Len(Sizes(r)) = Len(r) /\ Len(r) \in Nat /\ f.size \in Int
    BY SizesAre DEF Frame
  <1>2. Len(Append(r, f)) = Len(r) + 1 /\ Append(r, f) \in Seq(Frame)
    OBVIOUS
  <1>3. Sizes(Append(r, f)) \in Seq(Int) /\ Len(Sizes(Append(r, f))) = Len(r) + 1
    BY <1>1, <1>2, SizesAre
  <1>4. ASSUME NEW i \in 1 .. Len(r) + 1
        PROVE  Sizes(Append(r, f))[i] = Append(Sizes(r), f.size)[i]
    BY <1>1, <1>2 DEF Sizes
  <1>5. Append(Sizes(r), f.size) \in Seq(Int) /\ Len(Append(Sizes(r), f.size)) = Len(r) + 1
    BY <1>1
  <1> HIDE DEF Sizes
  <1> QED
    BY <1>1, <1>3, <1>4, <1>5, SeqEqual

LEMMA SizesTail ==
  ASSUME NEW r \in Seq(Frame), r # <<>>
  PROVE  /\ Sizes(r) \in Seq(Int) /\ Sizes(r) # <<>>
         /\ Sizes(r)[1] = Head(r).size
         /\ Sizes(Tail(r)) = Tail(Sizes(r))
  <1>1. /\ Sizes(r) \in Seq(Int) /\ Len(Sizes(r)) = Len(r) /\ Len(r) \in Nat /\ Len(r) > 0
        /\ Sizes(r)[1] = Head(r).size
    <2>1. Len(r) \in Nat /\ Len(r) > 0 /\ Head(r) = r[1] /\ 1 \in 1 .. Len(r)
      OBVIOUS
    <2> QED
      BY <2>1, SizesAre
  <1>2. Sizes(r) # <<>>
    BY <1>1
  <1>3. Tail(r) \in Seq(Frame) /\ Len(Tail(r)) = Len(r) - 1
    OBVIOUS
  <1>4. Sizes(Tail(r)) \in Seq(Int) /\ Len(Sizes(Tail(r))) = Len(r) - 1
    BY <1>3, SizesAre
  <1>5. ASSUME NEW i \in 1 .. Len(r) - 1 PROVE Sizes(Tail(r))[i] = Tail(Sizes(r))[i]
    <2>1. Sizes(Tail(r))[i] = r[i + 1].size
      BY <1>1, <1>3 DEF Sizes
    <2>2. Tail(Sizes(r))[i] = Sizes(r)[i + 1] /\ i + 1 \in 1 .. Len(r)
      BY <1>1, <1>2
    <2> QED
      BY <2>1, <2>2 DEF Sizes
  <1>6. Tail(Sizes(r)) \in Seq(Int) /\ Len(Tail(Sizes(r))) = Len(r) - 1
    BY <1>1, <1>2
  <1> QED
    BY <1>1, <1>2, <1>4, <1>5, <1>6, SeqEqual

\* RingAgrees with the ranges of the indices.
RingInv == /\ head \in Index
           /\ tail \in Index
           /\ \A i \in DOMAIN ring : ring[i].size \in Nat
           /\ RingAgrees

LEMMA RingFrame ==
  ASSUME LongInv, RingInv, WriteFrame
  PROVE  RingInv'
  <1> DEFINE n == Written(Carries + Ovh)
             more == Remain > Space
             f == [id |-> Id(more), more |-> more, no |-> Head(txq).no, from |-> Sent,
                   to |-> Sent + Carries, size |-> n]
  <1>1. /\ ring' = Append(ring, f) /\ head' = Advanced(head, n) /\ tail' = tail
    BY DEF WriteFrame
  <1>2. ring \in Seq(Frame)
    BY DEF LongInv, FmtTypes
  <1>3. n \in Nat /\ n = Carries + Ovh /\ n <= CIRC_SPACE(head, tail)
    <2>1. Space = CIRC_SPACE(head, tail) - Ovh /\ CIRC_SPACE(head, tail) \in Int
      BY SpaceIsInt DEF Space, LongInv
    <2> QED
      BY <2>1, FrameFacts
  <1>4. f \in Frame
    <2>1. more \in BOOLEAN /\ Id(more) \in {0, 1}
      BY FrameFacts DEF Id
    <2> QED
      BY <1>3, <2>1, FrameFacts DEF Frame, Packet
  <1>5. f.size = n /\ Bytes(f) = Carries
    BY FrameFacts DEF Bytes
  <1> HIDE DEF f, n
  <1>6. head' \in Index /\ CIRC_CNT(head', tail') = CIRC_CNT(head, tail) + n
    BY <1>1, <1>3, CountGrows DEF RingInv
  <1>7. Total(Sizes(ring')) = Total(Sizes(ring)) + n
    <2>1. /\ Sizes(ring) \in Seq(Int) /\ n \in Int
          /\ Sizes(ring') = Append(Sizes(ring), n)
      BY <1>1, <1>2, <1>3, <1>4, <1>5, SizesAppend
    <2> QED
      BY <2>1, TotalAppend
  <1>8. ASSUME NEW i \in DOMAIN ring'
        PROVE  ring'[i].size \in Nat /\ ring'[i].size = Bytes(ring'[i]) + Ovh
    <2>1. (i \in DOMAIN ring /\ ring'[i] = ring[i]) \/ ring'[i] = f
      BY <1>1, <1>2, <1>4, AppendKeeps
    <2> QED
      BY <1>3, <1>5, <2>1 DEF RingInv, RingAgrees
  <1> QED
    BY <1>1, <1>6, <1>7, <1>8 DEF RingInv, RingAgrees, Sizes, Bytes

LEMMA RingTaken ==
  ASSUME LongInv, RingInv, ReadLast \/ ReadFrag
  PROVE  RingInv'
  <1>1. /\ ring # <<>> /\ ring' = Tail(ring) /\ tail' = Advanced(tail, Head(ring).size)
        /\ head' = head
    BY DEF ReadLast, ReadFrag, Taken
  <1>2. ring \in Seq(Frame)
    BY DEF LongInv, FmtTypes
  <1>3. /\ Head(ring) = ring[1] /\ 1 \in DOMAIN ring
        /\ \A i \in DOMAIN ring' : i + 1 \in DOMAIN ring /\ ring'[i] = ring[i + 1]
        /\ ring' \in Seq(Frame)
    BY <1>1, <1>2, TailKeeps
  <1>4. \A i \in DOMAIN ring' : ring'[i].size \in Nat /\ ring'[i].size = Bytes(ring'[i]) + Ovh
    BY <1>3 DEF RingInv, RingAgrees
  <1>5. Sizes(ring') \in Seq(Nat)
    <2>1. ring' \in Seq(Frame) /\ DOMAIN ring' = 1 .. Len(ring') /\ Len(ring') \in Nat
      BY <1>3
    <2> QED
      BY <1>4, <2>1 DEF Sizes
  <1>6. Total(Sizes(ring)) = Head(ring).size + Total(Sizes(ring'))
    BY <1>1, <1>2, SizesTail, TotalTail
  <1>7. Total(Sizes(ring')) \in Nat /\ Head(ring).size \in Nat
    BY <1>3, <1>5, TotalNat DEF RingInv
  <1>8. CIRC_CNT(head, tail) = Total(Sizes(ring))
    BY DEF RingInv, RingAgrees, Sizes
  <1>9. /\ tail' \in Index
        /\ CIRC_CNT(head', tail') = CIRC_CNT(head, tail) - Head(ring).size
    BY <1>1, <1>6, <1>7, <1>8, CountShrinks DEF RingInv
  <1>10. CIRC_CNT(head', tail') = Total(Sizes(ring'))
    BY <1>6, <1>7, <1>8, <1>9
  <1> QED
    BY <1>1, <1>4, <1>9, <1>10 DEF RingInv, RingAgrees, Sizes, Bytes

\* The ring is emptied.
LEMMA RingEmptied ==
  ASSUME ring' = <<>>, head' = tail', tail' \in Index
  PROVE  RingInv'
  <1>1. CIRC_CNT(head', tail') = 0
    BY CountFacts DEF Index
  <1>2. Sizes(ring') = <<>>
    BY DEF Sizes
  <1>3. CIRC_CNT(head', tail') = Total(Sizes(ring'))
    BY <1>1, <1>2, TotalEmpty
  <1> QED
    BY <1>3 DEF RingInv, RingAgrees, Sizes

LEMMA RingInvAlways == Spec => []RingInv
  <1>1. Init => RingInv
    <2> SUFFICES ASSUME Init PROVE RingInv
      OBVIOUS
    <2>1. head \in Index /\ tail \in Index /\ CIRC_CNT(head, tail) = 0
      <3>1. 0 \in Index
        BY FmtAssumption DEF Index
      <3> QED
        BY <3>1, CountFacts DEF Init
    <2>2. Sizes(ring) = <<>>
      BY DEF Init, Sizes
    <2>3. CIRC_CNT(head, tail) = Total(Sizes(ring))
      BY <2>1, <2>2, TotalEmpty
    <2> QED
      BY <2>1, <2>3 DEF Init, RingInv, RingAgrees, Sizes
  <1>2. LongInv /\ RingInv /\ [Next]_vars => RingInv'
    <2> SUFFICES ASSUME LongInv, RingInv, [Next]_vars PROVE RingInv'
      OBVIOUS
    <2>1. CASE UNCHANGED <<head, tail, ring>>
      BY <2>1 DEF RingInv, RingAgrees, Bytes, CIRC_CNT
    <2>2. CASE BadMessage \/ WriterReopens \/ ReaderReopens
      <3>1. 0 \in Index
        BY FmtAssumption DEF Index
      <3>2. ring' = <<>> /\ head' = tail' /\ tail' \in Index
        BY <2>2, <3>1 DEF BadMessage, WriterReopens, ReaderReopens, RingInv
      <3> QED
        BY <3>2, RingEmptied
    <2>3. CASE WriteFrame \/ ReadLast \/ ReadFrag
      BY <2>3, RingFrame, RingTaken
    <2>4. \/ UNCHANGED <<head, tail, ring>>
          \/ BadMessage \/ WriterReopens \/ ReaderReopens
          \/ WriteFrame \/ ReadLast \/ ReadFrag
      BY DEF Next, vars, Write, Read, Xmit, WriteBegins, WriteTimesOut, WriteNothing,
             WriteEnds, ReadBegins, ReadTimesOut, ReadBug, ReadEnds, ReadNoMem, Purge
    <2> QED
      BY <2>1, <2>2, <2>3, <2>4
  <1> QED
    BY <1>1, <1>2, LongAlways, PTL DEF Spec

\* What lies between the two indices is whole frames and no more, however often
\* they have gone round the buffer: __write never overtakes the reader, and
\* __read never meets a broken frame.
THEOREM RingAlwaysAgrees == Spec => []RingAgrees
  <1>1. RingInv => RingAgrees
    BY DEF RingInv
  <1> QED
    BY <1>1, RingInvAlways, PTL
-----------------------------------------------------------------------------
(* Types, and the blocks of the reader. *)

\* TypeOK without the flags.
DataOK == /\ sent \in Seq(Lens)
          /\ txq \in Seq([skb : Addrs, no : 1 .. MaxPackets, len : Lens])
          /\ fi \in [skb : Addrs \cup {NULL}, offset : Nat]
          /\ ring \in Seq(Frames)
          /\ frags \in [{0, 1} -> Seq(Seq(Pieces))]
          /\ up \in Seq(Seq(Pieces))
          /\ pc \in {"idle", "writing", "reading", "bug"}
          /\ left \in [nomem : Nat, reset : Nat]

FlagsOK == {queued, mask, mailed, stalled, torn} \subseteq BOOLEAN

LEMMA DataXmit ==
  ASSUME DataOK, NEW n \in Lens, NEW a \in Addrs, Xmit(n, a)
  PROVE  DataOK'
  <1> DEFINE p == [skb |-> a, no |-> Len(sent) + 1, len |-> n]
  <1>1. sent' = Append(sent, n) /\ txq' = Append(txq, p)
    BY DEF Xmit
  <1>2. p \in [skb : Addrs, no : 1 .. MaxPackets, len : Lens]
    <2>1. Len(sent) + 1 \in 1 .. MaxPackets
      BY FmtAssumption DEF Xmit, DataOK
    <2> QED
      BY <2>1
  <1> HIDE DEF p
  <1>3. sent' \in Seq(Lens) /\ txq' \in Seq([skb : Addrs, no : 1 .. MaxPackets, len : Lens])
    BY <1>1, <1>2 DEF DataOK
  <1> QED
    BY <1>3 DEF DataOK, Xmit, reader

LEMMA DataFrame ==
  ASSUME LongInv, DataOK, WriteFrame
  PROVE  DataOK'
  <1> DEFINE h == Head(txq)
             more == Remain > Space
             n    == Written(Carries + Ovh)
             f    == [id |-> Id(more), more |-> more, no |-> h.no, from |-> Sent,
                      to |-> Sent + Carries, size |-> n]
  <1>1. /\ txq # <<>> /\ ring' = Append(ring, f)
        /\ UNCHANGED <<sent, frags, up, pc, left>>
    BY DEF WriteFrame, ghosts, reader
  <1>2. /\ h \in [skb : Addrs, no : 1 .. MaxPackets, len : Lens]
        /\ Tail(txq) \in Seq([skb : Addrs, no : 1 .. MaxPackets, len : Lens])
    BY <1>1, TailKeeps DEF DataOK
  <1>3. more \in BOOLEAN /\ Id(more) \in {0, 1}
    BY FrameFacts DEF Id
  <1>4. Sent \in Nat /\ Sent + Carries \in Nat /\ n \in Nat /\ Sent + n - Ovh \in Nat
    BY FrameFacts
  <1>5. f \in Frames
    BY <1>2, <1>3, <1>4 DEF Frames
  <1>6. fi' \in [skb : Addrs \cup {NULL}, offset : Nat]
    BY <1>2, <1>4 DEF WriteFrame
  <1>7. txq' \in Seq([skb : Addrs, no : 1 .. MaxPackets, len : Lens])
    BY <1>2 DEF WriteFrame, DataOK
  <1> HIDE DEF f
  <1>8. ring' \in Seq(Frames)
    BY <1>1, <1>5 DEF DataOK
  <1> QED
    BY <1>1, <1>6, <1>7, <1>8 DEF DataOK

LEMMA DataWrite ==
  ASSUME DataOK, WriteBegins \/ WriteTimesOut \/ WriteNothing \/ WriteEnds
  PROVE  DataOK'
  <1>1. CASE WriteBegins \/ WriteTimesOut
    BY <1>1 DEF WriteBegins, WriteTimesOut, DataOK, writer, reader, ghosts
  <1>2. txq # <<>> => /\ Head(txq).skb \in Addrs
                      /\ Tail(txq) \in Seq([skb : Addrs, no : 1 .. MaxPackets, len : Lens])
    <2> DEFINE P == [skb : Addrs, no : 1 .. MaxPackets, len : Lens]
    <2>1. txq # <<>> => Head(txq) \in P /\ Tail(txq) \in Seq(P)
      <3> HIDE DEF P
      <3> QED
        BY TailKeeps DEF DataOK, P
    <2> QED
      BY <2>1
  <1>3. Sent \in Nat
    BY DEF Sent, DataOK
  <1>4. CASE WriteNothing
    BY <1>2, <1>3, <1>4 DEF WriteNothing, DataOK, reader, ghosts
  <1>5. CASE WriteEnds
    BY <1>2, <1>3, <1>5 DEF WriteEnds, DataOK, reader, ghosts
  <1> QED
    BY <1>1, <1>4, <1>5

\* What the reader takes out of a frame.
LEMMA PieceFacts ==
  ASSUME DataOK, ring # <<>>
  PROVE  /\ Head(ring) \in Frames
         /\ Head(ring).id \in {0, 1}
         /\ Piece(Head(ring)) \in Pieces
         /\ Bytes(Head(ring)) \in Int
         /\ Bytes(Piece(Head(ring))) = Bytes(Head(ring))
         /\ Tail(ring) \in Seq(Frames)
         /\ frags[Head(ring).id] \in Seq(Seq(Pieces))
  <1>1. Head(ring) \in Frames /\ Tail(ring) \in Seq(Frames)
    BY TailKeeps DEF DataOK
  <1>2. /\ Head(ring).id \in {0, 1} /\ Head(ring).no \in 1 .. MaxPackets
        /\ Head(ring).from \in Nat /\ Head(ring).to \in Nat
    BY <1>1 DEF Frames
  <1> QED
    BY <1>1, <1>2 DEF Piece, Pieces, Bytes, DataOK

\* The list of a frame's id with the frame's piece.
Extended(bs, f) == IF NeedsBlock(bs, f)
                   THEN Append(bs, <<Piece(f)>>)
                   ELSE Append(Front(bs), Append(Last(bs), Piece(f)))

LEMMA ExtendedFacts ==
  ASSUME NEW bs \in Seq(Seq(Pieces)), NEW f, Piece(f) \in Pieces
  PROVE  /\ Extended(bs, f) \in Seq(Seq(Pieces))
         /\ FlattenSeq(Extended(bs, f)) = Append(FlattenSeq(bs), Piece(f))
  <1> DEFINE p == Piece(f)
  <1>1. <<p>> \in Seq(Pieces)
    OBVIOUS
  <1> HIDE DEF p
  <1>2. CASE NeedsBlock(bs, f)
    <2>1. Append(bs, <<p>>) \in Seq(Seq(Pieces))
      BY <1>1
    <2>2. FlattenSeq(Append(bs, <<p>>)) = FlattenSeq(bs) \o <<p>>
      BY <1>1, FlattenAppend
    <2>3. FlattenSeq(bs) \o <<p>> = Append(FlattenSeq(bs), p)
      BY <1>1, FlattenType DEF p
    <2> QED
      BY <1>2, <2>1, <2>2, <2>3 DEF Extended, p
  <1>3. CASE ~NeedsBlock(bs, f)
    <2>1. bs # <<>>
      BY <1>3 DEF NeedsBlock
    <2>2. Front(bs) \in Seq(Seq(Pieces)) /\ Last(bs) \in Seq(Pieces)
      BY <2>1 DEF Front, Last
    <2>3. Append(Last(bs), p) \in Seq(Pieces)
      BY <2>2 DEF p
    <2>4. Append(Front(bs), Append(Last(bs), p)) \in Seq(Seq(Pieces))
      BY <2>2, <2>3
    <2>5. FlattenSeq(Append(Front(bs), Append(Last(bs), p))) = Append(FlattenSeq(bs), p)
      BY <2>1, FlattenGrow DEF p
    <2> QED
      BY <1>3, <2>4, <2>5 DEF Extended, p
  <1> QED
    BY <1>2, <1>3

LEMMA DataRead ==
  ASSUME DataOK, ReadBegins \/ ReadTimesOut \/ Read \/ ReadNoMem \/ BadMessage
  PROVE  DataOK'
  <1>1. CASE ReadBegins \/ ReadTimesOut \/ ReadBug \/ ReadEnds
    BY <1>1 DEF ReadBegins, ReadTimesOut, ReadBug, ReadEnds, DataOK, writer, reader, ghosts
  <1>2. CASE ReadNoMem
    <2>1. left' \in [nomem : Nat, reset : Nat]
      <3>1. left \in [nomem : Nat, reset : Nat] /\ left.nomem > 0
        BY <1>2 DEF ReadNoMem, DataOK
      <3>2. left.nomem - 1 \in Nat
        BY <3>1
      <3>3. left' = [left EXCEPT !.nomem = left.nomem - 1]
        BY <1>2 DEF ReadNoMem
      <3> QED
        BY <3>1, <3>2, <3>3
    <2> QED
      BY <1>2, <2>1 DEF ReadNoMem, DataOK, writer, reader, ghosts
  <1>3. CASE ReadLast
    <2> DEFINE h == Head(ring)
               u == Append(FlattenSeq(frags[h.id]), Piece(h))
    <2>1. /\ ring # <<>> /\ up' = Append(up, u) /\ frags' = [frags EXCEPT ![h.id] = <<>>]
          /\ ring' = Tail(ring)
          /\ UNCHANGED <<sent, txq, fi, pc, left>>
      BY <1>3 DEF ReadLast, Destroyed, Taken, writer, ghosts
    <2>2. u \in Seq(Pieces)
      BY <2>1, PieceFacts, FlattenType
    <2>3. frags' \in [{0, 1} -> Seq(Seq(Pieces))]
      BY <2>1, PieceFacts DEF DataOK
    <2>4. ring' \in Seq(Frames)
      BY <2>1, PieceFacts
    <2> HIDE DEF u
    <2>5. up' \in Seq(Seq(Pieces))
      BY <2>1, <2>2 DEF DataOK
    <2> QED
      BY <2>1, <2>3, <2>4, <2>5 DEF DataOK
  <1>4. CASE ReadFrag
    <2> DEFINE h == Head(ring)
    <2>1. /\ ring # <<>> /\ frags' = [frags EXCEPT ![h.id] = Extended(frags[h.id], h)]
          /\ ring' = Tail(ring)
          /\ UNCHANGED <<sent, txq, fi, up, pc, left>>
      BY <1>4 DEF ReadFrag, Extended, Taken, writer, ghosts
    <2>2. Extended(frags[h.id], h) \in Seq(Seq(Pieces))
      BY <2>1, PieceFacts, ExtendedFacts
    <2>3. frags' \in [{0, 1} -> Seq(Seq(Pieces))]
      BY <2>1, <2>2 DEF DataOK
    <2>4. ring' \in Seq(Frames)
      BY <2>1, PieceFacts
    <2> QED
      BY <2>1, <2>3, <2>4 DEF DataOK
  <1>5. CASE BadMessage
    <2>1. frags' \in [{0, 1} -> Seq(Seq(Pieces))]
      <3>1. frags \in [{0, 1} -> Seq(Seq(Pieces))] /\ Head(ring).id \in {0, 1}
        BY <1>5, PieceFacts DEF BadMessage, DataOK
      <3>2. Destroyed(Head(ring)) \in [{0, 1} -> Seq(Seq(Pieces))]
        BY <3>1 DEF Destroyed
      <3>3. frags' = frags \/ frags' = Destroyed(Head(ring))
        BY <1>5 DEF BadMessage
      <3> QED
        BY <3>1, <3>2, <3>3
    <2>2. left' \in [nomem : Nat, reset : Nat]
      <3>1. left \in [nomem : Nat, reset : Nat] /\ left.reset > 0
        BY <1>5 DEF BadMessage, Resets, DataOK
      <3>2. left.reset - 1 \in Nat
        BY <3>1
      <3>3. left' = [left EXCEPT !.reset = left.reset - 1]
        BY <1>5 DEF BadMessage, Resets
      <3> QED
        BY <3>1, <3>2, <3>3
    <2>3. UNCHANGED <<sent, txq, fi, up>> /\ ring' = <<>> /\ pc' = "idle"
      BY <1>5 DEF BadMessage, writer
    <2> QED
      BY <2>1, <2>2, <2>3 DEF DataOK
  <1> QED
    BY <1>1, <1>2, <1>3, <1>4, <1>5 DEF Read

LEMMA DataReset ==
  ASSUME DataOK, Purge \/ WriterReopens \/ ReaderReopens
  PROVE  DataOK'
  <1>1. left' \in [nomem : Nat, reset : Nat]
    BY DEF Purge, WriterReopens, ReaderReopens, Resets, DataOK
  <1>2. CASE Purge
    BY <1>1, <1>2 DEF Purge, DataOK, reader
  <1>3. CASE WriterReopens
    BY <1>1, <1>3 DEF WriterReopens, DataOK, reader
  <1>4. CASE ReaderReopens
    BY <1>1, <1>4 DEF ReaderReopens, DataOK, writer
  <1> QED
    BY <1>2, <1>3, <1>4

LEMMA FlagsStep ==
  ASSUME FlagsOK, Next
  PROVE  FlagsOK'
  <1> USE DEF FlagsOK
  <1>1. CASE \E n \in Lens, a \in Addrs : Xmit(n, a)
    BY <1>1, Zenon DEF Xmit
  <1>2. CASE WriteBegins \/ WriteTimesOut \/ WriteNothing \/ WriteEnds
    BY <1>2, Zenon DEF WriteBegins, WriteTimesOut, WriteNothing, WriteEnds, ghosts
  <1>3. CASE WriteFrame
    <2>1. mask' \in BOOLEAN
      BY <1>3, Zenon DEF WriteFrame, MaskSet
    <2> QED
      BY <1>3, <2>1, Zenon DEF WriteFrame, ghosts
  <1>4. CASE ReadBegins \/ ReadTimesOut \/ ReadNoMem \/ ReadLast \/ ReadFrag \/ ReadBug
             \/ ReadEnds
    BY <1>4, Zenon DEF ReadBegins, ReadTimesOut, ReadNoMem, ReadLast, ReadFrag, ReadBug, ReadEnds,
                       ghosts
  <1>5. CASE BadMessage \/ Purge \/ WriterReopens \/ ReaderReopens
    BY <1>5, Zenon DEF BadMessage, Purge, WriterReopens, ReaderReopens, Resets
  <1> QED
    BY <1>1, <1>2, <1>3, <1>4, <1>5 DEF Next, Write, Read

LEMMA DataAlways == Spec => []DataOK
  <1>1. Init => DataOK
    BY FmtAssumption DEF Init, DataOK
  <1>2. LongInv /\ DataOK /\ [Next]_vars => DataOK'
    <2> SUFFICES ASSUME LongInv, DataOK, [Next]_vars PROVE DataOK'
      OBVIOUS
    <2>1. CASE UNCHANGED vars
      BY <2>1 DEF vars, DataOK
    <2>2. CASE Next
      BY <2>2, DataXmit, DataFrame, DataWrite, DataRead, DataReset DEF Next, Write
    <2> QED
      BY <2>1, <2>2
  <1> QED
    BY <1>1, <1>2, LongAlways, PTL DEF Spec

\* Every variable of the ring, its writer and its reader keeps its type; the
\* indices stay in the buffer.
THEOREM TypeCorrect == Spec => []TypeOK
  <1>1. Init => FlagsOK
    BY Zenon DEF Init, FlagsOK
  <1>2. FlagsOK /\ [Next]_vars => FlagsOK'
    <2>1. FlagsOK /\ UNCHANGED vars => FlagsOK'
      BY Zenon DEF FlagsOK, vars
    <2> QED
      BY <2>1, FlagsStep
  <1>3. DataOK /\ RingInv /\ FlagsOK => TypeOK
    BY DEF DataOK, RingInv, FlagsOK, TypeOK, Index
  <1> QED
    BY <1>1, <1>2, <1>3, DataAlways, RingInvAlways, PTL DEF Spec

\* A piece more, its bytes more.
LEMMA BlockLenAppend ==
  ASSUME NEW b \in Seq(Pieces), NEW p \in Pieces
  PROVE  /\ BlockLen(b) \in Int
         /\ BlockLen(Append(b, p)) = BlockLen(b) + Bytes(p)
  <1> DEFINE m(c) == [i \in DOMAIN c |-> Bytes(c[i])]
  <1>1. ASSUME NEW c \in Seq(Pieces)
        PROVE  /\ m(c) \in Seq(Int) /\ Len(m(c)) = Len(c)
               /\ \A i \in 1 .. Len(c) : m(c)[i] = Bytes(c[i])
    <2>1. Len(c) \in Nat /\ DOMAIN c = 1 .. Len(c) /\ \A i \in 1 .. Len(c) : c[i] \in Pieces
      OBVIOUS
    <2>2. \A i \in 1 .. Len(c) : Bytes(c[i]) \in Int
      BY <2>1 DEF Pieces, Bytes
    <2>3. m(c) \in [1 .. Len(c) -> Int] /\ \A i \in 1 .. Len(c) : m(c)[i] = Bytes(c[i])
      BY <2>1, <2>2
    <2> HIDE DEF m
    <2> QED
      BY <2>1, <2>3, FunctionIsSeq
  <1>2. Bytes(p) \in Int
    BY DEF Pieces, Bytes
  <1>3. Append(b, p) \in Seq(Pieces) /\ Len(Append(b, p)) = Len(b) + 1 /\ Len(b) \in Nat
    OBVIOUS
  <1>4. m(Append(b, p)) = Append(m(b), Bytes(p))
    <2> HIDE DEF m
    <2>1. Append(m(b), Bytes(p)) \in Seq(Int) /\ Len(Append(m(b), Bytes(p))) = Len(b) + 1
      BY <1>1, <1>2, <1>3
    <2>2. ASSUME NEW i \in 1 .. Len(b) + 1 PROVE m(Append(b, p))[i] = Append(m(b), Bytes(p))[i]
      <3>1. m(Append(b, p))[i] = Bytes(Append(b, p)[i])
        BY <1>1, <1>3
      <3>2. CASE i = Len(b) + 1
        BY <1>1, <1>2, <3>1, <3>2
      <3>3. CASE i \in 1 .. Len(b)
        BY <1>1, <1>2, <3>1, <3>3
      <3>4. i = Len(b) + 1 \/ i \in 1 .. Len(b)
        BY <1>3
      <3> QED
        BY <3>2, <3>3, <3>4, Zenon
    <2> QED
      BY <1>1, <1>3, <2>1, <2>2, SeqEqual
  <1>5. Total(m(b)) \in Int /\ Total(m(Append(b, p))) = Total(m(b)) + Bytes(p)
    <2> HIDE DEF m
    <2> QED
      BY <1>1, <1>2, <1>4, TotalAppend
  <1> QED
    BY <1>5 DEF BlockLen

LEMMA ExtendedFits ==
  ASSUME NEW bs \in Seq(Seq(Pieces)), NEW f, Piece(f) \in Pieces, Bytes(f) \in Int,
         Bytes(Piece(f)) = Bytes(f), ~TooLong(f),
         \A i \in DOMAIN bs : BlockLen(bs[i]) + 1 <= BlockMax
  PROVE  \A i \in DOMAIN Extended(bs, f) : BlockLen(Extended(bs, f)[i]) + 1 <= BlockMax
  <1> DEFINE p == Piece(f)
  <1>0. BlockMax \in Nat
    BY FmtAssumption
  <1>1. BlockLen(<<p>>) = Bytes(f)
    <2>1. <<>> \in Seq(Pieces) /\ Append(<<>>, p) = <<p>>
      OBVIOUS
    <2>2. BlockLen(<<>>) = 0
      <3>1. [i \in DOMAIN <<>> |-> Bytes(<<>>[i])] = <<>>
        OBVIOUS
      <3> QED
        BY <3>1, TotalEmpty DEF BlockLen
    <2>3. BlockLen(Append(<<>>, p)) = BlockLen(<<>>) + Bytes(p)
      BY <2>1, BlockLenAppend
    <2> HIDE DEF p
    <2> QED
      BY <2>1, <2>2, <2>3 DEF p
  <1>2. CASE NeedsBlock(bs, f)
    <2>1. Extended(bs, f) = Append(bs, <<p>>) /\ <<p>> \in Seq(Pieces)
      BY <1>2 DEF Extended
    <2>2. BlockLen(<<p>>) + 1 <= BlockMax
      BY <1>0, <1>1 DEF TooLong
    <2> HIDE DEF p
    <2> QED
      BY <2>1, <2>2, AppendKeeps
  <1>3. CASE ~NeedsBlock(bs, f)
    <2> DEFINE a == Front(bs)
               b == Append(Last(bs), p)
    <2>1. Extended(bs, f) = Append(a, b) /\ bs # <<>>
      BY <1>3 DEF Extended, NeedsBlock
    <2>2. /\ a \in Seq(Seq(Pieces)) /\ Last(bs) \in Seq(Pieces)
          /\ \A i \in DOMAIN a : i \in DOMAIN bs /\ a[i] = bs[i]
      BY <2>1 DEF Front, Last
    <2>3. /\ b \in Seq(Pieces)
          /\ BlockLen(b) = BlockLen(Last(bs)) + Bytes(f) /\ BlockLen(Last(bs)) \in Int
      BY <2>2, BlockLenAppend
    <2>4. BlockLen(b) + 1 <= BlockMax
      BY <1>0, <1>3, <2>1, <2>3 DEF NeedsBlock
    <2> HIDE DEF a, b
    <2> QED
      BY <2>1, <2>2, <2>3, <2>4, AppendKeeps
  <1> QED
    BY <1>2, <1>3

\* No block of the reader is overrun: the data of its frames and the end byte
\* that __read puts behind them fit.
THEOREM BlocksAlwaysFit == Spec => []BlocksFit
  <1>1. Init => BlocksFit
    BY DEF Init, BlocksFit
  <1>2. DataOK /\ BlocksFit /\ [Next]_vars => BlocksFit'
    <2> SUFFICES ASSUME DataOK, BlocksFit, [Next]_vars PROVE BlocksFit'
      OBVIOUS
    <2>1. CASE frags' = frags
      BY <2>1 DEF BlocksFit
    <2>2. CASE ReadFrag
      <3> DEFINE h == Head(ring)
      <3>1. /\ ring # <<>> /\ frags' = [frags EXCEPT ![h.id] = Extended(frags[h.id], h)]
            /\ ~TooLong(h)
        BY <2>2 DEF ReadFrag, Extended
      <3>2. \A i \in DOMAIN Extended(frags[h.id], h) :
                BlockLen(Extended(frags[h.id], h)[i]) + 1 <= BlockMax
        BY <3>1, PieceFacts, ExtendedFits DEF BlocksFit, DataOK
      <3> QED
        BY <3>1, <3>2, PieceFacts DEF BlocksFit, DataOK
    <2>3. CASE ReadLast \/ BadMessage \/ ReaderReopens
      <3>1. /\ DOMAIN frags' = DOMAIN frags
            /\ \A id \in DOMAIN frags : frags'[id] \in {frags[id], <<>>}
        BY <2>3 DEF ReadLast, BadMessage, ReaderReopens, Destroyed, DataOK
      <3> QED
        BY <3>1 DEF BlocksFit
    <2>4. frags' = frags \/ ReadFrag \/ ReadLast \/ BadMessage \/ ReaderReopens
      BY DEF Next, vars, Write, Read, Xmit, WriteBegins, WriteTimesOut, WriteFrame,
             WriteNothing, WriteEnds, ReadBegins, ReadTimesOut, ReadBug, ReadEnds, ReadNoMem,
             Purge, WriterReopens, reader
    <2> QED
      BY <2>1, <2>2, <2>3, <2>4
  <1> QED
    BY <1>1, <1>2, DataAlways, PTL DEF Spec
=============================================================================
