------------------------------ MODULE SipcFmt ------------------------------
(***************************************************************************)
(* Formatted packets on their way through the shared memory: the writer    *)
(* (_write_fmt with sipc_write, drivers/svnet/sipc4.c), which cuts a packet*)
(* into the frames the ring has space for, the ring with its two indices,  *)
(* and the reader (_read_fmt with sipc_read), which puts them together.    *)
(*                                                                         *)
(* The AP has the writer of the out ring and the reader of the in ring; the*)
(* other ends are the modem's. The model has one direction, with a modem   *)
(* that follows the same rules: the ring that is written by the code here  *)
(* is read by the code here. The two processors share nothing but the ring *)
(* and the mailbox, and each takes the bank before it touches the ring.    *)
(***************************************************************************)
EXTENDS Integers, SequencesExt, FiniteSetsExt

CONSTANTS Size,        \* FMT_SZ
          Ovh,         \* start byte, header and end byte of a frame
          TxMin,       \* FMT_TX_MIN
          BlockMax,    \* FRAG_BLOCK_MAX
          Lens,        \* lengths of packets
          Addrs,       \* addresses of socket buffers
          NULL,        \* no address
          MaxPackets,  \* bound on the packets
          MaxNoMem,    \* bound on failing allocations of the reader
          MaxResets    \* bound on purges, bad messages and restarts

ASSUME FmtAssumption ==
    /\ Size \in Nat \ {0}
    /\ \E k \in 0 .. Size : Size = 2 ^ k
    /\ {Ovh, TxMin} \subseteq Nat \ {0}
    /\ Lens \subseteq Nat \ {0}
    /\ NULL \notin Addrs
    /\ {BlockMax, MaxPackets, MaxNoMem, MaxResets} \subseteq Nat

VARIABLES sent,     \* lengths of the packets handed over so far
          txq,      \* packets that wait, the half-sent one first
          fi,       \* si->frag: address of the half-sent packet, bytes sent
          head,     \* index of the writer
          tail,     \* index of the reader
          ring,     \* frames between the two
          frags,    \* si->frag_map: blocks of pieces, for each message id
          up,       \* packets handed up, as the pieces they were made of
          queued,   \* the work that writes is queued
          pc,       \* who has the bank
          mask,     \* `mailbox' of sipc_write: something to announce
          mailed,   \* a mail that the reader has not taken up
          stalled,  \* the last read failed
          torn,     \* history: a reset hit a half-sent or half-read packet
          left      \* what may still go wrong

vars == <<sent, txq, fi, head, tail, ring, frags, up, queued, pc, mask, mailed, stalled,
          torn, left>>

writer == <<txq, fi>>
reader == <<frags, up>>
ghosts == <<sent, torn>>

Init == /\ sent = <<>>
        /\ txq = <<>>
        /\ fi = [skb |-> NULL, offset |-> 0]
        /\ head = 0
        /\ tail = 0
        /\ ring = <<>>
        /\ frags = [id \in {0, 1} |-> <<>>]
        /\ up = <<>>
        /\ queued = FALSE
        /\ pc = "idle"
        /\ mask = FALSE
        /\ mailed = FALSE
        /\ stalled = FALSE
        /\ torn = FALSE
        /\ left = [nomem |-> MaxNoMem, reset |-> MaxResets]
-----------------------------------------------------------------------------
(* The ring. *)

\* CIRC_CNT and CIRC_SPACE of circ_buf.h; the sizes are powers of two.
CIRC_CNT(h, t)   == (h - t) % Size
CIRC_SPACE(h, t) == CIRC_CNT(t, h + 1)

\* Mutant: an index that is not masked.
AdvancedPast(i, n) == i + n

\* The index n bytes on, as __write and __read move it.
Advanced(i, n) == (i + n) % Size

\* __write: as much as there is space for ("no check space").
Written(n) == Min({n, CIRC_SPACE(head, tail)})

\* Mutant: the space without the frame's own bytes.
SpaceAll == CIRC_SPACE(head, tail)

\* Bytes of a packet that a frame written now can carry.
Space == CIRC_SPACE(head, tail) - Ovh

Bytes(f) == f.to - f.from

\* The sum of a sequence of numbers.
Total(s) == LET sum[i \in 0 .. Len(s)] == IF i = 0 THEN 0 ELSE sum[i - 1] + s[i]
            IN  sum[Len(s)]
-----------------------------------------------------------------------------
(* The writer. *)

\* svnet_xmit: a packet in a buffer whose address is not in use, and the work.
Xmit(n, a) == /\ pc # "bug"
              /\ Len(sent) < MaxPackets
              /\ \A i \in DOMAIN txq : txq[i].skb # a
              /\ sent' = Append(sent, n)
              /\ txq' = Append(txq, [skb |-> a, no |-> Len(sent) + 1, len |-> n])
              /\ queued' = TRUE
              /\ UNCHANGED <<fi, head, tail, ring, reader, pc, mask, mailed, stalled, torn,
                             left>>

\* svnet_write_wq: sipc_write begins, with the authority.
WriteBegins == /\ pc = "idle"
               /\ queued
               /\ queued' = FALSE
               /\ pc' = "writing"
               /\ mask' = FALSE
               /\ UNCHANGED <<writer, head, tail, ring, reader, mailed, stalled, ghosts,
                              left>>

\* It does not get it in time (-ETIMEDOUT), and nothing is queued for what waits.
WriteTimesOut == /\ pc \in {"idle", "reading"}
                 /\ queued
                 /\ queued' = FALSE
                 /\ UNCHANGED <<writer, head, tail, ring, reader, pc, mask, mailed, stalled,
                                ghosts, left>>

\* Bytes of the first packet that have been sent: a packet at another address
\* than fi->skb is a new one.
Sent == IF Head(txq).skb = fi.skb THEN fi.offset ELSE 0

Remain == Head(txq).len - Sent

\* Bytes the next frame carries.
Carries == IF Remain > Space THEN Space ELSE Remain

\* Mutant: id 0, as for packets of one frame, for the last frame too.
IdOfLast(more) == IF more THEN 1 ELSE 0

\* The id in the control byte.
Id(more) == IF more \/ Sent > 0 THEN 1 ELSE 0

\* Mutant: the mask is set when nothing of the packet is left over from an
\* earlier call.
FirstMaskSet(done) == mask \/ (done /\ Sent = 0)

\* _write: the mailbox mask is set for a packet that has been written to its
\* end.
MaskSet(done) == mask \/ done

\* One round of the loop of _write_fmt.
WriteFrame ==
    /\ pc = "writing"
    /\ txq # <<>>
    /\ Remain > 0
    /\ Space >= TxMin
    /\ LET more == Remain > Space
           n    == Written(Carries + Ovh)
           done == n - Ovh = Remain
       IN  /\ ring' = Append(ring, [id |-> Id(more), more |-> more, no |-> Head(txq).no,
                                    from |-> Sent, to |-> Sent + Carries, size |-> n])
           /\ head' = Advanced(head, n)
           /\ fi' = IF done THEN [skb |-> NULL, offset |-> 0]
                            ELSE [skb |-> Head(txq).skb, offset |-> Sent + n - Ovh]
           /\ txq' = IF done THEN Tail(txq) ELSE txq
           /\ mask' = MaskSet(done)
    /\ UNCHANGED <<tail, reader, queued, pc, mailed, stalled, ghosts, left>>

\* Nothing remains of a packet that was taken for a half-sent one: it counts as
\* written and is freed.
WriteNothing == /\ pc = "writing"
                /\ txq # <<>>
                /\ Remain <= 0
                /\ fi' = [skb |-> Head(txq).skb, offset |-> Sent]
                /\ txq' = Tail(txq)
                /\ UNCHANGED <<head, tail, ring, reader, queued, pc, mask, mailed, stalled,
                               ghosts, left>>

\* Mutant: a full ring is not announced.
WriteEndsSilently == /\ pc = "writing"
                     /\ \/ /\ txq = <<>>
                           /\ mailed' = (mailed \/ mask)
                           /\ UNCHANGED <<fi, queued>>
                        \/ /\ txq # <<>>
                           /\ Remain > 0
                           /\ Space < TxMin
                           /\ fi' = [skb |-> Head(txq).skb, offset |-> Sent]
                           /\ queued' = TRUE
                           /\ UNCHANGED mailed
                     /\ pc' = "idle"
                     /\ UNCHANGED <<txq, head, tail, ring, reader, mask, stalled, ghosts,
                                    left>>

\* sipc_write ends: txq is empty, or the ring is full (-ENOSPC, svnet_write_wq
\* queues itself again). What was written to its end is announced.
WriteEnds == /\ pc = "writing"
             /\ \/ /\ txq = <<>>
                   /\ UNCHANGED <<fi, queued>>
                \/ /\ txq # <<>>
                   /\ Remain > 0
                   /\ Space < TxMin
                   /\ fi' = [skb |-> Head(txq).skb, offset |-> Sent]
                   /\ queued' = TRUE
             /\ pc' = "idle"
             /\ mailed' = (mailed \/ mask)
             /\ UNCHANGED <<txq, head, tail, ring, reader, mask, stalled, ghosts, left>>
-----------------------------------------------------------------------------
(* The reader. *)

\* sipc_read begins, with the authority: for the mail, or for an event of
\* another ring, as it looks at all of them.
ReadBegins == /\ pc = "idle"
              /\ mailed \/ ring # <<>>
              /\ pc' = "reading"
              /\ mailed' = FALSE
              /\ stalled' = FALSE
              /\ UNCHANGED <<writer, head, tail, ring, reader, queued, mask, ghosts, left>>

\* It does not get it in time (-ETIMEDOUT): the event goes back to rxq, where it
\* waits for the next one.
ReadTimesOut == /\ pc \in {"idle", "writing"}
                /\ mailed
                /\ mailed' = FALSE
                /\ stalled' = TRUE
                /\ UNCHANGED <<writer, head, tail, ring, reader, queued, pc, mask, ghosts,
                               left>>

Taken(f) == /\ tail' = Advanced(tail, f.size)
            /\ ring' = Tail(ring)

Piece(f) == [no |-> f.no, from |-> f.from, to |-> f.to]

\* Mutant: the list stays when its packet has been handed up.
KeepFrags(f) == frags

\* _destroy_frag_list.
Destroyed(f) == [frags EXCEPT ![f.id] = <<>>]

\* _read_fmt_last: the blocks of the frame's id, if there are any, and the
\* frame make a packet.
ReadLast == /\ pc = "reading"
            /\ ring # <<>>
            /\ ~Head(ring).more
            /\ up' = Append(up, Append(FlattenSeq(frags[Head(ring).id]), Piece(Head(ring))))
            /\ frags' = Destroyed(Head(ring))
            /\ Taken(Head(ring))
            /\ UNCHANGED <<writer, head, queued, pc, mask, mailed, stalled, ghosts, left>>

\* Mutant: a frame that just fits is refused.
TooLongOrEqual(f) == Bytes(f) + 1 >= BlockMax

\* No block can hold the frame's data and its end byte.
TooLong(f) == Bytes(f) + 1 > BlockMax

\* fb->len: bytes in a block.
BlockLen(b) == Total([i \in DOMAIN b |-> Bytes(b[i])])

\* Mutant: the end byte, which is read with the data, is forgotten.
NeedsBlockData(bs, f) == bs = <<>> \/ Bytes(f) > BlockMax - BlockLen(Last(bs))

\* _prepare_frag_block: the last block has no space for the frame's data and
\* its end byte.
NeedsBlock(bs, f) == bs = <<>> \/ Bytes(f) + 1 > BlockMax - BlockLen(Last(bs))

\* _read_fmt_frag: a frame with more to come.
ReadFrag == /\ pc = "reading"
            /\ ring # <<>>
            /\ Head(ring).more
            /\ ~TooLong(Head(ring))
            /\ LET f  == Head(ring)
                   bs == frags[f.id]
               IN  frags' = [frags EXCEPT ![f.id] =
                        IF NeedsBlock(bs, f)
                        THEN Append(bs, <<Piece(f)>>)
                        ELSE Append(Front(bs), Append(Last(bs), Piece(f)))]
            /\ Taken(Head(ring))
            /\ UNCHANGED <<writer, head, up, queued, pc, mask, mailed, stalled, ghosts, left>>

\* A frame that no block can hold: BUG().
ReadBug == /\ pc = "reading"
           /\ ring # <<>>
           /\ Head(ring).more
           /\ TooLong(Head(ring))
           /\ pc' = "bug"
           /\ UNCHANGED <<writer, head, tail, ring, reader, queued, mask, mailed, stalled,
                          ghosts, left>>

ReadEnds == /\ pc = "reading"
            /\ ring = <<>>
            /\ pc' = "idle"
            /\ UNCHANGED <<writer, head, tail, ring, reader, queued, mask, mailed, stalled,
                           ghosts, left>>

\* -ENOMEM: the frame stays in the ring, its list as it was. Nobody reads again
\* before the next event.
ReadNoMem == /\ pc = "reading"
             /\ ring # <<>>
             /\ left.nomem > 0
             /\ left' = [left EXCEPT !.nomem = @ - 1]
             /\ pc' = "idle"
             /\ stalled' = TRUE
             /\ UNCHANGED <<writer, head, tail, ring, reader, queued, mask, mailed, ghosts>>
-----------------------------------------------------------------------------
(* Resets. They tear a packet if one end is in the middle of it and the     *)
(* other forgets.                                                           *)

Resets(tears) == /\ left.reset > 0
                 /\ left' = [left EXCEPT !.reset = @ - 1]
                 /\ torn' = (torn \/ tears)

\* -EBADMSG: a frame without its start byte or, with the list of its id gone,
\* without its end. The ring is purged.
BadMessage == /\ pc = "reading"
              /\ ring # <<>>
              /\ frags' \in {frags, Destroyed(Head(ring))}
              /\ Resets(fi.offset > 0 \/ frags # [id \in {0, 1} |-> <<>>])
              /\ tail' = head
              /\ ring' = <<>>
              /\ pc' = "idle"
              /\ stalled' = TRUE
              /\ UNCHANGED <<writer, head, up, queued, mask, mailed, sent>>

\* svnet_exit_wq purges txq, and leaves si->frag alone.
Purge == /\ pc \in {"idle", "reading"}
         /\ txq # <<>>
         /\ txq' = <<>>
         /\ Resets(fi.offset > 0)
         /\ UNCHANGED <<fi, head, tail, ring, reader, queued, pc, mask, mailed, stalled,
                        sent>>

\* sipc_close and sipc_open at the writer's end: a new session with empty
\* rings; txq stays. _init_data does not ask for the bank, which the reader may
\* have; the model has it between two of the reader's frames.
WriterReopens == /\ pc \in {"idle", "reading"}
                 /\ Resets(frags # [id \in {0, 1} |-> <<>>])
                 /\ fi' = [skb |-> NULL, offset |-> 0]
                 /\ head' = 0
                 /\ tail' = 0
                 /\ ring' = <<>>
                 /\ UNCHANGED <<txq, reader, queued, pc, mask, mailed, stalled, sent>>

\* The same at the reader's end.
ReaderReopens == /\ pc \in {"idle", "writing"}
                 /\ Resets(fi.offset > 0)
                 /\ frags' = [id \in {0, 1} |-> <<>>]
                 /\ head' = 0
                 /\ tail' = 0
                 /\ ring' = <<>>
                 /\ UNCHANGED <<writer, up, queued, pc, mask, mailed, stalled, sent>>
-----------------------------------------------------------------------------
Write == WriteBegins \/ WriteTimesOut \/ WriteFrame \/ WriteNothing \/ WriteEnds
Read  == ReadLast \/ ReadFrag \/ ReadBug \/ ReadEnds

Next == \/ \E n \in Lens, a \in Addrs : Xmit(n, a)
        \/ Write
        \/ ReadBegins \/ ReadTimesOut
        \/ Read
        \/ ReadNoMem
        \/ BadMessage \/ Purge \/ WriterReopens \/ ReaderReopens

Spec == Init /\ [][Next]_vars

\* The work queue runs what is queued, to its end: a write or a read gets the
\* bank or times out. The reader has to read only when it was told to.
Fairness == /\ WF_vars(WriteBegins \/ WriteTimesOut)
            /\ WF_vars(WriteFrame \/ WriteNothing \/ WriteEnds)
            /\ WF_vars((mailed /\ ReadBegins) \/ ReadTimesOut)
            /\ WF_vars(Read)

FairSpec == Spec /\ Fairness
-----------------------------------------------------------------------------
(* Properties. *)

Pieces == [no : 1 .. MaxPackets, from : Nat, to : Nat]
Frames == [id : {0, 1}, more : BOOLEAN, no : 1 .. MaxPackets, from : Nat, to : Nat,
           size : Nat]

TypeOK == /\ sent \in Seq(Lens)
          /\ txq \in Seq([skb : Addrs, no : 1 .. MaxPackets, len : Lens])
          /\ fi \in [skb : Addrs \cup {NULL}, offset : Nat]
          /\ head \in 0 .. Size - 1
          /\ tail \in 0 .. Size - 1
          /\ ring \in Seq(Frames)
          /\ frags \in [{0, 1} -> Seq(Seq(Pieces))]
          /\ up \in Seq(Seq(Pieces))
          /\ pc \in {"idle", "writing", "reading", "bug"}
          /\ {queued, mask, mailed, stalled, torn} \subseteq BOOLEAN
          /\ left \in [nomem : Nat, reset : Nat]

Reset == left.reset < MaxResets

\* The indices agree with the frames: what lies between them is whole frames,
\* across the end of the buffer too, so that no reader meets a broken frame.
RingAgrees ==
    /\ CIRC_CNT(head, tail) = Total([i \in DOMAIN ring |-> ring[i].size])
    /\ \A i \in DOMAIN ring : ring[i].size = Bytes(ring[i]) + Ovh

\* A packet is handed up with all its bytes and no others, however it was cut,
\* whatever allocation failed on the way, and after resets that found no packet
\* half-way.
Intact == ~torn => \A i \in DOMAIN up :
              /\ up[i][1].from = 0
              /\ \A j \in DOMAIN up[i] :
                    /\ up[i][j].no = up[i][1].no
                    /\ j > 1 => up[i][j].from = up[i][j - 1].to
              /\ Last(up[i]).to = sent[up[i][1].no]

\* Packets are handed up in the order of their transmission, none twice, and
\* none is skipped without a reset.
InOrder == ~torn => \A i \in DOMAIN up :
               /\ i > 1 => up[i][1].no > up[i - 1][1].no
               /\ ~Reset => up[i][1].no = i

\* Block buffers are not overrun: the data and one end byte fit.
BlocksFit == \A id \in DOMAIN frags : \A i \in DOMAIN frags[id] :
                 BlockLen(frags[id][i]) + 1 <= BlockMax

\* The BUG() of _prepare_frag_block is met only for packets longer than a
\* block: no shorter packet is cut into a frame that is too long.
BugNeedsLong == pc = "bug" => sent[Head(ring).no] > BlockMax

\* Packets that one frame could hold, if the ring were empty.
Fits(n) == n <= Size - 1 - Ovh

\* Frames in the ring have been announced: the mask is set only at the end of a
\* packet, but the first frames of one that is not at its end lie behind frames
\* whose mail the reader has not taken up yet. Exceptions: a packet that does
\* not fit into an empty ring, a reader that failed, a packet that was torn.
RingAnnounced ==
    pc = "idle" /\ ring # <<>> => \/ mailed
                                  \/ stalled
                                  \/ torn
                                  \/ txq # <<>> /\ ~Fits(Head(txq).len)

\* Nobody will write what waits: the last write has timed out.
Abandoned == txq # <<>> /\ ~queued /\ pc # "writing"

\* Every packet is handed up, unless a reset drops it, a write that timed out or
\* a read that failed is not made good by another packet or event, or a packet
\* that does not fit is in the way.
Delivered ==
    \A k \in 1 .. MaxPackets :
        Len(sent) >= k ~> \/ \E i \in DOMAIN up : Last(up[i]).no = k
                          \/ Reset
                          \/ Abandoned
                          \/ stalled
                          \/ pc = "bug"
                          \/ txq # <<>> /\ ~Fits(Head(txq).len)
=============================================================================
