--------------------------- MODULE SbQueueProofs ---------------------------
(* The console queue stays inside its storage and implements a bounded     *)
(* first-in first-out byte sequence, for every size of storage and chunk.  *)
EXTENDS SbQueue, TLAPS

\* The inductive invariant: the structure is well typed and its offsets are
\* ordered and inside the storage.
Inv == TypeOK /\ InBounds

\* The same, of any queue value.
Sound(p) == p \in Queue /\ p.start <= p.end /\ p.end <= SB_QUEUE

\* Consuming at most what is queued keeps the offsets in bounds.
LEMMA ConsumeSound ==
  ASSUME NEW p, Sound(p), NEW n \in Nat, n <= sb_size(p)
  PROVE  Sound(sb_consume(p, n))
BY SizeAssumption DEF Sound, sb_consume, sb_reset, sb_size, Queue

\* The memmove of sb_append keeps the queue sound and leaves at its end exactly
\* the room the queue has in total.
LEMMA CompactedSound ==
  ASSUME NEW p, Sound(p)
  PROVE  /\ Sound(Compacted(p))
         /\ SB_QUEUE - Compacted(p).end = sb_room(p)
<1>1. \A i \in 0 .. SB_QUEUE - 1 : i < sb_size(p) => p.start + i \in 0 .. SB_QUEUE - 1
  BY SizeAssumption DEF Sound, Queue, sb_size
<1>2. Compacted(p).data \in [0 .. SB_QUEUE - 1 -> Cell]
  BY Zenon, <1>1 DEF Sound, Queue, Compacted
<1>3. /\ Compacted(p).start = 0
      /\ Compacted(p).end = p.end - p.start
      /\ Compacted(p).end \in Nat
  BY DEF Sound, Queue, Compacted, sb_size
<1>4. Compacted(p) = [start |-> Compacted(p).start, end |-> Compacted(p).end,
                      data |-> Compacted(p).data]
  BY DEF Compacted
<1> QED
  BY <1>2, <1>3, <1>4, SizeAssumption DEF Sound, Queue, sb_size, sb_room

\* The memcpy of sb_append keeps the queue sound when the tail has room.
LEMMA WrittenSound ==
  ASSUME NEW p, Sound(p), NEW s \in Seq(Cell), Len(s) <= SB_QUEUE - p.end
  PROVE  Sound(Written(p, s))
<1>1. \A i \in 0 .. SB_QUEUE - 1 :
         (p.end <= i /\ i < p.end + Len(s)) => i - p.end + 1 \in 1 .. Len(s)
  BY SizeAssumption DEF Sound, Queue
<1>2. Written(p, s).data \in [0 .. SB_QUEUE - 1 -> Cell]
  <2>1. \A j \in 1 .. Len(s) : s[j] \in Cell
    OBVIOUS
  <2>2. \A i \in 0 .. SB_QUEUE - 1 : p.data[i] \in Cell
    BY Zenon DEF Sound, Queue
  <2> QED
    BY <1>1, <2>1, <2>2 DEF Written
<1>3. /\ Written(p, s).start = p.start
      /\ Written(p, s).end = p.end + Len(s)
      /\ Written(p, s) = [start |-> Written(p, s).start, end |-> Written(p, s).end,
                          data |-> Written(p, s).data]
  BY DEF Written
<1> QED
  BY <1>2, <1>3, SizeAssumption DEF Sound, Queue

\* sb_append keeps the queue sound, whether it refuses, compacts or just copies.
LEMMA AppendSound ==
  ASSUME NEW p, Sound(p), NEW s \in Seq(Cell)
  PROVE  Sound(sb_append(p, s))
<1>1. CASE sb_room(p) < Len(s)
  BY <1>1 DEF sb_append
<1>2. CASE ~(sb_room(p) < Len(s)) /\ SB_QUEUE - p.end < Len(s)
  <2>1. Sound(Compacted(p)) /\ SB_QUEUE - Compacted(p).end = sb_room(p)
    BY CompactedSound
  <2>2. Len(s) <= SB_QUEUE - Compacted(p).end
    BY <1>2, <2>1, SizeAssumption DEF Sound, Queue, sb_room, sb_size
  <2> QED
    BY <1>2, <2>1, <2>2, WrittenSound DEF sb_append
<1>3. CASE ~(sb_room(p) < Len(s)) /\ ~(SB_QUEUE - p.end < Len(s))
  <2>1. Len(s) <= SB_QUEUE - p.end
    BY <1>3, SizeAssumption DEF Sound, Queue
  <2> QED
    BY <1>3, <2>1, WrittenSound DEF sb_append
<1> QED
  BY <1>1, <1>2, <1>3

-----------------------------------------------------------------------------
(* What the operations do to the live bytes. *)

\* Two sequences with the same length and the same elements are equal.
LEMMA SeqEqual ==
  ASSUME NEW S, NEW a \in Seq(S), NEW b \in Seq(S), Len(a) = Len(b),
         \A i \in 1 .. Len(a) : a[i] = b[i]
  PROVE  a = b
OBVIOUS

\* The live bytes of a sound queue are a sequence of as many cells.
LEMMA ContentsType ==
  ASSUME NEW p, Sound(p)
  PROVE  Contents(p) \in Seq(Cell) /\ Len(Contents(p)) = sb_size(p)
<1>1. sb_size(p) \in Nat
  BY SizeAssumption DEF Sound, Queue, sb_size
<1>2. \A i \in 1 .. sb_size(p) : p.start + i - 1 \in 0 .. SB_QUEUE - 1
  BY SizeAssumption DEF Sound, Queue, sb_size
<1>3. \A i \in 1 .. sb_size(p) : p.data[p.start + i - 1] \in Cell
  BY Zenon, <1>2 DEF Sound, Queue
<1> QED
  BY <1>1, <1>3 DEF Contents

\* sb_consume removes the n oldest bytes.
LEMMA ContentsConsume ==
  ASSUME NEW p, Sound(p), NEW n \in Nat, n <= sb_size(p)
  PROVE  Contents(sb_consume(p, n)) = SubSeq(Contents(p), n + 1, Len(Contents(p)))
<1> DEFINE r == sb_consume(p, n)
<1>1. Contents(p) \in Seq(Cell) /\ Len(Contents(p)) = sb_size(p) /\ sb_size(p) \in Nat
  BY ContentsType, SizeAssumption DEF Sound, Queue, sb_size
<1>2. Sound(r)
  BY ConsumeSound
<1>3. sb_size(r) = sb_size(p) - n
  BY SizeAssumption DEF Sound, sb_consume, sb_reset, sb_size, Queue
<1>4. \A i \in 1 .. sb_size(r) : r.start + i - 1 = p.start + (i + n) - 1
  BY <1>3, SizeAssumption DEF Sound, sb_consume, sb_reset, sb_size, Queue
<1>5. r.data = p.data
  BY DEF sb_consume, sb_reset
<1>6. \A i \in 1 .. sb_size(r) : Contents(r)[i] = Contents(p)[i + n]
  BY <1>1, <1>3, <1>4, <1>5 DEF Contents
<1>7. Contents(r) \in Seq(Cell) /\ Len(Contents(r)) = sb_size(p) - n
  BY <1>2, <1>3, ContentsType
<1> QED
  BY <1>1, <1>3, <1>6, <1>7

\* The memmove of sb_append moves the live bytes without changing them.
LEMMA ContentsCompacted ==
  ASSUME NEW p, Sound(p)
  PROVE  Contents(Compacted(p)) = Contents(p)
<1>1. sb_size(p) \in Nat /\ sb_size(p) <= SB_QUEUE
  BY SizeAssumption DEF Sound, Queue, sb_size
<1>2. sb_size(Compacted(p)) = sb_size(p)
  BY <1>1 DEF Compacted, sb_size
<1>3. \A i \in 1 .. sb_size(p) : Compacted(p).data[i - 1] = p.data[p.start + i - 1]
  BY <1>1, SizeAssumption DEF Compacted, Sound, Queue
<1>4. \A i \in 1 .. sb_size(p) : Compacted(p).data[Compacted(p).start + i - 1] = p.data[p.start + i - 1]
  <2>1. Compacted(p).start = 0
    BY DEF Compacted
  <2>2. \A i \in 1 .. sb_size(p) : 0 + i - 1 = i - 1
    BY <1>1
  <2> QED
    BY <1>3, <2>1, <2>2
<1> QED
  BY <1>2, <1>4 DEF Contents

\* The memcpy of sb_append puts the new bytes behind the live ones.
LEMMA ContentsWritten ==
  ASSUME NEW p, Sound(p), NEW s \in Seq(Cell), Len(s) <= SB_QUEUE - p.end
  PROVE  Contents(Written(p, s)) = Contents(p) \o s
<1> DEFINE w == Written(p, s)
<1>1. Contents(p) \in Seq(Cell) /\ Len(Contents(p)) = sb_size(p) /\ sb_size(p) \in Nat
  BY ContentsType, SizeAssumption DEF Sound, Queue, sb_size
<1>2. Sound(w)
  BY WrittenSound
<1>3. w.start = p.start /\ w.end = p.end + Len(s) /\ sb_size(w) = sb_size(p) + Len(s)
  BY <1>1, SizeAssumption DEF Written, sb_size, Sound, Queue
<1>4. Contents(w) \in Seq(Cell) /\ Len(Contents(w)) = sb_size(p) + Len(s)
  BY <1>2, <1>3, ContentsType
<1>5. \A i \in 1 .. sb_size(p) : w.data[p.start + i - 1] = p.data[p.start + i - 1]
  BY SMTT(40), <1>1, SizeAssumption DEF Written, sb_size, Sound, Queue
<1>6. \A j \in 1 .. Len(s) : w.data[p.end + j - 1] = s[j]
  <2> SUFFICES ASSUME NEW j \in 1 .. Len(s)
               PROVE  w.data[p.end + j - 1] = s[j]
    OBVIOUS
  <2>1. /\ p.end + j - 1 \in 0 .. SB_QUEUE - 1
        /\ p.end <= p.end + j - 1 /\ p.end + j - 1 < p.end + Len(s)
        /\ (p.end + j - 1) - p.end + 1 = j
    BY SMTT(40), SizeAssumption DEF Sound, Queue
  <2> QED
    BY <2>1 DEF Written
<1>7. \A i \in 1 .. sb_size(p) : Contents(w)[i] = Contents(p)[i]
  BY <1>1, <1>3, <1>5 DEF Contents
<1>8. \A j \in 1 .. Len(s) : Contents(w)[sb_size(p) + j] = s[j]
  <2> SUFFICES ASSUME NEW j \in 1 .. Len(s)
               PROVE  Contents(w)[sb_size(p) + j] = s[j]
    OBVIOUS
  <2>1. sb_size(p) + j \in 1 .. sb_size(w)
    BY <1>1, <1>3
  <2>2. w.start + (sb_size(p) + j) - 1 = p.end + j - 1
    BY SMTT(40), <1>3 DEF sb_size, Sound, Queue
  <2> QED
    BY <1>6, <2>1, <2>2 DEF Contents
<1>9. /\ Contents(p) \o s \in Seq(Cell)
      /\ Len(Contents(p) \o s) = sb_size(p) + Len(s)
      /\ \A i \in 1 .. sb_size(p) : (Contents(p) \o s)[i] = Contents(p)[i]
      /\ \A j \in 1 .. Len(s) : (Contents(p) \o s)[sb_size(p) + j] = s[j]
  BY <1>1
<1>10. \A i \in 1 .. Len(Contents(w)) : Contents(w)[i] = (Contents(p) \o s)[i]
  <2> SUFFICES ASSUME NEW i \in 1 .. Len(Contents(w))
               PROVE  Contents(w)[i] = (Contents(p) \o s)[i]
    BY Zenon
  <2>1. CASE i \in 1 .. sb_size(p)
    BY Zenon, <1>7, <1>9, <2>1
  <2>2. CASE i \notin 1 .. sb_size(p)
    <3>1. PICK j \in 1 .. Len(s) : i = sb_size(p) + j
      <4>1. i - sb_size(p) \in 1 .. Len(s) /\ i = sb_size(p) + (i - sb_size(p))
        BY <1>1, <1>4, <2>2
      <4> QED
        BY <4>1
    <3> QED
      BY Zenon, <1>8, <1>9, <3>1
  <2> QED
    BY Zenon, <2>1, <2>2
<1> QED
  BY <1>4, <1>9, <1>10, SeqEqual

\* sb_append either refuses and changes nothing, or queues all of s.
LEMMA ContentsAppend ==
  ASSUME NEW p, Sound(p), NEW s \in Seq(Cell)
  PROVE  Contents(sb_append(p, s)) = IF sb_room(p) < Len(s) THEN Contents(p)
                                     ELSE Contents(p) \o s
<1>1. CASE sb_room(p) < Len(s)
  BY <1>1 DEF sb_append
<1>2. CASE ~(sb_room(p) < Len(s)) /\ SB_QUEUE - p.end < Len(s)
  <2>1. Sound(Compacted(p)) /\ SB_QUEUE - Compacted(p).end = sb_room(p)
    BY CompactedSound
  <2>2. Len(s) <= SB_QUEUE - Compacted(p).end
    BY <1>2, <2>1, SizeAssumption DEF Sound, Queue, sb_room, sb_size
  <2>3. sb_append(p, s) = Written(Compacted(p), s)
    BY <1>2 DEF sb_append
  <2>4. Contents(Written(Compacted(p), s)) = Contents(Compacted(p)) \o s
    BY <2>1, <2>2, ContentsWritten
  <2> QED
    BY SMTT(40), <1>2, <2>3, <2>4, ContentsCompacted
<1>3. CASE ~(sb_room(p) < Len(s)) /\ ~(SB_QUEUE - p.end < Len(s))
  <2>1. Len(s) <= SB_QUEUE - p.end
    BY <1>3, SizeAssumption DEF Sound, Queue
  <2>2. sb_append(p, s) = Written(p, s)
    BY <1>3 DEF sb_append
  <2> QED
    BY <1>3, <2>1, <2>2, ContentsWritten
<1> QED
  BY <1>1, <1>2, <1>3

-----------------------------------------------------------------------------
(* The theorems. *)

\* A payload is a sequence of cells, and so is a header.
LEMMA PayloadType ==
  ASSUME NEW s \in Payload
  PROVE  s \in Seq(Cell)
<1>1. PICK n \in 0 .. SB_CHUNK : s \in [1 .. n -> Byte]
  BY DEF Payload
<1>2. n \in Nat
  BY <1>1, SizeAssumption
<1>3. s \in [1 .. n -> Cell]
  BY Zenon, <1>1, ByteAssumption DEF Cell
<1> QED
  BY <1>2, <1>3

LEMMA HeaderType ==
  ASSUME NEW type \in Nat, NEW size \in Nat
  PROVE  Header(type, size) \in Seq(Cell) /\ Len(Header(type, size)) = HeaderSize
BY DEF Header, Cell, HeaderSize

\* Init and every operation keep the invariant.
LEMMA Inductive == Inv /\ [Next]_q => Inv'
<1> SUFFICES ASSUME Inv, [Next]_q
             PROVE  Sound(q')
  BY DEF Inv, TypeOK, InBounds, Sound
<1>0. Sound(q)
  BY DEF Inv, TypeOK, InBounds, Sound
<1>1. ASSUME NEW s \in Payload, Enqueue(s)
      PROVE  Sound(q')
  BY <1>0, <1>1, PayloadType, AppendSound DEF Enqueue
<1>2. ASSUME NEW type \in Type, NEW s \in Payload, Packet(type, s)
      PROVE  Sound(q')
  <2>1. type \in Nat /\ s \in Seq(Cell) /\ Len(s) \in Nat
    BY PayloadType, ByteAssumption
  <2>2. Sound(sb_append(q, Header(type, Len(s))))
    BY <1>0, <2>1, HeaderType, AppendSound
  <2>3. Sound(sb_append(sb_append(q, Header(type, Len(s))), s))
    BY <2>1, <2>2, AppendSound
  <2> QED
    BY <1>0, <1>2, <2>3 DEF Packet, sb_packet
<1>3. ASSUME NEW n \in 1 .. SB_QUEUE, Consume(n)
      PROVE  Sound(q')
  BY <1>0, <1>3, ConsumeSound, SizeAssumption DEF Consume
<1>4. CASE Reset
  BY <1>0, <1>4, SizeAssumption DEF Reset, sb_reset, Sound, Queue
<1>5. CASE UNCHANGED q
  BY <1>0, <1>5
<1> QED
  BY <1>1, <1>2, <1>3, <1>4, <1>5 DEF Next

LEMMA InitInv == Init => Inv
BY SizeAssumption DEF Init, Inv, TypeOK, InBounds, Queue, Cell

\* The structure is always well typed.
THEOREM TypeCorrect == Spec => []TypeOK
<1>1. Inv => TypeOK
  BY DEF Inv
<1> QED
  BY <1>1, InitInv, Inductive, PTL DEF Spec

\* sb_append, sb_packet and sb_consume never leave the storage of the queue,
\* whatever the sizes of storage and chunk.
THEOREM StaysInBounds == Spec => []InBounds
<1>1. Inv => InBounds
  BY DEF Inv
<1> QED
  BY <1>1, InitInv, Inductive, PTL DEF Spec

\* Appending s at the end is a Put of the abstract queue when the room test of
\* the code passed.
LEMMA PutStep ==
  ASSUME NEW p, Sound(p), NEW r, Sound(r), NEW s \in Seq(Cell),
         Contents(r) = Contents(p) \o s
  PROVE  /\ Contents(r) \in Seq(Cell)
         /\ Len(Contents(p)) <= Len(Contents(r))
         /\ Len(Contents(r)) <= SB_QUEUE
         /\ SubSeq(Contents(r), 1, Len(Contents(p))) = Contents(p)
<1>1. /\ Contents(p) \in Seq(Cell) /\ Contents(r) \in Seq(Cell)
      /\ Len(Contents(r)) = sb_size(r)
  BY Zenon, ContentsType
<1>2. sb_size(r) <= SB_QUEUE
  BY SizeAssumption DEF Sound, Queue, sb_size
<1>3. Len(Contents(r)) = Len(Contents(p)) + Len(s)
  BY <1>1
<1>4. SubSeq(Contents(r), 1, Len(Contents(p))) = Contents(p)
  <2>1. /\ SubSeq(Contents(r), 1, Len(Contents(p))) \in Seq(Cell)
        /\ Len(SubSeq(Contents(r), 1, Len(Contents(p)))) = Len(Contents(p))
    BY <1>1, <1>3
  <2>2. \A i \in 1 .. Len(Contents(p)) :
           SubSeq(Contents(r), 1, Len(Contents(p)))[i] = Contents(p)[i]
    BY <1>1, <1>3
  <2> QED
    BY <1>1, <2>1, <2>2, SeqEqual
<1> QED
  BY <1>1, <1>2, <1>3, <1>4

\* The buffer with its offsets and its memmove implements the bounded
\* first-in first-out queue the relays rely on.
THEOREM ImplementsFifo == Spec => Refinement
<1>1. Init => Fifo!Init
  BY DEF Init, Fifo!Init, Contents, sb_size
<1>2. Inv /\ Inv' /\ [Next]_q => [Fifo!Next]_(Contents(q))
  <2> SUFFICES ASSUME Inv, Inv', [Next]_q
               PROVE  [Fifo!Next]_(Contents(q))
    OBVIOUS
  <2>0. Sound(q) /\ Sound(q')
    BY DEF Inv, TypeOK, InBounds, Sound
  <2>a. ASSUME NEW s \in Seq(Cell), Contents(q') = Contents(q) \o s
        PROVE  Fifo!Put
    BY Zenon, <2>0, <2>a, PutStep DEF Fifo!Put
  <2>1. ASSUME NEW s \in Payload, Enqueue(s)
        PROVE  [Fifo!Next]_(Contents(q))
    <3>1. s \in Seq(Cell)
      BY PayloadType
    <3>2. Contents(q') = Contents(q) \/ Contents(q') = Contents(q) \o s
      BY <2>0, <2>1, <3>1, ContentsAppend DEF Enqueue
    <3> QED
      BY <2>a, <3>1, <3>2 DEF Fifo!Next
  <2>2. ASSUME NEW type \in Type, NEW s \in Payload, Packet(type, s)
        PROVE  [Fifo!Next]_(Contents(q))
    <3>1. /\ type \in Nat /\ s \in Seq(Cell) /\ Len(s) \in Nat
          /\ Header(type, Len(s)) \in Seq(Cell)
      BY PayloadType, HeaderType, ByteAssumption
    <3>2. CASE PacketFits(q, Len(s))
      <4> DEFINE h == sb_append(q, Header(type, Len(s)))
      <4>1. Sound(h)
        BY <2>0, <3>1, AppendSound
      <4>2. Contents(h) = Contents(q) \/ Contents(h) = Contents(q) \o Header(type, Len(s))
        BY <2>0, <3>1, ContentsAppend
      <4>3. q' = sb_append(h, s)
        BY <2>2, <3>2 DEF Packet, sb_packet
      <4>4. Contents(q') = Contents(h) \/ Contents(q') = Contents(h) \o s
        BY <4>1, <4>3, <3>1, ContentsAppend
      <4>5. Contents(q) \in Seq(Cell)
        BY <2>0, ContentsType
      <4>6. \/ Contents(q') = Contents(q)
            \/ Contents(q') = Contents(q) \o s
            \/ Contents(q') = Contents(q) \o Header(type, Len(s))
            \/ Contents(q') = (Contents(q) \o Header(type, Len(s))) \o s
        BY Zenon, <4>2, <4>4
      <4>7. /\ (Contents(q) \o Header(type, Len(s))) \o s
                  = Contents(q) \o (Header(type, Len(s)) \o s)
            /\ Header(type, Len(s)) \o s \in Seq(Cell)
        BY SMTT(40), <3>1, <4>5
      <4> QED
        BY Zenon, <2>a, <3>1, <4>6, <4>7 DEF Fifo!Next
    <3>3. CASE ~PacketFits(q, Len(s))
      BY <2>2, <3>3 DEF Packet, sb_packet
    <3> QED
      BY <3>2, <3>3
  <2>3. ASSUME NEW n \in 1 .. SB_QUEUE, Consume(n)
        PROVE  [Fifo!Next]_(Contents(q))
    <3>1. n \in Nat /\ n <= sb_size(q) /\ q' = sb_consume(q, n)
      BY <2>3, SizeAssumption DEF Consume
    <3>2. Contents(q') = SubSeq(Contents(q), n + 1, Len(Contents(q)))
      BY <2>0, <3>1, ContentsConsume
    <3>3. n \in 0 .. Len(Contents(q))
      BY <2>0, <3>1, ContentsType
    <3> QED
      BY <3>2, <3>3 DEF Fifo!Next, Fifo!Take
  <2>4. CASE Reset
    <3>1. Contents(q') = << >>
      BY <2>4 DEF Reset, sb_reset, Contents, sb_size
    <3> QED
      BY <3>1 DEF Fifo!Next, Fifo!Drop
  <2>5. CASE UNCHANGED q
    BY <2>5
  <2> QED
    BY <2>1, <2>2, <2>3, <2>4, <2>5 DEF Next
<1> QED
  BY <1>1, <1>2, InitInv, Inductive, PTL DEF Spec, Refinement, Fifo!Spec
=============================================================================
