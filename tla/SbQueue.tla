------------------------------ MODULE SbQueue ------------------------------
(***************************************************************************)
(* struct sb_queue of sandbox_protocol.h: the linear buffer with a start   *)
(* and an end offset that both console relays use for every direction.     *)
(* Bytes are appended at the end; when the tail of the storage is too      *)
(* short the live bytes are first moved to the front.                      *)
(*                                                                         *)
(* A frame header is two 4-byte words, the type and the payload size.  The *)
(* model counts storage in cells: one cell for a payload byte, one for a   *)
(* header word, so that the 8 of the code is HeaderSize here.              *)
(***************************************************************************)
EXTENDS Naturals, Sequences

CONSTANTS SB_QUEUE,  \* cells of storage
          SB_CHUNK,  \* the largest payload of a frame
          Byte,      \* the values of a payload byte
          Type       \* the frame types

ASSUME SizeAssumption == SB_QUEUE \in Nat /\ SB_CHUNK \in Nat
ASSUME ByteAssumption == Byte \subseteq Nat /\ Type \subseteq Nat

HeaderSize == 2
Cell == Nat
Header(type, size) == << type, size >>

Queue == [start : 0 .. SB_QUEUE, end : 0 .. SB_QUEUE, data : [0 .. SB_QUEUE - 1 -> Cell]]

sb_size(q) == q.end - q.start
sb_room(q) == SB_QUEUE - sb_size(q)

sb_reset(q) == [start |-> 0, end |-> 0, data |-> q.data]

sb_consume(q, n) ==
  IF q.start + n = q.end THEN sb_reset(q)
  ELSE [start |-> q.start + n, end |-> q.end, data |-> q.data]

\* Mutant: the offsets are rewound but the bytes stay where they were.
MutCompactedNoMove(q) == [start |-> 0, end |-> sb_size(q), data |-> q.data]
\* The memmove of sb_append: the live cells go to the front of the storage.
Compacted(q) ==
  [start |-> 0,
   end   |-> sb_size(q),
   data  |-> [i \in 0 .. SB_QUEUE - 1 |->
                IF i < sb_size(q) THEN q.data[q.start + i] ELSE q.data[i]]]

\* The memcpy of sb_append, which the two tests before it keep in bounds.
Written(q, s) ==
  [start |-> q.start,
   end   |-> q.end + Len(s),
   data  |-> [i \in 0 .. SB_QUEUE - 1 |->
                IF q.end <= i /\ i < q.end + Len(s)
                  THEN s[i - q.end + 1] ELSE q.data[i]]]

\* Mutant: appends without making room at the end first.
MutAppendNoCompaction(q, s) == IF sb_room(q) < Len(s) THEN q ELSE Written(q, s)
sb_append(q, s) ==
  IF sb_room(q) < Len(s) THEN q
  ELSE Written(IF SB_QUEUE - q.end < Len(s) THEN Compacted(q) ELSE q, s)

\* The frame is queued whole or not at all: both appends fit, or neither runs.
PacketFits(q, size) == size <= SB_CHUNK /\ sb_room(q) >= HeaderSize + size
sb_packet(q, type, s) ==
  IF PacketFits(q, Len(s)) THEN sb_append(sb_append(q, Header(type, Len(s))), s)
  ELSE q
-----------------------------------------------------------------------------
(* One queue under every sequence of the operations above. *)

VARIABLE q

Payload == UNION {[1 .. n -> Byte] : n \in 0 .. SB_CHUNK}

Init == q = [start |-> 0, end |-> 0, data |-> [i \in 0 .. SB_QUEUE - 1 |-> 0]]

Enqueue(s) == q' = sb_append(q, s)
Packet(type, s) == q' = sb_packet(q, type, s)
Consume(n) == n <= sb_size(q) /\ q' = sb_consume(q, n)
Reset == q' = sb_reset(q)

Next == \/ \E s \in Payload : Enqueue(s)
        \/ \E type \in Type, s \in Payload : Packet(type, s)
        \/ \E n \in 1 .. SB_QUEUE : Consume(n)
        \/ Reset

Spec == Init /\ [][Next]_q
-----------------------------------------------------------------------------
(* Properties. *)

\* Type correctness of the structure.
TypeOK == q \in Queue

\* The structure is well typed and its offsets stay ordered and inside the storage, so no memcpy or memmove of
\* sb_append writes past data[SB_QUEUE] although sb_append tests the total room
\* first and the room behind `end' second.
InBounds == TypeOK /\ q.start <= q.end /\ q.end <= SB_QUEUE

\* The live bytes, oldest first.
Contents(p) == [i \in 1 .. sb_size(p) |-> p.data[p.start + i - 1]]

Fifo == INSTANCE ByteQueue
          WITH Byte <- Cell, Capacity <- SB_QUEUE, content <- Contents(q)

\* Whatever compaction does to the storage, the queue behaves as a bounded
\* first-in first-out byte sequence: nothing is lost, duplicated or reordered.
Refinement == Fifo!Spec
=============================================================================
