----------------------------- MODULE ByteQueue -----------------------------
(***************************************************************************)
(* What a console queue promises its users: a first-in first-out sequence  *)
(* of bytes that holds up to Capacity of them, wherever in its storage the *)
(* implementation keeps them.                                              *)
(***************************************************************************)
EXTENDS Naturals, Sequences

CONSTANTS Byte,      \* the values of one byte
          Capacity   \* how many bytes the queue holds

VARIABLE content     \* the bytes not consumed yet, the oldest first

Init == content = << >>

\* Bytes enter behind the ones already there, and never more than fit.
Put == /\ content' \in Seq(Byte)
       /\ Len(content) <= Len(content')
       /\ Len(content') <= Capacity
       /\ SubSeq(content', 1, Len(content)) = content

\* The n oldest bytes leave.
Take(n) == content' = SubSeq(content, n + 1, Len(content))

\* A relay that lost its peer forgets what it still had to send.
Drop == content' = << >>

Next == Put \/ (\E n \in 0 .. Len(content) : Take(n)) \/ Drop

Spec == Init /\ [][Next]_content
=============================================================================
