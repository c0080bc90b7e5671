---------------------------- MODULE AddressSpace ----------------------------
(***************************************************************************)
(* What mmap, munmap and mremap promise the guest, as Linux does it:       *)
(* memory is a set of pages, each with its contents.  A new mapping takes  *)
(* pages that were not mapped, munmap removes the pages of a range that    *)
(* are mapped, and a call that fails changes nothing.                      *)
(***************************************************************************)
EXTENDS Naturals

CONSTANTS Page, Value     \* addresses, in pages; the contents of one

VARIABLE space            \* the mapped pages with their contents

Mapped == DOMAIN space
Init == space = [p \in {} |-> 0]

\* Some pages that were not mapped are, and nothing else changes.
Map == /\ Mapped \subseteq DOMAIN space' /\ DOMAIN space' \subseteq Page
       /\ \A p \in Mapped : space'[p] = space[p]
       /\ \A p \in DOMAIN space' : space'[p] \in Value
Unmap(R) == space' = [p \in Mapped \ R |-> space[p]]
\* The n mapped pages from p on move, with their contents, to pages that were not mapped,
\* followed by zeroes.
Move(p, n, q, m) ==
  /\ p .. p + n - 1 \subseteq Mapped /\ (q .. q + m - 1) \cap Mapped = {}
  /\ space' = [r \in (Mapped \ (p .. p + n - 1)) \cup (q .. q + m - 1) |->
                 IF r \in q .. q + n - 1 THEN space[p + (r - q)]
                 ELSE IF r \in q .. q + m - 1 THEN 0 ELSE space[r]]
\* The guest writes to a page of its own.
Write(p, v) == p \in Mapped /\ v \in Value /\ space' = [space EXCEPT ![p] = v]

Next == \/ Map
        \/ \E p, n \in Page : Unmap(p .. p + n)
        \/ \E p, n, q, m \in Page : Move(p, n, q, m)
        \/ \E p \in Mapped, v \in Value : Write(p, v)
Spec == Init /\ [][Next]_space
=============================================================================
