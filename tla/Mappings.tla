------------------------------ MODULE Mappings ------------------------------
(***************************************************************************)
(* The guest's memory mappings (memory_guest.c).  A mapping is a piece of  *)
(* a block from malloc; a partial munmap shrinks or splits it, the pieces  *)
(* share the block and count as its references, and the last one frees it. *)
(*                                                                         *)
(* Addresses and lengths are in pages: PAGE_ROUND has been applied, and    *)
(* the misaligned and overflowing arguments that are refused with EINVAL   *)
(* are refusals like any other.  The order of the list `mappings' does not *)
(* matter except to a munmap that fails half way.                          *)
(***************************************************************************)
EXTENDS Naturals, FiniteSets

CONSTANTS Pages,     \* of the arena: addresses are 0 .. Pages - 1
          Value      \* the contents of a page; 0 is what a new mapping holds

ASSUME MappingAssumption == Pages \in Nat /\ Value \subseteq Nat /\ 0 \in Value

Page == 0 .. Pages - 1
Span(base, size) == base .. base + size - 1

VARIABLES
  mappings,     \* the pieces: base, size and block
  references,   \* of each block, by its first page
  block,        \* how many pages a block has, 0 where none begins
  content,      \* of every page of the arena
  rc

vars == << mappings, references, block, content, rc >>

Mapping == [base : Page, size : 1 .. Pages, memory : Page]
Piece(b, n, m) == [base |-> b, size |-> n, memory |-> m]

Init ==
  /\ mappings = {} /\ references = [p \in Page |-> 0] /\ block = [p \in Page |-> 0]
  /\ content \in [Page -> Value] /\ rc = "ok"
-----------------------------------------------------------------------------
\* malloc: a run of n pages that no block has.
Free(b, n) ==
  /\ Span(b, n) \subseteq Page
  /\ \A p \in Page : block[p] # 0 => Span(p, block[p]) \cap Span(b, n) = {}

\* Invalid arguments, no memory, a read error: nothing is kept.
Refused == rc' = "error" /\ UNCHANGED << mappings, references, block, content >>

\* The memset, and what pread returned from the file, perhaps less than asked for.
NewContent(b, n, data) ==
  [p \in Page |-> IF p \in Span(b, n) THEN data[p - b] ELSE content[p]]

mmap(b, n) ==
  \/ /\ Free(b, n)
     /\ mappings' = mappings \cup {Piece(b, n, b)}
     /\ references' = [references EXCEPT ![b] = 1] /\ block' = [block EXCEPT ![b] = n]
     /\ \E data \in [0 .. n - 1 -> Value] : content' = NewContent(b, n, data)
     /\ rc' = "ok"
  \/ Refused

Limit(m) == m.base + m.size
Overlaps(m, start, end) == start < Limit(m) /\ m.base < end
\* Mutant: a mapping that only loses its end gets a new record too.
MutSplits(m, start, end) == m.base < start /\ start < Limit(m)
Splits(m, start, end) == m.base < start /\ end < Limit(m)
Covered(m, start, end) == start <= m.base /\ Limit(m) <= end
\* What is left of a mapping when start .. end - 1 goes.
Remains(m, start, end) ==
  IF ~Overlaps(m, start, end) THEN {m}
  ELSE (IF m.base < start THEN {Piece(m.base, start - m.base, m.memory)} ELSE {})
       \cup (IF end < Limit(m) THEN {Piece(end, Limit(m) - end, m.memory)} ELSE {})
Unmapped(ms, start, end) == UNION {Remains(m, start, end) : m \in ms}
\* Mutant: the pieces of a split mapping count once.
MutCounted(refs, ms, start, end) ==
  [p \in Page |-> refs[p] - Cardinality({m \in ms : m.memory = p /\ Covered(m, start, end)})]
\* A split adds a reference to its block, a mapping that goes releases one.
Counted(refs, ms, start, end) ==
  [p \in Page |-> refs[p] + Cardinality({m \in ms : m.memory = p /\ Splits(m, start, end)})
                          - Cardinality({m \in ms : m.memory = p /\ Covered(m, start, end)})]
\* release: a block without references is freed.
Freed(blocks, refs) == [p \in Page |-> IF refs[p] = 0 THEN 0 ELSE blocks[p]]

\* The list is walked over: all overlapping mappings go, or the record for a split
\* cannot be allocated, when those before it have gone.
Unmap(start, end) ==
  \/ /\ mappings' = Unmapped(mappings, start, end)
     /\ references' = Counted(references, mappings, start, end)
     /\ block' = Freed(block, references')
     /\ rc' = "ok" /\ UNCHANGED content
  \/ /\ \E m \in mappings : Splits(m, start, end)
     /\ \E done \in SUBSET {m \in mappings : ~Splits(m, start, end)} :
          /\ mappings' = (mappings \ done) \cup Unmapped(done, start, end)
          /\ references' = Counted(references, done, start, end)
          /\ block' = Freed(block, references')
     /\ rc' = "error" /\ UNCHANGED content

munmap(start, n) == Unmap(start, start + n)

\* Mutant: the range may end anywhere.
MutContaining(start, n) == {m \in mappings : start \in Span(m.base, m.size)}
\* The mapping that has the whole range, if there is one.
containing(start, n) == {m \in mappings : m.base <= start /\ start + n <= Limit(m)}

\* mremap that does not grow: the end is unmapped.
Shrink(start, old, new) ==
  /\ containing(start, old) # {} /\ new <= old
  /\ IF new < old THEN Unmap(start + new, start + old)
                  ELSE rc' = "ok" /\ UNCHANGED << mappings, references, block, content >>
\* mremap that grows: a new mapping, a copy, and munmap of the old one, whose failure
\* is ignored.
Grow(start, old, new, b) ==
  /\ containing(start, old) # {} /\ new > old
  /\ \/ /\ Free(b, new)
        /\ content' = NewContent(b, new, [i \in 0 .. new - 1 |->
                                            IF i < old THEN content[start + i] ELSE 0])
        /\ LET ms == mappings \cup {Piece(b, new, b)}
               refs == [references EXCEPT ![b] = 1]
               blocks == [block EXCEPT ![b] = new]
           IN  \/ /\ mappings' = Unmapped(ms, start, start + old)
                  /\ references' = Counted(refs, ms, start, start + old)
                  /\ block' = Freed(blocks, references')
               \/ /\ \E m \in mappings : Splits(m, start, start + old)
                  /\ mappings' = ms /\ references' = refs /\ block' = blocks
        /\ rc' = "ok"
     \/ Refused

\* The guest writes to a page it has mapped.
Write(p, v) ==
  /\ containing(p, 1) # {} /\ content' = [content EXCEPT ![p] = v]
  /\ rc' = "ok" /\ UNCHANGED << mappings, references, block >>

Next == \/ \E b \in Page, n \in 1 .. Pages : mmap(b, n)
        \/ \E start \in Page, n \in 1 .. Pages : munmap(start, n)
        \/ \E start \in Page, old, new \in 1 .. Pages : Shrink(start, old, new)
        \/ \E start, b \in Page, old, new \in 1 .. Pages : Grow(start, old, new, b)
        \/ \E p \in Page, v \in Value : Write(p, v)
Spec == Init /\ [][Next]_vars
-----------------------------------------------------------------------------
(* Properties. *)

\* Type correctness.
TypeOK ==
  /\ mappings \subseteq Mapping /\ references \in [Page -> Nat] /\ block \in [Page -> 0 .. Pages]
  /\ content \in [Page -> Value] /\ rc \in {"ok", "error"}

\* No page belongs to two mappings, through any sequence of splits and moves.
Disjoint ==
  \A m, k \in mappings : m # k => Span(m.base, m.size) \cap Span(k.base, k.size) = {}

\* No use after free: every mapping lies in a block that has not been freed.
InBlock ==
  \A m \in mappings : /\ block[m.memory] # 0
                      /\ Span(m.base, m.size) \subseteq Span(m.memory, block[m.memory])

\* No leak and no double free: a block is kept exactly as long as it has pieces, and
\* counts them.
ReferencesExact ==
  \A p \in Page : /\ references[p] = Cardinality({m \in mappings : m.memory = p})
                  /\ block[p] # 0 <=> references[p] # 0

\* Pieces, blocks and counts fit together after any sequence of splits and moves.
WellFormed == TypeOK /\ Disjoint /\ InBlock /\ ReferencesExact

\* A call that fails has changed nothing, although munmap walks a list and may run out
\* of memory in the middle of it.
FailureChangesNothing ==
  [][rc' = "error" => UNCHANGED << mappings, references, block, content >>]_vars

PagesOf(ms) == UNION {Span(m.base, m.size) : m \in ms}
Space == [p \in PagesOf(mappings) |-> content[p]]
Linux == INSTANCE AddressSpace WITH space <- Space
\* Pieces, blocks and counts behave as Linux's pages ("partial munmap and mremap
\* shrinking or moving growth"), and a call that fails leaves even the pieces alone.
Refinement == Linux!Spec /\ FailureChangesNothing
=============================================================================
