--------------------------- MODULE MappingsProofs ---------------------------
(***************************************************************************)
(* Proofs about Mappings, for every size of the arena and every contents.  *)
(***************************************************************************)
EXTENDS Mappings, FiniteSetTheorems, TLAPS

\* Two pieces have no page in common; a piece lies within a block.
Apart(m, k) == Limit(m) <= k.base \/ Limit(k) <= m.base
Inside(m, first, size) == first <= m.base /\ Limit(m) <= first + size

\* WellFormed in numbers, of any pieces, counts and blocks.  It is inductive once
\* every block ends within the arena and the pieces are finitely many.
Good(ms, refs, blocks) ==
  /\ ms \subseteq Mapping /\ IsFiniteSet(ms)
  /\ refs \in [Page -> Nat] /\ blocks \in [Page -> 0 .. Pages]
  /\ \A p \in Page : p + blocks[p] <= Pages
  /\ \A m, k \in ms : m # k => Apart(m, k)
  /\ \A m \in ms : blocks[m.memory] # 0 /\ Inside(m, m.memory, blocks[m.memory])
  /\ \A p \in Page : /\ refs[p] = Cardinality({m \in ms : m.memory = p})
                     /\ blocks[p] # 0 <=> refs[p] # 0

LEMMA MappingType ==
  ASSUME NEW m \in Mapping
  PROVE  /\ m.base \in Nat /\ m.size \in Nat /\ m.size >= 1 /\ m.base < Pages /\ m.size <= Pages
         /\ m.memory \in Page /\ m.memory \in Nat /\ Limit(m) \in Nat /\ Limit(m) > m.base
         /\ Span(m.base, m.size) = m.base .. Limit(m) - 1
         /\ m = Piece(m.base, m.size, m.memory)
  BY MappingAssumption DEF Mapping, Page, Limit, Span, Piece

LEMMA PieceFields ==
  ASSUME NEW b, NEW n, NEW p
  PROVE  Piece(b, n, p).base = b /\ Piece(b, n, p).size = n /\ Piece(b, n, p).memory = p
         /\ Limit(Piece(b, n, p)) = b + n
  BY DEF Piece, Limit

\* Intervals.
LEMMA Intervals ==
  ASSUME NEW a \in Nat, NEW b \in Nat, NEW c \in Nat, NEW d \in Nat, a < b, c < d
  PROVE  /\ (a .. b - 1) \cap (c .. d - 1) = {} <=> (b <= c \/ d <= a)
         /\ (a .. b - 1) \subseteq (c .. d - 1) <=> (c <= a /\ b <= d)
  <1>1. ASSUME (a .. b - 1) \cap (c .. d - 1) = {} PROVE b <= c \/ d <= a
    <2>1. a \notin c .. d - 1 /\ c \notin a .. b - 1
      BY <1>1
    <2> QED BY <2>1
  <1>2. ASSUME b <= c \/ d <= a PROVE (a .. b - 1) \cap (c .. d - 1) = {}
    BY <1>2
  <1>3. ASSUME (a .. b - 1) \subseteq (c .. d - 1) PROVE c <= a /\ b <= d
    <2>1. a \in c .. d - 1 /\ b - 1 \in c .. d - 1
      BY <1>3
    <2> QED BY <2>1
  <1>4. ASSUME c <= a /\ b <= d PROVE (a .. b - 1) \subseteq (c .. d - 1)
    BY <1>4
  <1> QED BY <1>1, <1>2, <1>3, <1>4

LEMMA GoodIsWellFormed ==
  ASSUME Good(mappings, references, block), content \in [Page -> Value], rc \in {"ok", "error"}
  PROVE  WellFormed
  <1>1. TypeOK
    BY DEF Good, TypeOK
  <1>2. Disjoint
    <2> SUFFICES ASSUME NEW m \in mappings, NEW k \in mappings, m # k
                 PROVE  Span(m.base, m.size) \cap Span(k.base, k.size) = {}
      BY DEF Disjoint
    <2>1. m \in Mapping /\ k \in Mapping /\ Apart(m, k)
      BY DEF Good
    <2> QED BY <2>1, MappingType, Intervals DEF Apart
  <1>3. InBlock
    <2> SUFFICES ASSUME NEW m \in mappings
                 PROVE  /\ block[m.memory] # 0
                        /\ Span(m.base, m.size) \subseteq Span(m.memory, block[m.memory])
      BY DEF InBlock
    <2>1. m \in Mapping /\ block[m.memory] # 0 /\ Inside(m, m.memory, block[m.memory])
      BY DEF Good
    <2>2. block[m.memory] \in Nat
      BY <2>1, MappingType, MappingAssumption DEF Good
    <2>3. Span(m.memory, block[m.memory]) = m.memory .. (m.memory + block[m.memory]) - 1
      BY <2>1, <2>2, MappingType DEF Span
    <2>4. /\ m.memory \in Nat /\ m.memory + block[m.memory] \in Nat /\ m.memory < m.memory + block[m.memory]
          /\ m.memory <= m.base /\ Limit(m) <= m.memory + block[m.memory]
      BY <2>1, <2>2, MappingType DEF Inside
    <2>5. Span(m.base, m.size) = m.base .. Limit(m) - 1 /\ m.base \in Nat /\ Limit(m) \in Nat /\ m.base < Limit(m)
      BY <2>1, MappingType
    <2> QED BY <2>1, <2>3, <2>4, <2>5, Intervals
  <1>4. ReferencesExact
    BY DEF Good, ReferencesExact
  <1> QED BY <1>1, <1>2, <1>3, <1>4 DEF WellFormed
-----------------------------------------------------------------------------
(* A new mapping. *)

LEMMA MapStep ==
  ASSUME NEW ms, NEW refs, NEW blocks, Good(ms, refs, blocks),
         NEW b \in Page, NEW n \in 1 .. Pages, b + n <= Pages,
         \A p \in Page : blocks[p] # 0 => p + blocks[p] <= b \/ b + n <= p
  PROVE  /\ \A m \in ms : Apart(m, Piece(b, n, b))
         /\ Good(ms \cup {Piece(b, n, b)}, [refs EXCEPT ![b] = 1], [blocks EXCEPT ![b] = n])
  <1> DEFINE q == Piece(b, n, b)
             ms2 == ms \cup {q}
             refs2 == [refs EXCEPT ![b] = 1]
             blocks2 == [blocks EXCEPT ![b] = n]
  <1>0. /\ b \in Nat /\ n \in Nat /\ n >= 1 /\ Pages \in Nat
        /\ blocks \in [Page -> 0 .. Pages] /\ refs \in [Page -> Nat] /\ ms \subseteq Mapping
        /\ IsFiniteSet(ms)
    BY MappingAssumption DEF Page, Good
  <1>1. q \in Mapping
    BY <1>0 DEF Piece, Mapping
  <1>2. blocks[b] = 0
    BY <1>0
  <1>3. \A m \in ms : m.memory # b
    BY <1>2 DEF Good
  <1>4. \A m \in ms : Apart(m, q)
    <2> SUFFICES ASSUME NEW m \in ms PROVE Apart(m, q)
      OBVIOUS
    <2>1. m \in Mapping /\ blocks[m.memory] # 0 /\ Inside(m, m.memory, blocks[m.memory])
      BY DEF Good
    <2>2. m.memory + blocks[m.memory] <= b \/ b + n <= m.memory
      BY <2>1, MappingType
    <2>3. blocks[m.memory] \in Nat
      BY <1>0, <2>1, MappingType
    <2> QED BY <1>0, <2>1, <2>2, <2>3, MappingType, PieceFields DEF Inside, Apart
  <1>5. \A m, k \in ms2 : m # k => Apart(m, k)
    BY <1>4 DEF Good, Apart
  <1>6. \A m \in ms2 : blocks2[m.memory] # 0 /\ Inside(m, m.memory, blocks2[m.memory])
    <2>1. \A m \in ms : blocks2[m.memory] = blocks[m.memory]
      BY <1>0, <1>3, MappingType
    <2>2. blocks2[q.memory] = n /\ q.base = b /\ Limit(q) = b + n /\ q.memory = b
      BY <1>0, PieceFields
    <2> QED BY <1>0, <2>1, <2>2 DEF Good, Inside
  <1>7. ASSUME NEW p \in Page
        PROVE  /\ refs2[p] = Cardinality({m \in ms2 : m.memory = p})
               /\ blocks2[p] # 0 <=> refs2[p] # 0
    <2>1. CASE p = b
      <3>1. {m \in ms2 : m.memory = p} = {q}
        BY <1>3, <2>1, PieceFields
      <3>2. Cardinality({q}) = 1
        BY FS_Singleton
      <3>3. refs2[p] = 1 /\ blocks2[p] = n
        BY <1>0, <2>1
      <3> QED BY <1>0, <3>1, <3>2, <3>3
    <2>2. CASE p # b
      <3>1. {m \in ms2 : m.memory = p} = {m \in ms : m.memory = p}
        BY <2>2, PieceFields
      <3> QED BY <1>0, <2>2, <3>1 DEF Good
    <2> QED BY <2>1, <2>2
  <1>8. IsFiniteSet(ms2)
    BY <1>0, FS_AddElement
  <1>9. refs2 \in [Page -> Nat] /\ blocks2 \in [Page -> 0 .. Pages] /\ ms2 \subseteq Mapping
    BY <1>0, <1>1
  <1>10. \A p \in Page : p + blocks2[p] <= Pages
    BY <1>0 DEF Good
  <1> HIDE DEF ms2, refs2, blocks2
  <1>11. Good(ms2, refs2, blocks2)
    BY <1>5, <1>6, <1>7, <1>8, <1>9, <1>10 DEF Good
  <1> QED BY <1>4, <1>11 DEF ms2, refs2, blocks2
-----------------------------------------------------------------------------
(* Unmapping: the mappings in done have been walked over, the others not. *)

After(ms, done, start, end) == (ms \ done) \cup Unmapped(done, start, end)
\* The first and the second piece of what remains of a mapping.
Left(m, start, end) == IF Overlaps(m, start, end)
                         THEN IF m.base < start THEN Piece(m.base, start - m.base, m.memory)
                              ELSE Piece(end, Limit(m) - end, m.memory)
                       ELSE m
Right(m, end) == Piece(end, Limit(m) - end, m.memory)

LEMMA WhatRemains ==
  ASSUME NEW m \in Mapping, NEW start \in Nat, NEW end \in Nat, start < end
  PROVE  Remains(m, start, end) =
           (IF Covered(m, start, end) THEN {} ELSE {Left(m, start, end)})
           \cup (IF Splits(m, start, end) THEN {Right(m, end)} ELSE {})
  <1>1. m.base \in Nat /\ Limit(m) \in Nat /\ m.base < Limit(m)
    BY MappingType
  <1>2. CASE ~Overlaps(m, start, end)
    BY <1>1, <1>2 DEF Remains, Overlaps, Covered, Splits, Left
  <1>3. CASE Overlaps(m, start, end)
    BY <1>1, <1>3 DEF Remains, Overlaps, Covered, Splits, Left, Right
  <1> QED BY <1>2, <1>3

\* A piece of a mapping is a mapping, lies within it and belongs to the same block.
Part(k, m) == k.base >= m.base /\ Limit(k) <= Limit(m) /\ k.memory = m.memory

LEMMA LeftPart ==
  ASSUME NEW m \in Mapping, Limit(m) <= Pages, NEW start \in Nat, NEW end \in Nat, start < end,
         ~Covered(m, start, end)
  PROVE  Left(m, start, end) \in Mapping /\ Part(Left(m, start, end), m)
  <1>1. /\ m.base \in Nat /\ Limit(m) \in Nat /\ m.base < Limit(m) /\ m.size \in Nat
        /\ Limit(m) = m.base + m.size /\ m.memory \in Page /\ Pages \in Nat
    BY MappingType, MappingAssumption DEF Limit
  <1>2. CASE ~Overlaps(m, start, end)
    BY <1>1, <1>2 DEF Left, Part
  <1>3. CASE Overlaps(m, start, end) /\ m.base < start
    <2>1. Left(m, start, end) = Piece(m.base, start - m.base, m.memory)
      BY <1>3 DEF Left
    <2>2. start < Limit(m)
      BY <1>3 DEF Overlaps
    <2> QED BY <1>1, <1>3, <2>1, <2>2, PieceFields DEF Part, Mapping, Piece, Page
  <1>4. CASE Overlaps(m, start, end) /\ ~(m.base < start)
    <2>1. Left(m, start, end) = Piece(end, Limit(m) - end, m.memory)
      BY <1>4 DEF Left
    <2>2. end < Limit(m) /\ m.base < end
      BY <1>1, <1>4 DEF Overlaps, Covered
    <2> QED BY <1>1, <1>4, <2>1, <2>2, PieceFields DEF Part, Mapping, Piece, Page
  <1> QED BY <1>2, <1>3, <1>4

LEMMA RightPart ==
  ASSUME NEW m \in Mapping, Limit(m) <= Pages, NEW start \in Nat, NEW end \in Nat, start < end,
         Splits(m, start, end)
  PROVE  /\ Right(m, end) \in Mapping /\ Part(Right(m, end), m)
         /\ ~Covered(m, start, end) /\ Apart(Left(m, start, end), Right(m, end))
         /\ Left(m, start, end) # Right(m, end)
  <1>1. /\ m.base \in Nat /\ Limit(m) \in Nat /\ m.base < Limit(m) /\ m.size \in Nat
        /\ Limit(m) = m.base + m.size /\ m.memory \in Page /\ Pages \in Nat
    BY MappingType, MappingAssumption DEF Limit
  <1>2. m.base < start /\ end < Limit(m)
    BY DEF Splits
  <1>3. Left(m, start, end) = Piece(m.base, start - m.base, m.memory)
    BY <1>1, <1>2 DEF Left, Overlaps
  <1>4. Right(m, end) \in Mapping /\ Part(Right(m, end), m)
    BY <1>1, <1>2, PieceFields DEF Right, Part, Mapping, Piece, Page
  <1>5. ~Covered(m, start, end)
    BY <1>1, <1>2 DEF Covered
  <1>6. Apart(Left(m, start, end), Right(m, end)) /\ Left(m, start, end) # Right(m, end)
    BY <1>1, <1>2, <1>3, PieceFields DEF Right, Apart
  <1> QED BY <1>4, <1>5, <1>6

\* Parts of mappings that are apart are apart, and so they differ.
LEMMA PartsApart ==
  ASSUME NEW m \in Mapping, NEW k \in Mapping, Apart(m, k),
         NEW a \in Mapping, NEW b \in Mapping, Part(a, m), Part(b, k)
  PROVE  Apart(a, b) /\ a # b
  <1>1. /\ a.base \in Nat /\ Limit(a) \in Nat /\ a.base < Limit(a)
        /\ b.base \in Nat /\ Limit(b) \in Nat /\ b.base < Limit(b)
        /\ m.base \in Nat /\ Limit(m) \in Nat /\ k.base \in Nat /\ Limit(k) \in Nat
    BY MappingType
  <1>2. Apart(a, b)
    BY <1>1 DEF Part, Apart
  <1> QED BY <1>1, <1>2 DEF Apart

\* Where the pieces after a step come from.
FirstPieces(ms, start, end) ==
  {Left(m, start, end) : m \in {d \in ms : ~Covered(d, start, end)}}
SecondPieces(ms, start, end) ==
  {Right(m, end) : m \in {d \in ms : Splits(d, start, end)}}

LEMMA Origin ==
  ASSUME NEW ms \in SUBSET Mapping, NEW done \in SUBSET ms,
         NEW start \in Nat, NEW end \in Nat, start < end
  PROVE  After(ms, done, start, end) =
           (ms \ done) \cup FirstPieces(done, start, end) \cup SecondPieces(done, start, end)
  <1>1. ASSUME NEW k
        PROVE  k \in Unmapped(done, start, end) <=> \E m \in done : k \in Remains(m, start, end)
    BY DEF Unmapped
  <1>2. ASSUME NEW k, NEW m \in done
        PROVE  k \in Remains(m, start, end) <=>
                 \/ ~Covered(m, start, end) /\ k = Left(m, start, end)
                 \/ Splits(m, start, end) /\ k = Right(m, end)
    BY WhatRemains
  <1> QED BY <1>1, <1>2 DEF After, FirstPieces, SecondPieces

\* A split adds one piece to those of its block and a covered mapping takes one away:
\* mappings that keep something correspond to their first pieces, split ones to
\* their second.
LEMMA PiecesCounted ==
  ASSUME NEW ms \in SUBSET Mapping, IsFiniteSet(ms), NEW done \in SUBSET ms,
         NEW start \in Nat, NEW end \in Nat, start < end, NEW p \in Page,
         \A m \in ms : Limit(m) <= Pages,
         \A m, k \in ms : m # k => Apart(m, k)
  PROVE  /\ IsFiniteSet({k \in After(ms, done, start, end) : k.memory = p})
         /\ Cardinality({k \in After(ms, done, start, end) : k.memory = p}) =
              Cardinality({m \in ms : m.memory = p})
              + Cardinality({m \in done : m.memory = p /\ Splits(m, start, end)})
              - Cardinality({m \in done : m.memory = p /\ Covered(m, start, end)})
  <1> DEFINE S == {m \in ms : m.memory = p}
             C == {m \in done : m.memory = p /\ Covered(m, start, end)}
             D == {m \in done : m.memory = p /\ Splits(m, start, end)}
             A == S \ C
             new == {k \in After(ms, done, start, end) : k.memory = p}
             f == [m \in A |-> IF m \in done THEN Left(m, start, end) ELSE m]
             g == [m \in D |-> Right(m, end)]
             T == {f[m] : m \in A}
             R == {g[m] : m \in D}
  <1>1. IsFiniteSet(S) /\ IsFiniteSet(C) /\ IsFiniteSet(D) /\ IsFiniteSet(A)
    <2>1. S \in SUBSET ms /\ C \in SUBSET ms /\ D \in SUBSET ms /\ A \in SUBSET ms
      OBVIOUS
    <2> QED BY <2>1, FS_Subset
  <1>2. Cardinality(A) = Cardinality(S) - Cardinality(C)
    <2>1. S \cap C = C
      OBVIOUS
    <2> QED BY <1>1, <2>1, FS_Difference
  <1>3. \A m \in A : f[m] \in Mapping /\ Part(f[m], m)
    <2> SUFFICES ASSUME NEW m \in A PROVE f[m] \in Mapping /\ Part(f[m], m)
      OBVIOUS
    <2>1. m \in Mapping /\ Limit(m) <= Pages
      OBVIOUS
    <2>2. CASE m \in done
      <3>1. ~Covered(m, start, end) /\ f[m] = Left(m, start, end)
        BY <2>2
      <3> QED BY <2>1, <3>1, LeftPart
    <2>3. CASE m \notin done
      <3>1. f[m] = m /\ m.base \in Nat /\ Limit(m) \in Nat
        BY <2>1, <2>3, MappingType
      <3> QED BY <2>1, <3>1 DEF Part
    <2> QED BY <2>2, <2>3
  <1>4. \A m \in D : g[m] \in Mapping /\ Part(g[m], m) /\ m \in A /\ f[m] # g[m]
    <2> SUFFICES ASSUME NEW m \in D
                 PROVE  g[m] \in Mapping /\ Part(g[m], m) /\ m \in A /\ f[m] # g[m]
      OBVIOUS
    <2>1. m \in Mapping /\ Limit(m) <= Pages /\ Splits(m, start, end) /\ m \in done /\ m.memory = p
          /\ g[m] = Right(m, end)
      OBVIOUS
    <2>2. ~Covered(m, start, end)
      BY <2>1, RightPart
    <2>3. m \in A
      BY <2>1, <2>2
    <2>4. f[m] = Left(m, start, end)
      BY <2>1, <2>3
    <2> QED BY <2>1, <2>3, <2>4, RightPart
  <1>5. \A m, k \in A : m # k => f[m] # f[k]
    BY <1>3, PartsApart
  <1>6. \A m, k \in D : m # k => g[m] # g[k]
    BY <1>4, PartsApart
  <1>7. \A m \in A : \A k \in D : f[m] # g[k]
    <2> SUFFICES ASSUME NEW m \in A, NEW k \in D PROVE f[m] # g[k]
      OBVIOUS
    <2>1. CASE m = k
      BY <1>4, <2>1
    <2>2. CASE m # k
      <3>1. m \in Mapping /\ k \in Mapping /\ Apart(m, k)
        BY <1>4, <2>2
      <3>2. f[m] \in Mapping /\ Part(f[m], m) /\ g[k] \in Mapping /\ Part(g[k], k)
        BY <1>3, <1>4
      <3> HIDE DEF f, g
      <3> QED BY <3>1, <3>2, PartsApart
    <2> QED BY <2>1, <2>2
  <1>8. new = T \cup R
    <2> SUFFICES ASSUME NEW k PROVE k \in new <=> k \in T \cup R
      OBVIOUS
    <2>1. k \in T <=> \/ k \in ms \ done /\ k.memory = p
                      \/ \E m \in done : ~Covered(m, start, end) /\ m.memory = p /\ k = Left(m, start, end)
      <3>1. \A m \in ms \ done : m.memory = p => m \in A /\ f[m] = m
        OBVIOUS
      <3>2. \A m \in done : m \in A <=> m.memory = p /\ ~Covered(m, start, end)
        OBVIOUS
      <3>3. \A m \in A : f[m] = IF m \in done THEN Left(m, start, end) ELSE m
        OBVIOUS
      <3>4. A \subseteq ms /\ \A m \in A : m.memory = p
        OBVIOUS
      <3>5. k \in T <=> \E m \in A : k = f[m]
        OBVIOUS
      <3> HIDE DEF f, A, T
      <3> QED BY <3>1, <3>2, <3>3, <3>4, <3>5
    <2>2. k \in R <=> \E m \in done : Splits(m, start, end) /\ m.memory = p /\ k = Right(m, end)
      OBVIOUS
    <2>3. \A m \in done : ~Covered(m, start, end) => Left(m, start, end).memory = m.memory
      BY LeftPart DEF Part
    <2>4. \A m \in done : Right(m, end).memory = m.memory
      BY PieceFields DEF Right
    <2>5. k \in new <=> k \in After(ms, done, start, end) /\ k.memory = p
      OBVIOUS
    <2> HIDE DEF S, C, D, A, f, g, T, R, new
    <2>6. k \in After(ms, done, start, end) <=>
            \/ k \in ms \ done
            \/ \E m \in done : ~Covered(m, start, end) /\ k = Left(m, start, end)
            \/ \E m \in done : Splits(m, start, end) /\ k = Right(m, end)
      <3>1. After(ms, done, start, end) =
              (ms \ done) \cup FirstPieces(done, start, end) \cup SecondPieces(done, start, end)
        BY Origin
      <3> QED BY ONLY <3>1 DEF FirstPieces, SecondPieces
    <2>7. (\E m \in done : ~Covered(m, start, end) /\ k = Left(m, start, end)) /\ k.memory = p <=>
             \E m \in done : ~Covered(m, start, end) /\ m.memory = p /\ k = Left(m, start, end)
      BY ONLY <2>3
    <2>8. (\E m \in done : Splits(m, start, end) /\ k = Right(m, end)) /\ k.memory = p <=>
             \E m \in done : Splits(m, start, end) /\ m.memory = p /\ k = Right(m, end)
      BY ONLY <2>4
    <2> QED BY ONLY <2>1, <2>2, <2>5, <2>6, <2>7, <2>8
  <1>9. IsFiniteSet(T) /\ Cardinality(T) = Cardinality(A)
    <2>1. f \in Bijection(A, T)
      BY <1>5 DEF Bijection, Injection, Surjection, IsInjective
    <2> QED BY <1>1, <2>1, FS_Bijection DEF ExistsBijection
  <1>10. IsFiniteSet(R) /\ Cardinality(R) = Cardinality(D)
    <2>1. g \in Bijection(D, R)
      BY <1>6 DEF Bijection, Injection, Surjection, IsInjective
    <2> QED BY <1>1, <2>1, FS_Bijection DEF ExistsBijection
  <1>11. T \cap R = {}
    BY <1>7
  <1>12. IsFiniteSet(new) /\ Cardinality(new) = Cardinality(T) + Cardinality(R)
    <2>1. Cardinality(T \cap R) = 0 /\ Cardinality(T) \in Nat /\ Cardinality(R) \in Nat
      BY <1>9, <1>10, <1>11, FS_EmptySet, FS_CardinalityType
    <2> HIDE DEF T, R, new
    <2>2. /\ IsFiniteSet(T \cup R)
          /\ Cardinality(T \cup R) = Cardinality(T) + Cardinality(R) - Cardinality(T \cap R)
      BY <1>9, <1>10, FS_Union
    <2> QED BY <1>8, <2>1, <2>2
  <1>13. Cardinality(S) \in Nat /\ Cardinality(C) \in Nat /\ Cardinality(D) \in Nat
    BY <1>1, FS_CardinalityType
  <1> HIDE DEF S, C, D, A, new, f, g, T, R
  <1>14. Cardinality(new) = Cardinality(S) + Cardinality(D) - Cardinality(C)
    BY <1>2, <1>9, <1>10, <1>12, <1>13
  <1> QED BY <1>12, <1>14 DEF new, S, C, D

\* There are only so many pieces.
LEMMA FinitelyMany == IsFiniteSet(Mapping)
  <1> DEFINE triples == (Page \X (1 .. Pages)) \X Page
             f == [x \in triples |-> Piece(x[1][1], x[1][2], x[2])]
  <1>1. IsFiniteSet(Page) /\ IsFiniteSet(1 .. Pages)
    BY MappingAssumption, FS_Interval DEF Page
  <1>2. IsFiniteSet(triples)
    BY <1>1, FS_Product
  <1>3. f \in Surjection(triples, Mapping)
    <2>1. f \in [triples -> Mapping]
      BY DEF Mapping, Piece
    <2>2. ASSUME NEW m \in Mapping PROVE \E x \in triples : f[x] = m
      <3>1. m.base \in Page /\ m.size \in 1 .. Pages /\ m.memory \in Page
            /\ m = Piece(m.base, m.size, m.memory)
        BY MappingType DEF Mapping
      <3>2. << << m.base, m.size >>, m.memory >> \in triples
        BY <3>1
      <3> QED BY <3>1, <3>2
    <2> QED BY <2>1, <2>2 DEF Surjection
  <1> QED BY <1>2, <1>3, FS_Surjection

\* Every piece after a step is a part of a mapping before it, and two of them are apart.
LEMMA Parts ==
  ASSUME NEW ms, NEW refs, NEW blocks, Good(ms, refs, blocks), NEW done \in SUBSET ms,
         NEW start \in Nat, NEW end \in Nat, start < end
  PROVE  /\ \A k \in After(ms, done, start, end) : k \in Mapping /\ \E m \in ms : Part(k, m)
         /\ \A k, j \in After(ms, done, start, end) : k # j => Apart(k, j)
  <1> DEFINE From(k, m) == \/ k = m /\ m \notin done
                           \/ m \in done /\ ~Covered(m, start, end) /\ k = Left(m, start, end)
                           \/ m \in done /\ Splits(m, start, end) /\ k = Right(m, end)
  <1>1. ms \in SUBSET Mapping /\ \A m \in ms : m \in Mapping
    BY DEF Good
  <1>2. \A m \in ms : Limit(m) <= Pages
    <2> SUFFICES ASSUME NEW m \in ms PROVE Limit(m) <= Pages
      OBVIOUS
    <2>1. m.memory \in Page /\ Limit(m) \in Nat /\ m.memory \in Nat /\ Pages \in Nat
      BY <1>1, MappingType, MappingAssumption
    <2>2. m.memory + blocks[m.memory] <= Pages /\ Limit(m) <= m.memory + blocks[m.memory]
          /\ blocks[m.memory] \in Nat
      BY <2>1 DEF Good, Inside
    <2> QED BY <2>1, <2>2
  <1>3. ASSUME NEW k \in After(ms, done, start, end) PROVE \E m \in ms : From(k, m)
    BY <1>1, Origin DEF FirstPieces, SecondPieces
  <1>4. ASSUME NEW k, NEW m \in ms, From(k, m) PROVE k \in Mapping /\ Part(k, m)
    <2>1. CASE k = m
      <3>1. m.base \in Nat /\ Limit(m) \in Nat
        BY <1>1, MappingType
      <3> QED BY <1>1, <2>1, <3>1 DEF Part
    <2>2. CASE ~Covered(m, start, end) /\ k = Left(m, start, end)
      BY <1>1, <1>2, <2>2, LeftPart
    <2>3. CASE Splits(m, start, end) /\ k = Right(m, end)
      BY <1>1, <1>2, <2>3, RightPart
    <2> QED BY <1>4, <2>1, <2>2, <2>3
  <1>5. ASSUME NEW m \in ms, NEW k, NEW j, From(k, m), From(j, m), k # j PROVE Apart(k, j)
    <2>1. /\ Splits(m, start, end)
          /\ \/ k = Left(m, start, end) /\ j = Right(m, end)
             \/ j = Left(m, start, end) /\ k = Right(m, end)
      BY <1>5
    <2>2. Apart(Left(m, start, end), Right(m, end))
      BY <1>1, <1>2, <2>1, RightPart
    <2> QED BY <2>1, <2>2 DEF Apart
  <1>6. ASSUME NEW m \in ms, NEW i \in ms, m # i, NEW k, NEW j, From(k, m), From(j, i)
        PROVE  Apart(k, j)
    <2>1. Apart(m, i)
      BY <1>6 DEF Good
    <2>2. k \in Mapping /\ Part(k, m) /\ j \in Mapping /\ Part(j, i) /\ m \in Mapping /\ i \in Mapping
      BY <1>1, <1>4, <1>6
    <2> QED BY <2>1, <2>2, PartsApart
  <1> HIDE DEF From
  <1> QED BY <1>3, <1>4, <1>5, <1>6

\* What munmap has done at any point of its walk fits together.
LEMMA UnmapStep ==
  ASSUME NEW ms, NEW refs, NEW blocks, Good(ms, refs, blocks), NEW done \in SUBSET ms,
         NEW start \in Nat, NEW end \in Nat, start < end
  PROVE  Good(After(ms, done, start, end), Counted(refs, done, start, end),
              Freed(blocks, Counted(refs, done, start, end)))
  <1> DEFINE ms2 == After(ms, done, start, end)
             refs2 == Counted(refs, done, start, end)
             blocks2 == Freed(blocks, refs2)
             Of(p) == {k \in ms2 : k.memory = p}
  <1>1. /\ ms \in SUBSET Mapping /\ IsFiniteSet(ms) /\ refs \in [Page -> Nat]
        /\ blocks \in [Page -> 0 .. Pages] /\ \A m, k \in ms : m # k => Apart(m, k)
    BY DEF Good
  <1>2. \A m \in ms : /\ m.memory \in Page /\ m.memory \in Nat /\ Limit(m) \in Nat /\ m.base \in Nat
                      /\ blocks[m.memory] # 0 /\ blocks[m.memory] \in Nat
                      /\ m.memory + blocks[m.memory] <= Pages
                      /\ m.memory <= m.base /\ Limit(m) <= m.memory + blocks[m.memory]
    BY <1>1, MappingType DEF Good, Inside
  <1>3. \A m \in ms : Limit(m) <= Pages
    BY <1>2, MappingAssumption
  <1>4. /\ \A k \in ms2 : k \in Mapping /\ \E m \in ms : Part(k, m)
        /\ \A k, j \in ms2 : k # j => Apart(k, j)
    BY Parts
  <1>5. ASSUME NEW p \in Page
        PROVE  IsFiniteSet(Of(p)) /\ refs2[p] = Cardinality(Of(p)) /\ refs2[p] \in Nat
    <2>1. /\ IsFiniteSet(Of(p))
          /\ Cardinality(Of(p)) = Cardinality({m \in ms : m.memory = p})
              + Cardinality({m \in done : m.memory = p /\ Splits(m, start, end)})
              - Cardinality({m \in done : m.memory = p /\ Covered(m, start, end)})
      BY <1>1, <1>3, PiecesCounted
    <2>2. refs[p] = Cardinality({m \in ms : m.memory = p})
      BY DEF Good
    <2>3. refs2[p] = refs[p] + Cardinality({m \in done : m.memory = p /\ Splits(m, start, end)})
                             - Cardinality({m \in done : m.memory = p /\ Covered(m, start, end)})
      BY DEF Counted
    <2> HIDE DEF ms2, refs2
    <2> QED BY <2>1, <2>2, <2>3, FS_CardinalityType
  <1>6. ASSUME NEW p \in Page PROVE refs2[p] # 0 <=> \E k \in ms2 : k.memory = p
    <2>1. Cardinality(Of(p)) = 0 <=> Of(p) = {}
      BY <1>5, FS_EmptySet
    <2> HIDE DEF ms2, refs2
    <2> QED BY <1>5, <2>1
  <1>7. \A p \in Page : blocks2[p] = IF refs2[p] = 0 THEN 0 ELSE blocks[p]
    BY DEF Freed
  <1>8. ASSUME NEW k \in ms2 PROVE blocks2[k.memory] # 0 /\ Inside(k, k.memory, blocks2[k.memory])
    <2>1. PICK m \in ms : Part(k, m)
      BY <1>4
    <2>2. k.memory = m.memory /\ k.base >= m.base /\ Limit(k) <= Limit(m)
          /\ k.base \in Nat /\ Limit(k) \in Nat
      BY <1>4, <2>1, MappingType DEF Part
    <2>3. blocks2[k.memory] = blocks[m.memory]
      BY <1>2, <1>6, <1>7, <2>2
    <2> HIDE DEF ms2, blocks2
    <2> QED BY <1>2, <2>2, <2>3 DEF Inside
  <1>9. ASSUME NEW p \in Page PROVE blocks2[p] # 0 <=> refs2[p] # 0
    <2>1. ASSUME refs2[p] # 0 PROVE blocks[p] # 0
      <3>1. PICK k \in ms2 : k.memory = p
        BY <1>6, <2>1
      <3>2. PICK m \in ms : Part(k, m)
        BY <1>4
      <3> QED BY <1>2, <3>1, <3>2 DEF Part
    <2> QED BY <1>7, <2>1
  <1>10. blocks2 \in [Page -> 0 .. Pages] /\ \A p \in Page : p + blocks2[p] <= Pages
    <2>1. \A p \in Page : p + blocks[p] <= Pages /\ p + 0 <= Pages /\ 0 \in 0 .. Pages
      BY MappingAssumption DEF Good, Page
    <2>2. \A p \in Page : blocks2[p] \in 0 .. Pages /\ p + blocks2[p] <= Pages
      BY <1>1, <1>7, <2>1
    <2> QED BY <2>2 DEF Freed
  <1>11. refs2 \in [Page -> Nat]
    <2>1. \A p \in Page : refs2[p] \in Nat
      BY <1>5
    <2> QED BY <2>1 DEF Counted
  <1>12. ms2 \subseteq Mapping /\ IsFiniteSet(ms2)
    BY <1>4, FinitelyMany, FS_Subset
  <1> HIDE DEF ms2, refs2, blocks2
  <1>13. Good(ms2, refs2, blocks2)
    BY <1>4, <1>5, <1>8, <1>9, <1>10, <1>11, <1>12 DEF Good
  <1> QED BY <1>13 DEF ms2, refs2, blocks2
-----------------------------------------------------------------------------
(* The invariant. *)

IInv == /\ Good(mappings, references, block)
        /\ content \in [Page -> Value] /\ rc \in {"ok", "error"}

\* A run that malloc finds ends within the arena and keeps clear of every block.
LEMMA FreeRun ==
  ASSUME Good(mappings, references, block), NEW b \in Page, NEW n \in 1 .. Pages, Free(b, n)
  PROVE  /\ b + n <= Pages
         /\ \A p \in Page : block[p] # 0 => p + block[p] <= b \/ b + n <= p
  <1>1. /\ b \in Nat /\ n \in Nat /\ n >= 1 /\ Pages \in Nat /\ b + n \in Nat
        /\ block \in [Page -> 0 .. Pages]
    BY MappingAssumption DEF Page, Good
  <1>2. Span(b, n) = b .. (b + n) - 1
    BY <1>1 DEF Span
  <1>3. b + n <= Pages
    <2>1. (b + n) - 1 \in Span(b, n)
      BY <1>1, <1>2
    <2> QED BY <1>1, <2>1 DEF Free, Page
  <1>4. ASSUME NEW p \in Page, block[p] # 0 PROVE p + block[p] <= b \/ b + n <= p
    <2>1. p \in Nat /\ block[p] \in Nat /\ p < p + block[p] /\ p + block[p] \in Nat
      BY <1>1, <1>4 DEF Page
    <2>2. Span(p, block[p]) = p .. (p + block[p]) - 1
      BY <2>1 DEF Span
    <2>3. Span(p, block[p]) \cap Span(b, n) = {}
      BY <1>4 DEF Free
    <2>4. b \in Span(b, n) /\ p \in Span(p, block[p])
      BY <1>1, <1>2, <2>1, <2>2
    <2>5. b \notin p .. (p + block[p]) - 1 /\ p \notin b .. (b + n) - 1
      BY <1>2, <2>2, <2>3, <2>4
    <2> QED BY ONLY <1>1, <2>1, <2>5
  <1> QED BY <1>3, <1>4

LEMMA NewContentType ==
  ASSUME content \in [Page -> Value], NEW b \in Page, NEW n \in 1 .. Pages,
         NEW data \in [0 .. n - 1 -> Value]
  PROVE  NewContent(b, n, data) \in [Page -> Value]
  <1> SUFFICES ASSUME NEW p \in Page
               PROVE  (IF p \in Span(b, n) THEN data[p - b] ELSE content[p]) \in Value
    BY DEF NewContent
  <1>1. CASE p \in Span(b, n)
    <2>1. p - b \in 0 .. n - 1
      BY <1>1, MappingAssumption DEF Span, Page
    <2> QED BY <1>1, <2>1
  <1>2. CASE p \notin Span(b, n)
    BY <1>2
  <1> QED BY <1>1, <1>2

\* A mapping that has a range has it within the arena.
LEMMA RangeInArena ==
  ASSUME Good(mappings, references, block), NEW start \in Nat, NEW n \in Nat,
         containing(start, n) # {}
  PROVE  start + n <= Pages
  <1>1. PICK m \in mappings : m.base <= start /\ start + n <= Limit(m)
    BY DEF containing
  <1>2. /\ m.memory \in Nat /\ Limit(m) \in Nat /\ Pages \in Nat /\ block[m.memory] \in Nat
        /\ Limit(m) <= m.memory + block[m.memory] /\ m.memory + block[m.memory] <= Pages
    BY MappingType, MappingAssumption DEF Good, Inside
  <1> QED BY <1>1, <1>2

LEMMA UnmapInv ==
  ASSUME IInv, NEW start \in Nat, NEW end \in Nat, start < end, Unmap(start, end)
  PROVE  IInv'
  <1>1. content' \in [Page -> Value] /\ rc' \in {"ok", "error"}
    BY DEF IInv, Unmap
  <1>2. CASE /\ mappings' = Unmapped(mappings, start, end)
             /\ references' = Counted(references, mappings, start, end)
             /\ block' = Freed(block, references')
    <2>1. After(mappings, mappings, start, end) = Unmapped(mappings, start, end)
      BY DEF After
    <2>2. Good(After(mappings, mappings, start, end), Counted(references, mappings, start, end),
               Freed(block, Counted(references, mappings, start, end)))
      BY UnmapStep DEF IInv
    <2> QED BY <1>1, <1>2, <2>1, <2>2 DEF IInv
  <1>3. ASSUME NEW done \in SUBSET mappings, mappings' = (mappings \ done) \cup Unmapped(done, start, end),
               references' = Counted(references, done, start, end), block' = Freed(block, references')
        PROVE  IInv'
    <2>1. mappings' = After(mappings, done, start, end)
      BY <1>3 DEF After
    <2>2. Good(After(mappings, done, start, end), Counted(references, done, start, end),
               Freed(block, Counted(references, done, start, end)))
      BY UnmapStep DEF IInv
    <2> QED BY <1>1, <1>3, <2>1, <2>2 DEF IInv
  <1> QED BY <1>2, <1>3 DEF Unmap

LEMMA GrowInv ==
  ASSUME IInv, NEW start \in Page, NEW b \in Page, NEW old \in 1 .. Pages, NEW new \in 1 .. Pages,
         Grow(start, old, new, b)
  PROVE  IInv'
  <1>1. CASE Refused
    BY <1>1 DEF IInv, Refused, Good, Inside, Apart, Limit
  <1>2. CASE ~Refused
    <2> DEFINE ms == mappings \cup {Piece(b, new, b)}
               refs == [references EXCEPT ![b] = 1]
               blocks == [block EXCEPT ![b] = new]
               data == [i \in 0 .. new - 1 |-> IF i < old THEN content[start + i] ELSE 0]
    <2>1. /\ Free(b, new) /\ content' = NewContent(b, new, data) /\ rc' = "ok"
          /\ \/ /\ mappings' = Unmapped(ms, start, start + old)
                /\ references' = Counted(refs, ms, start, start + old)
                /\ block' = Freed(blocks, references')
             \/ mappings' = ms /\ references' = refs /\ block' = blocks
      BY <1>2 DEF Grow
    <2>2. start \in Nat /\ old \in Nat /\ start + old \in Nat /\ start < start + old
          /\ new \in Nat /\ Pages \in Nat
      BY MappingAssumption DEF Page
    <2>3. Good(ms, refs, blocks)
      BY <2>1, FreeRun, MapStep DEF IInv
    <2>4. data \in [0 .. new - 1 -> Value]
      <3>1. start + old <= Pages
        BY <2>2, RangeInArena DEF IInv, Grow
      <3>2. ASSUME NEW i \in 0 .. new - 1, i < old PROVE content[start + i] \in Value
        <4>1. start + i \in Page
          BY <2>2, <3>1, <3>2 DEF Page
        <4> QED BY <4>1 DEF IInv
      <3> QED BY <3>2, MappingAssumption
    <2> HIDE DEF ms, refs, blocks, data
    <2>5. content' \in [Page -> Value] /\ rc' \in {"ok", "error"}
      BY <2>1, <2>4, NewContentType DEF IInv
    <2>6. CASE mappings' = ms /\ references' = refs /\ block' = blocks
      BY <2>3, <2>5, <2>6 DEF IInv
    <2>7. CASE /\ mappings' = Unmapped(ms, start, start + old)
               /\ references' = Counted(refs, ms, start, start + old)
               /\ block' = Freed(blocks, references')
      <3>1. After(ms, ms, start, start + old) = Unmapped(ms, start, start + old)
        BY DEF After
      <3>2. Good(After(ms, ms, start, start + old), Counted(refs, ms, start, start + old),
                 Freed(blocks, Counted(refs, ms, start, start + old)))
        BY <2>2, <2>3, UnmapStep
      <3> QED BY <2>5, <2>7, <3>1, <3>2 DEF IInv
    <2> QED BY <2>1, <2>6, <2>7
  <1> QED BY <1>1, <1>2

LEMMA IInvInit == Init => IInv
  <1> SUFFICES ASSUME Init PROVE IInv
    OBVIOUS
  <1>1. IsFiniteSet({}) /\ Cardinality({}) = 0
    BY FS_EmptySet
  <1>2. \A p \in Page : {m \in mappings : m.memory = p} = {}
    BY DEF Init
  <1>3. \A p \in Page : references[p] = 0 /\ block[p] = 0 /\ p + 0 <= Pages /\ 0 \in 0 .. Pages
    BY MappingAssumption DEF Init, Page
  <1> QED BY <1>1, <1>2, <1>3 DEF Init, IInv, Good

LEMMA IInvNext == IInv /\ [Next]_vars => IInv'
  <1> SUFFICES ASSUME IInv, [Next]_vars PROVE IInv'
    OBVIOUS
  <1>0. Pages \in Nat
    BY MappingAssumption
  <1>1. ASSUME UNCHANGED << mappings, references, block >>,
               content' \in [Page -> Value], rc' \in {"ok", "error"}
        PROVE  IInv'
    BY <1>1 DEF IInv
  <1>2. ASSUME NEW b \in Page, NEW n \in 1 .. Pages, mmap(b, n) PROVE IInv'
    <2>1. CASE Refused
      BY <1>1, <2>1 DEF IInv, Refused
    <2>2. CASE ~Refused
      <3>1. Free(b, n) /\ rc' = "ok"
        BY <1>2, <2>2 DEF mmap
      <3>2. PICK data \in [0 .. n - 1 -> Value] : content' = NewContent(b, n, data)
        BY <1>2, <2>2 DEF mmap
      <3>3. content' \in [Page -> Value]
        BY <3>2, NewContentType DEF IInv
      <3>4. Good(mappings \cup {Piece(b, n, b)}, [references EXCEPT ![b] = 1], [block EXCEPT ![b] = n])
        BY <3>1, FreeRun, MapStep DEF IInv
      <3> QED BY <1>2, <2>2, <3>1, <3>3, <3>4 DEF mmap, IInv
    <2> QED BY <2>1, <2>2
  <1>3. ASSUME NEW start \in Page, NEW n \in 1 .. Pages, munmap(start, n) PROVE IInv'
    <2>1. start \in Nat /\ start + n \in Nat /\ start < start + n
      BY <1>0 DEF Page
    <2> QED BY <1>3, <2>1, UnmapInv DEF munmap
  <1>4. ASSUME NEW start \in Page, NEW old \in 1 .. Pages, NEW new \in 1 .. Pages, Shrink(start, old, new)
        PROVE  IInv'
    <2>1. CASE new < old
      <3>1. start + new \in Nat /\ start + old \in Nat /\ start + new < start + old
        BY <1>0, <2>1 DEF Page
      <3> QED BY <1>4, <2>1, <3>1, UnmapInv DEF Shrink
    <2>2. CASE ~(new < old)
      BY <1>1, <1>4, <2>2 DEF Shrink, IInv
    <2> QED BY <2>1, <2>2
  <1>5. ASSUME NEW start \in Page, NEW b \in Page, NEW old \in 1 .. Pages, NEW new \in 1 .. Pages,
               Grow(start, old, new, b)
        PROVE  IInv'
    BY <1>5, GrowInv
  <1>6. ASSUME NEW p \in Page, NEW v \in Value, Write(p, v) PROVE IInv'
    BY <1>1, <1>6 DEF Write, IInv
  <1>7. CASE UNCHANGED vars
    BY <1>1, <1>7 DEF vars, IInv
  <1> QED BY <1>2, <1>3, <1>4, <1>5, <1>6, <1>7 DEF Next

LEMMA IInvAlways == Spec => []IInv
  BY IInvInit, IInvNext, PTL DEF Spec

\* Through any sequence of mmap, munmap and mremap, splits and failures included, no page
\* belongs to two mappings, every mapping lies in a block that has not been freed, and a
\* block is freed with its last piece: for every arena, not only the small one.
THEOREM AlwaysWellFormed == Spec => []WellFormed
  <1>1. IInv => WellFormed
    BY GoodIsWellFormed DEF IInv
  <1> QED BY <1>1, IInvAlways, PTL
-----------------------------------------------------------------------------
(* Linux's pages. *)

\* munmap takes exactly the pages of its range.
LEMMA UnmappedPages ==
  ASSUME NEW ms \in SUBSET Mapping, NEW start \in Nat, NEW end \in Nat, start < end
  PROVE  PagesOf(Unmapped(ms, start, end)) = PagesOf(ms) \ (start .. end - 1)
  <1>1. ASSUME NEW m \in ms, NEW x
        PROVE  (\E k \in Remains(m, start, end) : x \in Span(k.base, k.size))
                 <=> x \in Span(m.base, m.size) /\ x \notin start .. end - 1
    <2>1. /\ m.base \in Nat /\ Limit(m) \in Nat /\ m.base < Limit(m)
          /\ Span(m.base, m.size) = m.base .. Limit(m) - 1
      BY MappingType
    <2>2. CASE ~Overlaps(m, start, end)
      <3>1. Remains(m, start, end) = {m}
        BY <2>2 DEF Remains
      <3> QED BY <2>1, <2>2, <3>1 DEF Overlaps
    <2>3. CASE Overlaps(m, start, end)
      <3> DEFINE l == Piece(m.base, start - m.base, m.memory)
                 r == Piece(end, Limit(m) - end, m.memory)
      <3>1. m.base < start => Span(l.base, l.size) = m.base .. start - 1
        BY <2>1, PieceFields DEF Span
      <3>2. end < Limit(m) => Span(r.base, r.size) = end .. Limit(m) - 1
        BY <2>1, PieceFields DEF Span
      <3>3. Remains(m, start, end) = (IF m.base < start THEN {l} ELSE {})
                                     \cup (IF end < Limit(m) THEN {r} ELSE {})
        BY <2>3 DEF Remains
      <3> HIDE DEF l, r
      <3>4. (\E k \in Remains(m, start, end) : x \in Span(k.base, k.size)) <=>
              \/ m.base < start /\ x \in m.base .. start - 1
              \/ end < Limit(m) /\ x \in end .. Limit(m) - 1
        BY <3>1, <3>2, <3>3
      <3>5. start < Limit(m) /\ m.base < end
        BY <2>3 DEF Overlaps
      <3> QED BY <2>1, <3>4, <3>5
    <2> QED BY <2>2, <2>3
  <1>2. ASSUME NEW x
        PROVE  x \in PagesOf(Unmapped(ms, start, end)) <=>
                 \E m \in ms : \E k \in Remains(m, start, end) : x \in Span(k.base, k.size)
    BY DEF PagesOf, Unmapped
  <1>3. ASSUME NEW x PROVE x \in PagesOf(ms) <=> \E m \in ms : x \in Span(m.base, m.size)
    BY DEF PagesOf
  <1> QED BY <1>1, <1>2, <1>3

\* When one mapping is to be split, no other has a page of the range.
LEMMA SplitAlone ==
  ASSUME NEW ms, NEW refs, NEW blocks, Good(ms, refs, blocks),
         NEW start \in Nat, NEW end \in Nat, start < end,
         NEW m \in ms, Splits(m, start, end), NEW done \in SUBSET {k \in ms : ~Splits(k, start, end)}
  PROVE  /\ After(ms, done, start, end) = ms /\ Counted(refs, done, start, end) = refs
         /\ Freed(blocks, refs) = blocks
  <1>1. ASSUME NEW k \in done
        PROVE  ~Overlaps(k, start, end) /\ ~Covered(k, start, end) /\ ~Splits(k, start, end)
    <2>1. k # m /\ k \in Mapping /\ m \in Mapping /\ Apart(k, m)
      BY DEF Good
    <2>2. /\ k.base \in Nat /\ Limit(k) \in Nat /\ k.base < Limit(k)
          /\ m.base \in Nat /\ Limit(m) \in Nat /\ m.base < start /\ end < Limit(m)
      BY <2>1, MappingType DEF Splits
    <2> QED BY <2>1, <2>2 DEF Apart, Overlaps, Covered
  <1>2. \A k \in done : Remains(k, start, end) = {k}
    BY <1>1 DEF Remains
  <1>3. Unmapped(done, start, end) = done
    BY <1>2 DEF Unmapped
  <1>4. \A p \in Page : /\ {k \in done : k.memory = p /\ Splits(k, start, end)} = {}
                        /\ {k \in done : k.memory = p /\ Covered(k, start, end)} = {}
    BY <1>1
  <1>5. Counted(refs, done, start, end) = [p \in Page |-> refs[p] + 0 - 0]
    BY <1>4, FS_EmptySet DEF Counted
  <1>6. Counted(refs, done, start, end) = refs
    <2>1. \A p \in Page : refs[p] + 0 - 0 = refs[p]
      BY DEF Good
    <2>2. refs = [p \in Page |-> refs[p]]
      BY DEF Good
    <2> QED BY <1>5, <2>1, <2>2
  <1>7. Freed(blocks, refs) = blocks
    <2>1. \A p \in Page : (IF refs[p] = 0 THEN 0 ELSE blocks[p]) = blocks[p]
      BY DEF Good
    <2>2. blocks = [p \in Page |-> blocks[p]]
      BY DEF Good
    <2> QED BY <2>1, <2>2 DEF Freed
  <1> QED BY <1>3, <1>6, <1>7 DEF After

\* Either all of a munmap happens or, when there is no memory for a split, none of it.
LEMMA UnmapOutcome ==
  ASSUME IInv, NEW start \in Nat, NEW end \in Nat, start < end, Unmap(start, end)
  PROVE  /\ content' = content
         /\ \/ rc' = "ok" /\ PagesOf(mappings') = PagesOf(mappings) \ (start .. end - 1)
            \/ UNCHANGED << mappings, references, block >>
  <1>1. content' = content
    BY DEF Unmap
  <1>2. CASE rc' = "ok" /\ mappings' = Unmapped(mappings, start, end)
    <2>1. mappings \in SUBSET Mapping
      BY DEF IInv, Good
    <2> QED BY <1>1, <1>2, <2>1, UnmappedPages
  <1>3. ASSUME NEW m \in mappings, Splits(m, start, end),
               NEW done \in SUBSET {k \in mappings : ~Splits(k, start, end)},
               mappings' = (mappings \ done) \cup Unmapped(done, start, end),
               references' = Counted(references, done, start, end), block' = Freed(block, references')
        PROVE  UNCHANGED << mappings, references, block >>
    <2>1. /\ After(mappings, done, start, end) = mappings
          /\ Counted(references, done, start, end) = references /\ Freed(block, references) = block
      BY <1>3, SplitAlone DEF IInv
    <2> QED BY <1>3, <2>1 DEF After
  <1> QED BY <1>1, <1>2, <1>3 DEF Unmap

LEMMA FailureStep ==
  ASSUME IInv, [Next]_vars, rc' = "error"
  PROVE  UNCHANGED << mappings, references, block, content >>
  <1>0. Pages \in Nat
    BY MappingAssumption
  <1>1. ASSUME NEW b \in Page, NEW n \in 1 .. Pages, mmap(b, n)
        PROVE  UNCHANGED << mappings, references, block, content >>
    BY <1>1 DEF mmap, Refused
  <1>2. ASSUME NEW start \in Page, NEW n \in 1 .. Pages, munmap(start, n)
        PROVE  UNCHANGED << mappings, references, block, content >>
    <2>1. start \in Nat /\ start + n \in Nat /\ start < start + n
      BY <1>0 DEF Page
    <2> QED BY <1>2, <2>1, UnmapOutcome DEF munmap
  <1>3. ASSUME NEW start \in Page, NEW old \in 1 .. Pages, NEW new \in 1 .. Pages, Shrink(start, old, new)
        PROVE  UNCHANGED << mappings, references, block, content >>
    <2>1. CASE new < old
      <3>1. start + new \in Nat /\ start + old \in Nat /\ start + new < start + old
        BY <1>0, <2>1 DEF Page
      <3> QED BY <1>3, <2>1, <3>1, UnmapOutcome DEF Shrink
    <2>2. CASE ~(new < old)
      BY <1>3, <2>2 DEF Shrink
    <2> QED BY <2>1, <2>2
  <1>4. ASSUME NEW start \in Page, NEW b \in Page, NEW old \in 1 .. Pages, NEW new \in 1 .. Pages,
               Grow(start, old, new, b)
        PROVE  UNCHANGED << mappings, references, block, content >>
    BY <1>4 DEF Grow, Refused
  <1>5. ASSUME NEW p \in Page, NEW v \in Value, Write(p, v)
        PROVE  UNCHANGED << mappings, references, block, content >>
    BY <1>5 DEF Write
  <1>6. CASE UNCHANGED vars
    BY <1>6 DEF vars
  <1> QED BY <1>1, <1>2, <1>3, <1>4, <1>5, <1>6 DEF Next

\* The pages of the mappings are pages of the arena, and a range that one mapping has is
\* mapped.
LEMMA PagesInArena ==
  ASSUME NEW ms, NEW refs, NEW blocks, Good(ms, refs, blocks)
  PROVE  /\ \A m \in ms : /\ m.base \in Nat /\ Limit(m) \in Nat
                          /\ Span(m.base, m.size) = m.base .. Limit(m) - 1
         /\ PagesOf(ms) \subseteq Page
  <1>1. ASSUME NEW m \in ms
        PROVE  /\ m.base \in Nat /\ Limit(m) \in Nat /\ Limit(m) <= Pages /\ Pages \in Nat
               /\ Span(m.base, m.size) = m.base .. Limit(m) - 1
    <2>1. m \in Mapping /\ blocks[m.memory] \in Nat /\ m.memory \in Nat
          /\ Limit(m) <= m.memory + blocks[m.memory] /\ m.memory + blocks[m.memory] <= Pages
      BY MappingType, MappingAssumption DEF Good, Inside
    <2> QED BY <2>1, MappingType, MappingAssumption
  <1>2. PagesOf(ms) \subseteq Page
    BY <1>1 DEF PagesOf, Page
  <1> QED BY <1>1, <1>2

LEMMA MappedPages ==
  ASSUME IInv
  PROVE  /\ PagesOf(mappings) \subseteq Page
         /\ \A start \in Nat, n \in Nat \ {0} :
              containing(start, n) # {} => start .. (start + n) - 1 \subseteq PagesOf(mappings)
  <1>1. Good(mappings, references, block)
    BY DEF IInv
  <1>2. ASSUME NEW start \in Nat, NEW n \in Nat \ {0}, containing(start, n) # {}
        PROVE  start .. (start + n) - 1 \subseteq PagesOf(mappings)
    <2>1. PICK m \in mappings : m.base <= start /\ start + n <= Limit(m)
      BY <1>2 DEF containing
    <2>2. start .. (start + n) - 1 \subseteq Span(m.base, m.size)
      BY <1>1, <2>1, PagesInArena
    <2> QED BY <2>2 DEF PagesOf
  <1> QED BY <1>1, <1>2, PagesInArena

\* A new mapping brings pages that no mapping had.
LEMMA NewPages ==
  ASSUME IInv, NEW b \in Page, NEW n \in 1 .. Pages, Free(b, n)
  PROVE  /\ Span(b, n) = b .. (b + n) - 1 /\ Span(b, n) \subseteq Page
         /\ PagesOf(mappings \cup {Piece(b, n, b)}) = PagesOf(mappings) \cup Span(b, n)
         /\ Span(b, n) \cap PagesOf(mappings) = {}
  <1>1. b \in Nat /\ n \in Nat /\ n >= 1 /\ Pages \in Nat
    BY MappingAssumption DEF Page
  <1>2. Span(b, n) = b .. (b + n) - 1
    BY <1>1 DEF Span
  <1>3. PagesOf(mappings \cup {Piece(b, n, b)}) = PagesOf(mappings) \cup Span(b, n)
    BY PieceFields DEF PagesOf
  <1>4. ASSUME NEW m \in mappings PROVE Span(b, n) \cap Span(m.base, m.size) = {}
    <2>1. Apart(m, Piece(b, n, b))
      BY FreeRun, MapStep DEF IInv
    <2>2. m \in Mapping
      BY DEF IInv, Good
    <2>3. /\ m.base \in Nat /\ Limit(m) \in Nat /\ Span(m.base, m.size) = m.base .. Limit(m) - 1
          /\ (Limit(m) <= b \/ b + n <= m.base)
      BY <2>1, <2>2, MappingType, PieceFields DEF Apart
    <2> QED BY <1>1, <1>2, <2>3
  <1> QED BY <1>2, <1>3, <1>4 DEF PagesOf, Free

\* Each kind of step, as Linux would take it.
LEMMA AsStutter ==
  ASSUME UNCHANGED << mappings, content >> PROVE Space' = Space
  BY DEF Space

LEMMA AsMap ==
  ASSUME IInv', PagesOf(mappings) \subseteq PagesOf(mappings'), PagesOf(mappings') \subseteq Page,
         \A p \in PagesOf(mappings) : content'[p] = content[p]
  PROVE  Linux!Map
  BY DEF IInv, Space, Linux!Map, Linux!Mapped

LEMMA AsUnmap ==
  ASSUME IInv, content' = content, NEW p \in Nat, NEW n \in Nat,
         PagesOf(mappings') = PagesOf(mappings) \ (p .. p + n)
  PROVE  Linux!Unmap(p .. p + n)
  <1>1. DOMAIN Space = PagesOf(mappings) /\ \A r \in PagesOf(mappings) : Space[r] = content[r]
    BY DEF Space
  <1>2. Space' = [r \in PagesOf(mappings) \ (p .. p + n) |-> content[r]]
    BY DEF Space
  <1> HIDE DEF Space
  <1>3. Space' = [r \in DOMAIN Space \ (p .. p + n) |-> Space[r]]
    BY <1>1, <1>2
  <1> QED BY <1>3 DEF Linux!Unmap, Linux!Mapped

LEMMA AsWrite ==
  ASSUME IInv, NEW p \in Page, NEW v \in Value, Write(p, v)
  PROVE  p \in DOMAIN Space /\ Linux!Write(p, v)
  <1>1. p \in PagesOf(mappings)
    <2>1. p \in Nat /\ 1 \in Nat \ {0} /\ containing(p, 1) # {}
      BY MappingAssumption DEF Page, Write
    <2>2. p .. (p + 1) - 1 \subseteq PagesOf(mappings)
      BY <2>1, MappedPages
    <2> QED BY <2>1, <2>2
  <1>2. mappings' = mappings /\ content' = [content EXCEPT ![p] = v]
    BY DEF Write
  <1>3. content \in [Page -> Value] /\ PagesOf(mappings) \subseteq Page
    BY MappedPages DEF IInv
  <1>4. Space' = [Space EXCEPT ![p] = v]
    BY <1>1, <1>2, <1>3 DEF Space
  <1> QED BY <1>1, <1>4 DEF Space, Linux!Write, Linux!Mapped

LEMMA AsMove ==
  ASSUME IInv, NEW start \in Page, NEW b \in Page, NEW old \in 1 .. Pages, NEW new \in 1 .. Pages,
         old < new, containing(start, old) # {}, Free(b, new),
         content' = NewContent(b, new, [i \in 0 .. new - 1 |->
                                          IF i < old THEN content[start + i] ELSE 0]),
         PagesOf(mappings') = (PagesOf(mappings) \cup Span(b, new)) \ (start .. (start + old) - 1)
  PROVE  /\ old \in Page /\ new \in Page
         /\ Linux!Move(start, old, b, new)
  <1> DEFINE source == start .. start + old - 1
             target == b .. b + new - 1
             mapped == PagesOf(mappings)
  <1>1. start \in Nat /\ b \in Nat /\ old \in Nat /\ new \in Nat /\ old >= 1 /\ Pages \in Nat /\ start < Pages
    BY MappingAssumption DEF Page
  <1>2. source = start .. (start + old) - 1 /\ target = b .. (b + new) - 1
    BY <1>1
  <1>3. source \subseteq mapped /\ mapped \subseteq Page
    BY <1>1, <1>2, MappedPages
  <1>4. Span(b, new) = target /\ target \subseteq Page /\ target \cap mapped = {}
    BY <1>2, NewPages
  <1>5. old \in Page /\ new \in Page
    <2>1. start \in source
      BY <1>1
    <2>2. start \notin target
      BY <1>3, <1>4, <2>1
    <2>3. b + new <= Pages
      BY FreeRun DEF IInv
    <2> QED BY <1>1, <2>2, <2>3 DEF Page
  <1>6. PagesOf(mappings') = (mapped \ source) \cup target
    BY <1>2, <1>3, <1>4
  <1>7. ASSUME NEW r \in (mapped \ source) \cup target
        PROVE  content'[r] = IF r \in b .. b + old - 1 THEN content[start + (r - b)]
                             ELSE IF r \in target THEN 0 ELSE content[r]
    <2>1. r \in Page
      BY <1>3, <1>4
    <2>2. CASE r \in target
      <3>1. r - b \in 0 .. new - 1 /\ (r - b < old <=> r \in b .. b + old - 1)
        BY <1>1, <2>1, <2>2 DEF Page
      <3>2. content'[r] = IF r - b < old THEN content[start + (r - b)] ELSE 0
        BY <1>4, <2>1, <2>2, <3>1 DEF NewContent
      <3> QED BY <2>2, <3>1, <3>2
    <2>3. CASE r \notin target
      <3>1. r \notin b .. b + old - 1
        BY <1>1, <2>1, <2>3 DEF Page
      <3> QED BY <1>4, <2>1, <2>3, <3>1 DEF NewContent
    <2> QED BY <2>2, <2>3
  <1>8. \A r \in b .. b + old - 1 : start + (r - b) \in source
    BY <1>1
  <1>9. DOMAIN Space = mapped /\ \A r \in mapped : Space[r] = content[r]
    BY DEF Space
  <1>10. Space' = [r \in (mapped \ source) \cup target |-> content'[r]]
    BY <1>6 DEF Space
  <1> HIDE DEF Space, source, target, mapped
  <1>11. ASSUME NEW r \in (mapped \ source) \cup target
         PROVE  content'[r] = IF r \in b .. b + old - 1 THEN Space[start + (r - b)]
                              ELSE IF r \in target THEN 0 ELSE Space[r]
    BY <1>3, <1>7, <1>8, <1>9
  <1>12. Space' = [r \in (DOMAIN Space \ source) \cup target |->
                     IF r \in b .. b + old - 1 THEN Space[start + (r - b)]
                     ELSE IF r \in target THEN 0 ELSE Space[r]]
    BY <1>9, <1>10, <1>11
  <1> QED BY <1>3, <1>4, <1>5, <1>9, <1>12 DEF Linux!Move, Linux!Mapped, source, target

LEMMA UnmapAsLinux ==
  ASSUME IInv, NEW start \in Nat, NEW end \in Nat, start < end, end - start <= Pages, start \in Page,
         Unmap(start, end)
  PROVE  [Linux!Next]_Space
  <1>1. CASE UNCHANGED << mappings, references, block >>
    BY <1>1, UnmapOutcome, AsStutter
  <1>2. CASE PagesOf(mappings') = PagesOf(mappings) \ (start .. end - 1)
    <2> DEFINE n == (end - start) - 1
    <2>1. n \in Page /\ n \in Nat /\ start + n = end - 1
      BY MappingAssumption DEF Page
    <2> HIDE DEF n
    <2>2. Linux!Unmap(start .. start + n)
      BY <1>2, <2>1, UnmapOutcome, AsUnmap
    <2> QED BY <2>1, <2>2 DEF Linux!Next
  <1> QED BY <1>1, <1>2, UnmapOutcome

LEMMA LinuxStep ==
  ASSUME IInv, IInv', [Next]_vars
  PROVE  [Linux!Next]_Space
  <1>0. Pages \in Nat /\ PagesOf(mappings') \subseteq Page /\ content \in [Page -> Value]
    <2>1. Good(mappings', references', block')
      BY DEF IInv
    <2>2. PagesOf(mappings') \subseteq Page
      BY <2>1, PagesInArena
    <2> QED BY <2>2, MappingAssumption DEF IInv
  <1>1. ASSUME NEW b \in Page, NEW n \in 1 .. Pages, NEW data, Free(b, n),
               mappings' = mappings \cup {Piece(b, n, b)}, content' = NewContent(b, n, data)
        PROVE  [Linux!Next]_Space
    <2>1. PagesOf(mappings) \subseteq PagesOf(mappings')
      BY <1>1, NewPages
    <2>2. \A p \in PagesOf(mappings) : content'[p] = content[p]
      BY <1>1, NewPages, MappedPages DEF NewContent
    <2> QED BY <1>0, <2>1, <2>2, AsMap DEF Linux!Next
  <1>2. ASSUME NEW b \in Page, NEW n \in 1 .. Pages, mmap(b, n) PROVE [Linux!Next]_Space
    <2>1. CASE Refused
      BY <2>1, AsStutter DEF Refused
    <2>2. CASE ~Refused
      <3>1. PICK data \in [0 .. n - 1 -> Value] : content' = NewContent(b, n, data)
        BY <1>2, <2>2 DEF mmap
      <3> QED BY <1>1, <1>2, <2>2, <3>1 DEF mmap
    <2> QED BY <2>1, <2>2
  <1>3. ASSUME NEW start \in Page, NEW n \in 1 .. Pages, munmap(start, n) PROVE [Linux!Next]_Space
    <2>1. start \in Nat /\ start + n \in Nat /\ start < start + n /\ (start + n) - start <= Pages
      BY <1>0 DEF Page
    <2> QED BY <1>3, <2>1, UnmapAsLinux DEF munmap
  <1>4. ASSUME NEW start \in Page, NEW old \in 1 .. Pages, NEW new \in 1 .. Pages, Shrink(start, old, new)
        PROVE  [Linux!Next]_Space
    <2>1. CASE new < old
      <3>1. start + old <= Pages /\ start \in Nat
        BY <1>0, <1>4, RangeInArena DEF Shrink, IInv, Page
      <3>2. /\ start + new \in Nat /\ start + old \in Nat /\ start + new < start + old
            /\ (start + old) - (start + new) <= Pages /\ start + new \in Page
        BY <1>0, <2>1, <3>1 DEF Page
      <3> QED BY <1>4, <2>1, <3>2, UnmapAsLinux DEF Shrink
    <2>2. CASE ~(new < old)
      BY <1>4, <2>2, AsStutter DEF Shrink
    <2> QED BY <2>1, <2>2
  <1>5. ASSUME NEW start \in Page, NEW b \in Page, NEW old \in 1 .. Pages, NEW new \in 1 .. Pages,
               Grow(start, old, new, b)
        PROVE  [Linux!Next]_Space
    <2> DEFINE ms == mappings \cup {Piece(b, new, b)}
               data == [i \in 0 .. new - 1 |-> IF i < old THEN content[start + i] ELSE 0]
    <2>1. CASE Refused
      BY <2>1, AsStutter DEF Refused
    <2>2. CASE ~Refused
      <3>1. /\ Free(b, new) /\ content' = NewContent(b, new, data) /\ containing(start, old) # {}
            /\ old < new
            /\ mappings' = Unmapped(ms, start, start + old) \/ mappings' = ms
        BY <1>5, <2>2 DEF Grow
      <3>2. CASE mappings' = ms
        BY <1>1, <3>1, <3>2
      <3>3. CASE mappings' = Unmapped(ms, start, start + old)
        <4>1. start \in Nat /\ start + old \in Nat /\ start < start + old
          BY <1>0 DEF Page
        <4>2. ms \in SUBSET Mapping
          <5>1. Good(ms, [references EXCEPT ![b] = 1], [block EXCEPT ![b] = new])
            BY <3>1, FreeRun, MapStep DEF IInv
          <5> QED BY <5>1 DEF Good
        <4> HIDE DEF ms
        <4>3. PagesOf(mappings') = PagesOf(ms) \ (start .. (start + old) - 1)
          BY <3>3, <4>1, <4>2, UnmappedPages
        <4>4. PagesOf(ms) = PagesOf(mappings) \cup Span(b, new)
          BY <3>1, NewPages DEF ms
        <4>5. old \in Page /\ new \in Page /\ Linux!Move(start, old, b, new)
          BY <3>1, <4>3, <4>4, AsMove
        <4> QED BY <4>5 DEF Linux!Next
      <3> QED BY <3>1, <3>2, <3>3
    <2> QED BY <2>1, <2>2
  <1>6. ASSUME NEW p \in Page, NEW v \in Value, Write(p, v) PROVE [Linux!Next]_Space
    BY <1>6, AsWrite DEF Linux!Next, Linux!Mapped
  <1>7. CASE UNCHANGED vars
    BY <1>7, AsStutter DEF vars
  <1> QED BY <1>2, <1>3, <1>4, <1>5, <1>6, <1>7 DEF Next

\* The guest cannot tell pieces, blocks and counts from Linux's pages: mmap, munmap and
\* mremap do to the mapped pages and their contents what Linux does, and a call that
\* fails has changed nothing.
THEOREM ActsAsLinux == Spec => Refinement
  <1>1. Init => Linux!Init
    BY DEF Init, Linux!Init, Space, PagesOf
  <1>2. IInv /\ IInv' /\ [Next]_vars => [Linux!Next]_Space
    BY LinuxStep
  <1>3. IInv /\ [Next]_vars =>
          [rc' = "error" => UNCHANGED << mappings, references, block, content >>]_vars
    BY FailureStep
  <1> QED BY <1>1, <1>2, <1>3, IInvAlways, PTL DEF Spec, Linux!Spec, Refinement, FailureChangesNothing
=============================================================================
