--------------------------- MODULE NamedSemProofs ---------------------------
(***************************************************************************)
(* The table of named semaphores and the C library's counts agree, for any *)
(* size of the table and any limit of the counts.  The two counts need     *)
(* each other: sem_open of an open semaphore finds its slot only because   *)
(* everything open has one, and a fresh address finds none only because    *)
(* every slot in use is open.                                              *)
(***************************************************************************)
EXTENDS NamedSem, TLAPS

MappedInv == \A a \in Addresses : mapped[a] # 0 => opens[a] # 0
IInv == TypeOK /\ CountsAgree /\ OneSlotEach /\ MappedInv

LEMMA InitInv == Init => IInv
<1> SUFFICES ASSUME Init PROVE IInv OBVIOUS
<1>1. 0 \in 0 .. MaxCreated /\ 0 \in 0 .. MAX_REFERENCES
  BY SemAssumption
<1>2. TypeOK
  BY <1>1 DEF Init, TypeOK
<1> QED BY <1>2 DEF Init, IInv, CountsAgree, OneSlotEach, MappedInv

\* No open handle changes what it stands for.
Stable == \A i \in Slots : references[i] # 0 /\ references'[i] # 0
            => objects'[i] = objects[i] /\ mapped'[objects[i]] = mapped[objects[i]]

\* What sem_open returns is open already, or new to the table.
LEMMA OpenedFact ==
  ASSUME IInv, NEW s \in 1 .. MaxCreated, NEW a \in Addresses, Opened(s, a)
  PROVE  /\ (opens[a] # 0) <=> (Holder(a) # {})
         /\ opens[a] # 0 => mapped[a] = s
BY DEF IInv, TypeOK, CountsAgree, OneSlotEach, MappedInv, Opened, Holder

LEMMA EnterInv ==
  ASSUME IInv, NEW s \in 1 .. MaxCreated, NEW a \in Addresses, Opened(s, a), Enter(s, a),
         file' \in [Names -> 0 .. MaxCreated], created' \in 0 .. MaxCreated, running' \in BOOLEAN
  PROVE  IInv' /\ Stable
<1> USE SemAssumption
<1>1. ASSUME NEW e \in {"EOVERFLOW", "EMFILE"}, Refuse(s, a, e) PROVE IInv' /\ Stable
  BY <1>1 DEF Refuse, IInv, TypeOK, CountsAgree, OneSlotEach, MappedInv, Stable
<1>2. ASSUME NEW i \in Holder(a), ~AtLimit(i),
             references' = [references EXCEPT ![i] = references[i] + 1],
             opens' = [opens EXCEPT ![a] = opens[a] + 1],
             mapped' = [mapped EXCEPT ![a] = s], rc' = "ok", objects' = objects
      PROVE  IInv' /\ Stable
  <2>1. /\ i \in Slots /\ references[i] # 0 /\ objects[i] = a /\ opens[a] = references[i]
        /\ mapped[a] = s /\ references[i] + 1 \in 0 .. MAX_REFERENCES
    BY <1>2, OpenedFact DEF Holder, AtLimit, IInv, TypeOK, CountsAgree
  <2>2. mapped' = mapped
    BY <1>2, <2>1 DEF IInv, TypeOK
  <2>3. TypeOK'
    BY <1>2, <2>1, <2>2 DEF IInv, TypeOK
  <2>4. CountsAgree' /\ OneSlotEach' /\ MappedInv'
    BY <1>2, <2>1, <2>2 DEF IInv, TypeOK, CountsAgree, OneSlotEach, MappedInv
  <2> QED BY <1>2, <2>2, <2>3, <2>4 DEF IInv, Stable
<1>3. ASSUME NEW i \in FreeSlots, Holder(a) = {},
             objects' = [objects EXCEPT ![i] = a], references' = [references EXCEPT ![i] = 1],
             opens' = [opens EXCEPT ![a] = opens[a] + 1],
             mapped' = [mapped EXCEPT ![a] = s], rc' = "ok"
      PROVE  IInv' /\ Stable
  <2>1. i \in Slots /\ references[i] = 0 /\ opens[a] = 0 /\ 1 \in 0 .. MAX_REFERENCES
    BY <1>3, OpenedFact DEF FreeSlots
  <2>2. \A j \in Slots : references[j] # 0 => objects[j] # a
    BY <1>3 DEF Holder
  <2>3. TypeOK'
    BY <1>3, <2>1 DEF IInv, TypeOK
  <2>4. CountsAgree' /\ MappedInv'
    BY <1>3, <2>1, <2>2 DEF IInv, TypeOK, CountsAgree, MappedInv
  <2>5. OneSlotEach'
    BY <1>3, <2>1, <2>2 DEF IInv, TypeOK, OneSlotEach
  <2>6. Stable
    BY <1>3, <2>1, <2>2 DEF IInv, TypeOK, CountsAgree, Stable
  <2> QED BY <2>3, <2>4, <2>5, <2>6 DEF IInv
<1> QED BY <1>1, <1>2, <1>3 DEF Enter

\* n references of a slot in use are given back to the library.
LEMMA CloseInv ==
  ASSUME IInv, NEW i \in Slots, references[i] # 0, NEW n \in Nat, 0 < n, n <= references[i],
         Closed(objects[i], n), references' = [references EXCEPT ![i] = references[i] - n],
         objects' = IF references[i] = n THEN [objects EXCEPT ![i] = NULL] ELSE objects,
         UNCHANGED << file, created >>, rc' \in {"ok", rc}, running' \in BOOLEAN
  PROVE  IInv' /\ Stable
<1>1. /\ objects[i] \in Addresses /\ opens[objects[i]] = references[i]
      /\ references[i] - n \in 0 .. MAX_REFERENCES
      /\ \A j \in Slots : references[j] # 0 /\ objects[j] = objects[i] => j = i
  BY SemAssumption DEF IInv, TypeOK, CountsAgree, OneSlotEach
<1>2. TypeOK'
  <2>1. objects' \in [Slots -> Addresses \cup {NULL}] /\ references' \in [Slots -> 0 .. MAX_REFERENCES]
    BY <1>1 DEF IInv, TypeOK
  <2>2. opens' \in [Addresses -> Nat]
    BY <1>1 DEF Closed, IInv, TypeOK
  <2>3. mapped' \in [Addresses -> 0 .. MaxCreated]
    BY <1>1, SemAssumption DEF Closed, IInv, TypeOK
  <2>4. rc' \in {"ok", "error", "EINVAL", "EMFILE", "EOVERFLOW"}
    BY DEF IInv, TypeOK
  <2> QED BY <2>1, <2>2, <2>3, <2>4 DEF IInv, TypeOK
<1>3. CountsAgree' /\ MappedInv'
  BY <1>1 DEF Closed, IInv, TypeOK, CountsAgree, MappedInv
<1>4. OneSlotEach'
  BY <1>1 DEF Closed, IInv, TypeOK, CountsAgree, OneSlotEach
<1>5. Stable
  BY <1>1 DEF Closed, IInv, TypeOK, CountsAgree, Stable
<1> QED BY <1>2, <1>3, <1>4, <1>5 DEF IInv

LEMMA SameInv ==
  ASSUME IInv, UNCHANGED << mapped, opens, objects, references >>,
         file' \in [Names -> 0 .. MaxCreated], created' = created, running' \in BOOLEAN,
         rc' \in {"ok", "error", "EINVAL", "EMFILE", "EOVERFLOW"}
  PROVE  IInv' /\ Stable
BY DEF IInv, TypeOK, CountsAgree, OneSlotEach, MappedInv, Stable

LEMMA StepInv == ASSUME IInv, [Next]_vars PROVE IInv' /\ Stable
<1> USE SemAssumption
<1>1. ASSUME NEW n \in Names, Open(n) PROVE IInv' /\ Stable
  <2>1. file[n] \in 1 .. MaxCreated
    BY <1>1 DEF Open, IInv, TypeOK
  <2>2. file' = file /\ created' = created /\ running' = running
    BY <1>1 DEF Open
  <2>3. PICK a \in Addresses : Opened(file[n], a) /\ Enter(file[n], a)
    BY <1>1 DEF Open
  <2> QED BY <2>1, <2>2, <2>3, EnterInv DEF IInv, TypeOK
<1>2. ASSUME NEW n \in Names, Create(n) PROVE IInv' /\ Stable
  <2>1. created' \in 1 .. MaxCreated
    BY <1>2 DEF Create, IInv, TypeOK
  <2>2. file' \in [Names -> 0 .. MaxCreated] /\ running' \in BOOLEAN
    BY <1>2, <2>1 DEF Create, IInv, TypeOK
  <2>3. PICK a \in Addresses : Opened(created', a) /\ Enter(created', a)
    BY <1>2 DEF Create
  <2> QED BY <2>1, <2>2, <2>3, EnterInv
<1>3. ASSUME NEW n \in Names, Unlink(n) PROVE IInv' /\ Stable
  BY <1>3, SameInv DEF Unlink, IInv, TypeOK
<1>4. CASE OpenFails
  BY <1>4, SameInv DEF OpenFails, IInv, TypeOK
<1>5. ASSUME NEW h \in 0 .. MAX_NAMED_SEMAPHORES + 1, Close(h) PROVE IInv' /\ Stable
  <2>1. CASE h \notin Slots \/ references[h] = 0
    BY <1>5, <2>1, SameInv DEF Close, IInv, TypeOK
  <2>2. CASE h \in Slots /\ references[h] # 0
    <3>1. 1 <= references[h]
      BY <2>2 DEF IInv, TypeOK
    <3>2. /\ Closed(objects[h], 1) /\ DropReference(h) /\ rc' = "ok" /\ running' \in BOOLEAN
          /\ UNCHANGED << file, created >>
      BY <1>5, <2>2 DEF Close, IInv, TypeOK
    <3>3. 1 \in Nat /\ 0 < 1 /\ rc' \in {"ok", rc}
      BY <3>2
    <3>4. /\ references' = [references EXCEPT ![h] = references[h] - 1]
          /\ objects' = IF references[h] = 1 THEN [objects EXCEPT ![h] = NULL] ELSE objects
      BY <3>2 DEF DropReference
    <3> QED BY Zenon, <2>2, <3>1, <3>2, <3>3, <3>4, CloseInv
  <2> QED BY <2>1, <2>2
<1>6. ASSUME NEW i \in Slots, Cleanup(i) PROVE IInv' /\ Stable
  <2>1. references[i] # 0 /\ references[i] \in Nat
    BY <1>6 DEF Cleanup, Lowest, FreeSlots, IInv, TypeOK
  <2>2. references[i] - references[i] = 0 /\ 0 < references[i] /\ references[i] <= references[i]
    BY <2>1
  <2>3. /\ Closed(objects[i], references[i]) /\ UNCHANGED << file, created >>
        /\ references' = [references EXCEPT ![i] = 0]
        /\ objects' = [objects EXCEPT ![i] = NULL]
        /\ rc' = rc /\ running' = FALSE
    BY <1>6 DEF Cleanup
  <2>4. references' = [references EXCEPT ![i] = references[i] - references[i]]
    BY Zenon, <2>2, <2>3
  <2>5. objects' = IF references[i] = references[i] THEN [objects EXCEPT ![i] = NULL] ELSE objects
    BY <2>3
  <2>6. rc' \in {"ok", rc} /\ running' \in BOOLEAN
    BY Zenon, <2>3
  <2> QED BY Zenon, <2>1, <2>2, <2>3, <2>4, <2>5, <2>6, CloseInv
<1>7. CASE Ended
  BY Zenon, <1>7, SameInv DEF Ended, IInv, TypeOK
<1>8. CASE UNCHANGED vars
  BY <1>8, SameInv DEF vars, IInv, TypeOK
<1> QED BY <1>1, <1>2, <1>3, <1>4, <1>5, <1>6, <1>7, <1>8 DEF Next

LEMMA AlwaysInv == Spec => []IInv
<1>1. IInv /\ [Next]_vars => IInv'
  BY StepInv
<1> QED BY InitInv, <1>1, PTL DEF Spec

\* A slot in use is open in the C library, as often as the slot says, and whatever is open
\* has exactly one slot: failures leak nothing.
THEOREM AlwaysAgree == Spec => []TableAgrees
<1>1. IInv => TableAgrees
  BY DEF IInv, TableAgrees
<1> QED BY <1>1, AlwaysInv, PTL

\* An open handle never changes the semaphore it stands for.
THEOREM HandlesAreStable == Spec => SameSemaphore
<1>1. IInv /\ [Next]_vars => [Stable]_vars
  BY StepInv
<1>2. [Stable]_vars => [\A i \in Slots : references[i] # 0 /\ references'[i] # 0
            => objects'[i] = objects[i] /\ mapped'[objects[i]] = mapped[objects[i]]]_vars
  BY DEF Stable
<1> QED BY AlwaysInv, <1>1, <1>2, PTL DEF Spec, SameSemaphore
=============================================================================
