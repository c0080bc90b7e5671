------------------------------ MODULE NamedSem ------------------------------
(***************************************************************************)
(* Named semaphores (named_sem_host.h).  The guest holds table indices; a  *)
(* slot of the table keeps the address that sem_open returned and counts   *)
(* the guest's references to it.                                           *)
(*                                                                         *)
(* The C library counts too: sem_open of a semaphore that is open returns  *)
(* the same address and adds a reference, sem_close takes one away and     *)
(* with the last one unmaps the address, which may then be used again for  *)
(* another semaphore.  The two counts must agree, or the table is left     *)
(* with an address that is no longer, or not its, semaphore.               *)
(***************************************************************************)
EXTENDS Naturals

CONSTANTS MAX_NAMED_SEMAPHORES,
          MAX_REFERENCES,  \* UINT_MAX
          Names,           \* of semaphores
          Addresses,       \* where the C library may map one
          MaxCreated       \* bound on the semaphores created

Slots == 1 .. MAX_NAMED_SEMAPHORES      \* the handles
NULL == "null"

ASSUME SemAssumption ==
  /\ MAX_NAMED_SEMAPHORES \in Nat /\ MAX_REFERENCES \in Nat \ {0}
  /\ MaxCreated \in Nat /\ NULL \notin Addresses

VARIABLES
  \* Linux and the C library
  file,        \* which semaphore a name stands for, 0 if none
  created,     \* how many have been created
  mapped,      \* which semaphore is mapped at an address, 0 if none
  opens,       \* the library's count for an address
  \* struct named_semaphores
  objects, references,
  rc, running

vars == << file, created, mapped, opens, objects, references, rc, running >>

Init ==
  /\ file = [n \in Names |-> 0] /\ created = 0
  /\ mapped = [a \in Addresses |-> 0] /\ opens = [a \in Addresses |-> 0]
  /\ objects = [i \in Slots |-> NULL] /\ references = [i \in Slots |-> 0]
  /\ rc = "ok" /\ running = TRUE
-----------------------------------------------------------------------------
(* The C library. *)

\* sem_open of semaphore s returns a: where s is open, or an address not in use.
Opened(s, a) ==
  IF \E b \in Addresses : mapped[b] = s THEN mapped[a] = s ELSE opens[a] = 0
\* sem_close, once or as often as the count: the effect on the library.
Closed(a, n) ==
  /\ opens' = [opens EXCEPT ![a] = opens[a] - n]
  /\ mapped' = IF opens[a] = n THEN [mapped EXCEPT ![a] = 0] ELSE mapped
-----------------------------------------------------------------------------
(* The table. *)

\* The slot that stands for an address.
Holder(a) == {i \in Slots : references[i] # 0 /\ objects[i] = a}
Lowest(i, S) == i \in S /\ \A j \in S : i <= j
AtLimit(i) == references[i] = MAX_REFERENCES
FreeSlots == {i \in Slots : references[i] = 0}

\* Mutant: a semaphore that finds no slot stays open in the library.
MutRefuse(s, a, e) ==
  /\ mapped' = [mapped EXCEPT ![a] = s] /\ opens' = [opens EXCEPT ![a] = opens[a] + 1]
  /\ rc' = e /\ UNCHANGED << objects, references >>
\* sem_open succeeded, and its reference is given back.
Refuse(s, a, e) == rc' = e /\ UNCHANGED << mapped, opens, objects, references >>

\* open_named_semaphore, after sem_open returned a for the semaphore s.
Enter(s, a) ==
  IF Holder(a) # {}
    THEN \E i \in Holder(a) :
           /\ Lowest(i, Holder(a))
           /\ IF AtLimit(i) THEN Refuse(s, a, "EOVERFLOW")
              ELSE /\ references' = [references EXCEPT ![i] = references[i] + 1]
                   /\ opens' = [opens EXCEPT ![a] = opens[a] + 1]
                   /\ mapped' = [mapped EXCEPT ![a] = s]
                   /\ rc' = "ok" /\ UNCHANGED objects
  ELSE IF FreeSlots = {} THEN Refuse(s, a, "EMFILE")
  ELSE \E i \in FreeSlots :
         /\ Lowest(i, FreeSlots)
         /\ objects' = [objects EXCEPT ![i] = a]
         /\ references' = [references EXCEPT ![i] = 1]
         /\ opens' = [opens EXCEPT ![a] = opens[a] + 1]
         /\ mapped' = [mapped EXCEPT ![a] = s]
         /\ rc' = "ok"

\* PX_SEM_OPEN of a name that exists ...
Open(n) ==
  /\ running /\ file[n] # 0
  /\ \E a \in Addresses : Opened(file[n], a) /\ Enter(file[n], a)
  /\ UNCHANGED << file, created, running >>
\* ... with O_CREAT, of one that does not ...
Create(n) ==
  /\ running /\ file[n] = 0 /\ created < MaxCreated
  /\ created' = created + 1 /\ file' = [file EXCEPT ![n] = created']
  /\ \E a \in Addresses : Opened(created', a) /\ Enter(created', a)
  /\ UNCHANGED running
\* ... or sem_open fails.
OpenFails ==
  /\ running /\ rc' = "error"
  /\ UNCHANGED << file, created, mapped, opens, objects, references, running >>

\* Mutant: the last close leaves the reference.
MutDropReference(i) ==
  IF references[i] = 1 THEN UNCHANGED << references, objects >>
  ELSE references' = [references EXCEPT ![i] = references[i] - 1] /\ UNCHANGED objects
DropReference(i) ==
  /\ references' = [references EXCEPT ![i] = references[i] - 1]
  /\ objects' = IF references[i] = 1 THEN [objects EXCEPT ![i] = NULL] ELSE objects
\* close_named_semaphore.
Close(h) ==
  /\ running
  /\ IF h \notin Slots \/ references[h] = 0
       THEN rc' = "EINVAL" /\ UNCHANGED << mapped, opens, objects, references >>
       ELSE Closed(objects[h], 1) /\ DropReference(h) /\ rc' = "ok"
  /\ UNCHANGED << file, created, running >>
\* PX_SEM_UNLINK: the name goes, the open semaphore stays.
Unlink(n) ==
  /\ running /\ file[n] # 0 /\ file' = [file EXCEPT ![n] = 0] /\ rc' = "ok"
  /\ UNCHANGED << created, mapped, opens, objects, references, running >>

\* close_named_semaphores, at the end of main: slot after slot.
Cleanup(i) ==
  /\ Lowest(i, Slots \ FreeSlots)
  /\ running' = FALSE /\ Closed(objects[i], references[i])
  /\ references' = [references EXCEPT ![i] = 0] /\ objects' = [objects EXCEPT ![i] = NULL]
  /\ UNCHANGED << file, created, rc >>
Ended ==
  /\ Slots \ FreeSlots = {} /\ running' = FALSE
  /\ UNCHANGED << file, created, mapped, opens, objects, references, rc >>

Next == \/ \E n \in Names : Open(n) \/ Create(n) \/ Unlink(n)
        \/ OpenFails
        \/ \E h \in 0 .. MAX_NAMED_SEMAPHORES + 1 : Close(h)
        \/ \E i \in Slots : Cleanup(i)
        \/ Ended
Spec == Init /\ [][Next]_vars
-----------------------------------------------------------------------------
(* Properties. *)

\* Type correctness.
TypeOK ==
  /\ file \in [Names -> 0 .. MaxCreated] /\ created \in 0 .. MaxCreated
  /\ mapped \in [Addresses -> 0 .. MaxCreated] /\ opens \in [Addresses -> Nat]
  /\ objects \in [Slots -> Addresses \cup {NULL}]
  /\ references \in [Slots -> 0 .. MAX_REFERENCES]
  /\ rc \in {"ok", "error", "EINVAL", "EMFILE", "EOVERFLOW"} /\ running \in BOOLEAN

\* The table and the library count alike: a slot in use has an address that is open as
\* often as the slot says, so no handle outlives its mapping ...
CountsAgree ==
  \A i \in Slots : references[i] # 0 => /\ objects[i] \in Addresses
                                        /\ opens[objects[i]] = references[i]
\* ... and what is open has exactly one slot, so nothing leaks, also after a failure.
OneSlotEach ==
  /\ \A i, j \in Slots :
       references[i] # 0 /\ references[j] # 0 /\ objects[i] = objects[j] => i = j
  /\ \A a \in Addresses : opens[a] # 0 => \E i \in Slots : references[i] # 0 /\ objects[i] = a

\* Table and library agree after any sequence of opens, creations, closes and refusals.
TableAgrees == TypeOK /\ CountsAgree /\ OneSlotEach

\* A handle stands for the same semaphore as long as it is open, whatever is opened,
\* closed, unlinked or created again under its name.
SameSemaphore ==
  [][\A i \in Slots : references[i] # 0 /\ references'[i] # 0
       => objects'[i] = objects[i] /\ mapped'[objects[i]] = mapped[objects[i]]]_vars
=============================================================================
