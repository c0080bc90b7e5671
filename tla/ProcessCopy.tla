---------------------------- MODULE ProcessCopy ----------------------------
(***************************************************************************)
(* What fork_process saves of a Capsule and what a child is rebuilt from   *)
(* (process_host.h).  A Capsule is its memory (arena and writable maps,    *)
(* one value here) and its pool of fibers: which of the two have been      *)
(* issued, which of them is on the free list, and the one that runs Bash.  *)
(***************************************************************************)
EXTENDS Naturals, FiniteSets

NoFiber == 2
Fiber == {0, 1}
Pool == [issued : SUBSET Fiber, free : Fiber \cup {NoFiber}, active : Fiber \cup {NoFiber}]

\* bpf_capsule_initialize.
FreshPool == [issued |-> {}, free |-> NoFiber, active |-> NoFiber]
\* bash_start: the first fiber is issued by the CPU it starts on.
StartedPool(f) == [issued |-> {f}, free |-> NoFiber, active |-> f]
\* bpf_capsule_malloc leases a fiber for the time of one bridge request: the free one,
\* or one that has never been issued.
CanAllocate(p) == p.free # NoFiber \/ p.issued # Fiber
Allocated(p) == [issued |-> Fiber, free |-> CHOOSE f \in Fiber : f # p.active, active |-> p.active]

\* Mutant: the free fiber is taken to be fiber 1, the running one fiber 0.
MutSaveError(p) ==
  IF p.active \notin p.issued THEN "EPROTO"
  ELSE IF p.free # NoFiber
    THEN IF p.issued = Fiber /\ p.free = 1 /\ p.active = 0 THEN "none" ELSE "EBUSY"
  ELSE IF Cardinality(p.issued) = 1 THEN "none" ELSE "EBUSY"
\* save_process: the running fiber must have been issued, and the other must be idle.
SaveError(p) ==
  IF p.active \notin p.issued THEN "EPROTO"
  ELSE IF p.free # NoFiber
    THEN IF p.issued = Fiber /\ p.free # p.active /\ p.free \in p.issued THEN "none" ELSE "EBUSY"
  ELSE IF Cardinality(p.issued) = 1 THEN "none" ELSE "EBUSY"
Saved(m, p) == [memory |-> m, pool |-> p]

\* restore_reserved_process: the continuation token comes with the maps, then the issued
\* fibers, then the free one.
WithToken(p, s) == [issued |-> p.issued, free |-> p.free, active |-> s.pool.active]
WithFibers(p, s) ==
  [issued |-> p.issued \cup s.pool.issued, free |-> s.pool.free, active |-> p.active]
=============================================================================
