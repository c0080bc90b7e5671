---------------------------- MODULE FdTableProofs ----------------------------
(***************************************************************************)
(* Proofs about FdTable, for any range of descriptors, any limits, any     *)
(* files and any sequence of calls.                                        *)
(***************************************************************************)
EXTENDS FdTable, TLAPS

\* TableExact is not inductive: it holds of a running guest only because nothing else
\* can take a number of its range while the loader opens its own descriptors.
TableInv ==
  /\ pc \in {"reserve", "destroy", "load", "run"} =>
       \A i \in Guest : /\ fds[i] # None <=> kfd[i] \notin {"free", "slot"}
                        /\ kfd[i] = "slot" <=> i \in slots
                        /\ kfd[i] # "own"
  /\ pc \in {"destroy", "load"} => \A i \in Guest : kfd[i] # "free"
  /\ pc \in {"reserve", "run"} => slots = {}
  /\ pc = "inherit" => slots = {} /\ \A i \in Fd : kfd[i] \notin {"slot", "own"}
  /\ pc \in {"inherit", "reserve", "run"} => limit = caller.soft
  /\ NativeNumbers

IInv == TypeOK /\ TableInv

LEMMA Ranges ==
  /\ Guest \subseteq Fd /\ None \notin Guest
  /\ \A l \in Limits : l.soft \in 0 .. TOP /\ l.hard \in 0 .. TOP /\ l.soft <= l.hard
  BY FdAssumption DEF Guest, Fd, None

LEMMA Same ==
  /\ NativeType /\ UNCHANGED native => NativeType'
  /\ TableType /\ UNCHANGED << fds, dirs >> => TableType'
  /\ LoaderType /\ UNCHANGED << slots, opened, child, pc, rc >> => LoaderType'
  BY DEF NativeType, TableType, LoaderType, native

\* Nothing but what the call returned has changed.
LEMMA RefusedKeeps ==
  ASSUME IInv, rc' \in {"ok", "error", "EMFILE"},
         UNCHANGED << native, fds, dirs, slots, pc, opened, child >>
  PROVE  IInv'
  <1>1. TypeOK'
    BY Same DEF IInv, TypeOK, LoaderType
  <1>2. TableInv'
    BY DEF IInv, TableInv, NativeNumbers, native
  <1> QED BY <1>1, <1>2 DEF IInv

LEMMA InitInv == Init => IInv
  <1> SUFFICES ASSUME Init PROVE IInv
    OBVIOUS
  <1>1. NativeType
    <2>1. kfd \in [Fd -> Inode]
      BY DEF Init, Inode
    <2>2. limit \in 0 .. TOP /\ caller \in Limits
      BY Ranges DEF Init
    <2> QED BY <2>1, <2>2 DEF Init, NativeType
  <1>2. TableType
    BY DEF Init, TableType
  <1>3. LoaderType
    <2>1. opened \in 0 .. Own
      BY FdAssumption DEF Init
    <2> QED BY Zenon, <2>1 DEF Init, LoaderType
  <1>4. TableInv
    BY FdAssumption DEF Init, TableInv, NativeNumbers
  <1> QED BY <1>1, <1>2, <1>3, <1>4 DEF IInv, TypeOK

LEMMA LoadingInv ==
  ASSUME IInv, Loading PROVE IInv'
  <1> USE DEF IInv, TypeOK
  <1>1. CASE inherit_descriptors
    <2>1. TableType'
      BY <1>1, Same DEF inherit_descriptors, TableType
    <2>2. LoaderType'
      BY <1>1 DEF inherit_descriptors, LoaderType
    <2>3. \A i \in Guest : kfd[i] \notin {"slot", "own"}
      BY <1>1, Ranges DEF inherit_descriptors, TableInv
    <2>4. TableInv'
      BY <1>1, <2>3, Ranges DEF inherit_descriptors, TableInv, NativeNumbers, native
    <2> QED BY <1>1, <2>1, <2>2, <2>4, Same DEF inherit_descriptors
  <1>2. CASE Reserve
    <2>1. limit + Headroom \in 0 .. TOP
      BY <1>2, Ranges, FdAssumption DEF Reserve, Headroom, NativeType, TableInv
    <2>2. NativeType'
      BY <1>2, <2>1, Ranges DEF Reserve, NativeType, Inode, Vacant
    <2>3. LoaderType'
      BY <1>2 DEF Reserve, LoaderType, Vacant
    <2>4. \A i \in Guest : kfd'[i] = IF kfd[i] = "free" THEN "slot" ELSE kfd[i]
      BY <1>2, Ranges DEF Reserve, Vacant
    <2>5. \A i \in Guest : i \in slots' <=> kfd[i] = "free"
      BY <1>2 DEF Reserve, Vacant
    <2>6. \A i \in Guest : /\ fds[i] # None <=> kfd[i] # "free"
                           /\ kfd[i] \notin {"slot", "own"}
      BY <1>2 DEF Reserve, TableInv
    <2>7. TableInv'
      BY <1>2, <2>4, <2>5, <2>6 DEF Reserve, TableInv, NativeNumbers
    <2> QED BY <1>2, <2>2, <2>3, <2>7, Same DEF Reserve
  <1>3. CASE ReserveFails \/ LoadFails
    <2>1. LoaderType' /\ TableInv'
      BY <1>3 DEF ReserveFails, LoadFails, LoaderType, TableInv, NativeNumbers
    <2> QED BY <1>3, <2>1, Same DEF ReserveFails, LoadFails
  <1>4. CASE Destroy
    <2>1. NativeType' /\ LoaderType'
      BY <1>4, FdAssumption DEF Destroy, NativeType, LoaderType, Inode
    <2>2. \A i \in Guest : kfd'[i] = kfd[i]
      BY <1>4, Ranges DEF Destroy, TableInv
    <2>3. TableInv'
      BY <1>4, <2>2 DEF Destroy, TableInv, NativeNumbers
    <2> QED BY <1>4, <2>1, <2>3, Same DEF Destroy
  <1>5. CASE Release
    <2>1. NativeType'
      BY <1>5, Ranges DEF Release, NativeType, Inode
    <2>2. LoaderType'
      BY Zenon, <1>5 DEF Release, LoaderType
    <2>3. \A i \in Guest : kfd'[i] = IF kfd[i] = "slot" THEN "free" ELSE kfd[i]
      BY <1>5, Ranges DEF Release, TableInv
    <2>4. TableInv'
      BY <1>5, <2>3 DEF Release, TableInv, NativeNumbers
    <2> QED BY <1>5, <2>1, <2>2, <2>4, Same DEF Release
  <1>6. ASSUME NEW i \in Fd, LoadOpen(i) PROVE IInv'
    <2>1. i \notin Guest
      BY <1>6 DEF LoadOpen, FreeBelow, TableInv
    <2>2. NativeType' /\ LoaderType'
      BY <1>6, FdAssumption DEF LoadOpen, NativeType, LoaderType, Inode
    <2>3. \A j \in Guest : kfd'[j] = kfd[j]
      BY <1>6, <2>1, Ranges DEF LoadOpen, NativeType
    <2>4. TableInv'
      BY <1>6, <2>3 DEF LoadOpen, TableInv, NativeNumbers
    <2> QED BY <1>6, <2>2, <2>4, Same DEF LoadOpen
  <1> QED BY <1>1, <1>2, <1>3, <1>4, <1>5, <1>6 DEF Loading

\* Descriptors that Linux returned are entered or closed again.
LEMMA AdoptInv ==
  ASSUME IInv, pc = "run", NEW R \in SUBSET Fd, NEW f \in GuestInode \cup {"caller"},
         NEW ce \in BOOLEAN, NEW m, Adopt(R, f, ce, m)
  PROVE  IInv'
  <1> USE DEF IInv, TypeOK
  <1>1. CASE Adoptable(R, m)
    <2>1. /\ fds' = [i \in Guest |-> IF i \in R THEN i ELSE fds[i]]
          /\ kfd' = [i \in Fd |-> IF i \in R THEN f ELSE kfd[i]]
          /\ cloexec' = IF ce THEN cloexec \cup R ELSE cloexec \ R
          /\ rc' = "ok" /\ UNCHANGED << locks, dirs, pc, loaderVars >>
      BY <1>1 DEF Adopt
    <2>2. f \in Inode /\ f \notin {"free", "slot", "own"}
      BY FdAssumption DEF GuestInode, Inode
    <2>3. NativeType'
      BY <2>1, <2>2 DEF NativeType, loaderVars
    <2>4. TableType'
      BY <2>1 DEF TableType
    <2>5. LoaderType'
      BY <2>1 DEF LoaderType, loaderVars
    <2>6. \A i \in Guest : kfd'[i] = IF i \in R THEN f ELSE kfd[i]
      BY <2>1, Ranges
    <2>7. \A i \in Guest : i \in R => fds'[i] # None
      BY <2>1, Ranges
    <2>8. \A i \in Guest : i \notin R => fds'[i] = fds[i]
      BY <2>1
    <2>9. NativeNumbers'
      BY <2>1 DEF TableInv, NativeNumbers
    <2>10. TableInv'
      BY <2>1, <2>2, <2>6, <2>7, <2>8, <2>9 DEF TableInv, loaderVars
    <2> QED BY <2>3, <2>4, <2>5, <2>10
  <1>2. CASE ~Adoptable(R, m)
    <2>1. /\ rc' = "EMFILE" /\ locks' = locks \ {f}
          /\ UNCHANGED << fds, kfd, cloexec, dirs, pc, limit, caller, slots, opened, child >>
      BY <1>2 DEF Adopt, loaderVars
    <2>2. NativeType'
      BY <2>1 DEF NativeType
    <2>3. LoaderType'
      BY <2>1 DEF LoaderType
    <2>4. TableInv'
      BY <2>1 DEF TableInv, NativeNumbers
    <2> QED BY <2>1, <2>2, <2>3, <2>4, Same
  <1> QED BY <1>1, <1>2

LEMMA CreatingInv ==
  ASSUME IInv, Creating PROVE IInv'
  <1>1. CASE Refused
    BY <1>1, RefusedKeeps DEF Refused
  <1>2. ASSUME NEW g \in Files, NEW ce \in BOOLEAN, Open(g, ce) PROVE IInv'
    <2>1. SUFFICES ASSUME NEW i \in FreeBelow(limit), Adopt({i}, g, ce, 0) PROVE IInv'
      BY Zenon, <1>1, <1>2 DEF Open
    <2> QED BY <1>2, <2>1, AdoptInv DEF Open, FreeBelow, GuestInode
  <1>3. CASE Pipe
    <2>1. SUFFICES ASSUME NEW i \in FreeBelow(limit), NEW j \in FreeBelow(limit),
                          Adopt({i, j}, "pipe", FALSE, 0)
                   PROVE  IInv'
      BY Zenon, <1>1, <1>3 DEF Pipe
    <2> QED BY Zenon, <1>3, <2>1, AdoptInv DEF Pipe, FreeBelow, GuestInode
  <1>4. ASSUME NEW g \in Files, Receive(g) PROVE IInv'
    <2>1. SUFFICES ASSUME NEW R \in SUBSET FreeBelow(limit), Adopt(R, g, FALSE, 0) PROVE IInv'
      BY Zenon, <1>1, <1>4 DEF Receive
    <2>2. R \in SUBSET Fd
      BY DEF FreeBelow
    <2> QED BY Zenon, <1>4, <2>1, <2>2, AdoptInv DEF Receive, GuestInode
  <1>5. ASSUME NEW i \in Guest, NEW m \in Guest, NEW ce \in BOOLEAN, DupFd(i, m, ce) PROVE IInv'
    <2>1. SUFFICES ASSUME NEW j \in FreeBelow(limit), Adopt({j}, kfd[i], ce, m) PROVE IInv'
      BY Zenon, <1>1, <1>5 DEF DupFd
    <2>2. pc = "run" /\ fds[i] # None
      BY <1>5 DEF DupFd, Valid
    <2>3. kfd[i] \notin {"free", "slot", "own"}
      BY <2>2 DEF IInv, TableInv
    <2>4. kfd[i] \in GuestInode \cup {"caller"}
      BY <2>3, Ranges DEF IInv, TypeOK, NativeType, Inode, GuestInode
    <2>5. {j} \in SUBSET Fd
      BY DEF FreeBelow
    <2> QED BY <2>1, <2>2, <2>4, <2>5, AdoptInv
  <1> QED BY <1>2, <1>3, <1>4, <1>5 DEF Creating

LEMMA ChangingInv ==
  ASSUME IInv, Changing PROVE IInv'
  <1> USE DEF IInv, TypeOK
  <1>1. ASSUME NEW i \in Guest, Close(i) PROVE IInv'
    <2>1. /\ kfd' = [kfd EXCEPT ![i] = "free"] /\ cloexec' = cloexec \ {i}
          /\ locks' = locks \ {kfd[i]} /\ fds' = [fds EXCEPT ![i] = None]
          /\ pc = "run" /\ rc' = "ok"
          /\ UNCHANGED << dirs, pc, limit, caller, slots, opened, child >>
      BY <1>1 DEF Close, Valid, loaderVars
    <2>2. NativeType'
      BY Zenon, <2>1 DEF NativeType, Inode
    <2>3. TableType' /\ LoaderType'
      BY <2>1 DEF TableType, LoaderType
    <2>4. NativeNumbers'
      BY <2>1 DEF TableInv, NativeNumbers, TableType
    <2>5. \A j \in Guest : /\ kfd'[j] = IF j = i THEN "free" ELSE kfd[j]
                           /\ fds'[j] = IF j = i THEN None ELSE fds[j]
      BY <2>1, Ranges DEF NativeType, TableType
    <2>6. TableInv'
      BY <2>1, <2>4, <2>5 DEF TableInv
    <2> QED BY <2>2, <2>3, <2>6
  <1>2. ASSUME NEW i \in Guest, Lock(i) \/ Unlock(i) PROVE IInv'
    <2>1. /\ locks' \subseteq Files /\ rc' = "ok"
          /\ UNCHANGED << kfd, cloexec, fds, dirs, pc, limit, caller, slots, opened, child >>
      BY <1>2 DEF Lock, Unlock, loaderVars, NativeType
    <2>2. NativeType' /\ LoaderType'
      BY <2>1 DEF NativeType, LoaderType
    <2>3. TableInv'
      BY <2>1 DEF TableInv, NativeNumbers
    <2> QED BY <2>1, <2>2, <2>3, Same
  <1>3. ASSUME NEW i \in Guest, NEW j \in Fd, Dup2(i, j) PROVE IInv'
    <2>1. CASE rc' \in {"ok", "error", "EMFILE"}
               /\ UNCHANGED << native, fds, dirs, slots, pc, opened, child >>
      BY <2>1, RefusedKeeps
    <2>2. CASE Valid(i) /\ j \in Guest /\ i # j /\ rc' = "ok"
               /\ kfd' = [kfd EXCEPT ![j] = kfd[i]] /\ cloexec' = cloexec \ {j}
               /\ locks' = locks \ {kfd[j]} /\ fds' = [fds EXCEPT ![j] = j]
               /\ UNCHANGED << dirs, pc, limit, caller, slots, opened, child >>
      <3>1. NativeType'
        BY <2>2, Ranges DEF NativeType
      <3>2. TableType' /\ LoaderType'
        BY <2>2 DEF TableType, LoaderType
      <3>3. NativeNumbers'
        BY <2>2 DEF TableInv, NativeNumbers, TableType
      <3>4. \A k \in Guest : /\ kfd'[k] = IF k = j THEN kfd[i] ELSE kfd[k]
                             /\ fds'[k] = IF k = j THEN j ELSE fds[k]
        BY <2>2, Ranges DEF NativeType, TableType
      <3>5. kfd[i] \notin {"free", "slot", "own"} /\ j # None /\ slots = {} /\ pc = "run"
        BY <2>2, Ranges DEF TableInv, Valid
      <3>6. TableInv'
        BY <2>2, <3>3, <3>4, <3>5 DEF TableInv
      <3> QED BY <3>1, <3>2, <3>6
    <2> QED BY <1>3, <2>1, <2>2 DEF Dup2, Refused, loaderVars
  <1>4. ASSUME NEW i \in Guest, NEW ce \in BOOLEAN, SetCloexec(i, ce) PROVE IInv'
    <2>1. /\ cloexec' \subseteq Fd /\ rc' = "ok"
          /\ UNCHANGED << kfd, locks, fds, dirs, pc, limit, caller, slots, opened, child >>
      BY <1>4, Ranges DEF SetCloexec, loaderVars, NativeType
    <2>2. NativeType' /\ LoaderType'
      BY <2>1 DEF NativeType, LoaderType
    <2>3. TableInv'
      BY <2>1 DEF TableInv, NativeNumbers
    <2> QED BY <2>1, <2>2, <2>3, Same
  <1> QED BY <1>1, <1>2, <1>3, <1>4 DEF Changing

LEMMA StreamsInv ==
  ASSUME IInv, Streams PROVE IInv'
  <1> USE DEF IInv, TypeOK
  <1>1. CASE Refused
    BY <1>1, RefusedKeeps DEF Refused
  <1>2. ASSUME NEW d \in Stream, OpenDir(d) PROVE IInv'
    <2>1. CASE rc' = "EMFILE" /\ UNCHANGED << native, fds, dirs, slots, pc, opened, child >>
      BY <2>1, RefusedKeeps
    <2>2. ASSUME NEW i \in Guest, pc = "run", dirs' = [dirs EXCEPT ![d] = i],
                 fds' = [fds EXCEPT ![i] = i], kfd' = [kfd EXCEPT ![i] = "dir"],
                 cloexec' = cloexec \cup {i}, rc' = "ok",
                 UNCHANGED << locks, pc, limit, caller, slots, opened, child >>
          PROVE  IInv'
      <3>1. NativeType'
        BY <2>2, Ranges DEF NativeType, Inode
      <3>2. TableType' /\ LoaderType'
        BY <2>2 DEF TableType, LoaderType
      <3>3. NativeNumbers'
        BY <2>2 DEF TableInv, NativeNumbers, TableType
      <3>4. \A k \in Guest : /\ kfd'[k] = IF k = i THEN "dir" ELSE kfd[k]
                             /\ fds'[k] = IF k = i THEN i ELSE fds[k]
        BY <2>2, Ranges DEF NativeType, TableType
      <3>5. i # None /\ slots = {}
        BY <2>2, Ranges DEF TableInv
      <3>6. TableInv'
        BY <2>2, <3>3, <3>4, <3>5 DEF TableInv
      <3> QED BY <3>1, <3>2, <3>6
    <2> QED BY Zenon, <1>1, <1>2, <2>1, <2>2 DEF OpenDir, loaderVars, native
  <1>3. ASSUME NEW d \in Stream, CloseDir(d) PROVE IInv'
    <2> DEFINE i == dirs[d]
    <2>1. i \in Guest /\ pc = "run"
      BY <1>3 DEF CloseDir, TableType
    <2>2. /\ kfd' = [kfd EXCEPT ![i] = "free"] /\ cloexec' = cloexec \ {i}
          /\ locks' = locks \ {kfd[i]} /\ fds' = [fds EXCEPT ![i] = None]
          /\ dirs' = [dirs EXCEPT ![d] = None] /\ rc' \in {"ok", "error"}
          /\ UNCHANGED << pc, limit, caller, slots, opened, child >>
      BY <1>3 DEF CloseDir, loaderVars
    <2> HIDE DEF i
    <2>3. NativeType'
      BY Zenon, <2>1, <2>2 DEF NativeType, Inode
    <2>4. TableType' /\ LoaderType'
      BY <2>1, <2>2 DEF TableType, LoaderType
    <2>5. NativeNumbers'
      BY <2>2 DEF TableInv, NativeNumbers, TableType
    <2>6. \A j \in Guest : /\ kfd'[j] = IF j = i THEN "free" ELSE kfd[j]
                           /\ fds'[j] = IF j = i THEN None ELSE fds[j]
      BY <2>2, Ranges DEF NativeType, TableType
    <2>7. TableInv'
      BY <2>1, <2>2, <2>5, <2>6 DEF TableInv
    <2> QED BY <2>3, <2>4, <2>7
  <1>4. ASSUME NEW i \in Guest, NEW d \in Stream, FdOpenDir(i, d) PROVE IInv'
    <2>1. CASE /\ dirs' = [dirs EXCEPT ![d] = i] /\ rc' = "ok"
               /\ UNCHANGED << native, fds, slots, pc, opened, child >>
      <3>1. TableType' /\ LoaderType'
        BY <2>1 DEF TableType, LoaderType
      <3>2. TableInv'
        BY <2>1 DEF TableInv, NativeNumbers, native
      <3> QED BY <2>1, <3>1, <3>2, Same
    <2> QED BY <1>1, <1>4, <2>1 DEF FdOpenDir
  <1>5. CASE NoStream
    BY <1>5, RefusedKeeps DEF NoStream
  <1> QED BY <1>2, <1>3, <1>4, <1>5 DEF Streams

LEMMA LeavingInv ==
  ASSUME IInv, Leaving PROVE IInv'
  <1> USE DEF IInv, TypeOK
  <1>1. CASE ForkChild
    <2>1. NativeType' /\ LoaderType'
      BY <1>1 DEF ForkChild, NativeType, LoaderType
    <2>2. TableInv'
      BY <1>1 DEF ForkChild, TableInv, NativeNumbers
    <2> QED BY <1>1, <2>1, <2>2, Same DEF ForkChild
  <1>2. CASE ExecFails
    <2>1. ~Displaced
      BY DEF Displaced, TableInv, NativeNumbers
    <2>2. NativeType' /\ LoaderType'
      BY <1>2, <2>1 DEF ExecFails, NativeType, LoaderType, Private, loaderVars
    <2>3. TableInv'
      BY <1>2, <2>1 DEF ExecFails, TableInv, NativeNumbers, loaderVars
    <2> QED BY <1>2, <2>2, <2>3, Same DEF ExecFails
  <1>3. CASE ExecSucceeds
    <2>1. NativeType' /\ LoaderType'
      BY <1>3 DEF ExecSucceeds, NativeType, LoaderType, Inode
    <2>2. TableInv'
      BY <1>3 DEF ExecSucceeds, TableInv, NativeNumbers
    <2> QED BY <1>3, <2>1, <2>2, Same DEF ExecSucceeds
  <1>4. CASE Exit
    <2>1. LoaderType' /\ TableInv'
      BY <1>4 DEF Exit, LoaderType, TableInv, NativeNumbers
    <2> QED BY <1>4, <2>1, Same DEF Exit
  <1> QED BY <1>1, <1>2, <1>3, <1>4 DEF Leaving

LEMMA StepInv == IInv /\ [Next]_vars => IInv'
  <1> SUFFICES ASSUME IInv, [Next]_vars PROVE IInv'
    OBVIOUS
  <1>1. CASE UNCHANGED vars
    <2>1. TypeOK'
      BY <1>1, Same DEF vars, native, IInv, TypeOK
    <2>2. TableInv'
      BY <1>1 DEF vars, IInv, TableInv, NativeNumbers
    <2> QED BY <2>1, <2>2 DEF IInv
  <1> QED BY <1>1, LoadingInv, CreatingInv, ChangingInv, StreamsInv, LeavingInv DEF Next, Ended

LEMMA AlwaysInv == Spec => []IInv
  BY InitInv, StepInv, PTL DEF Spec

\* A running guest's table is exact: through loading, fork, failed calls, streams whose
\* number was closed or replaced, and messages that carry descriptors.  Every descriptor of
\* the guest is the native one of the same number, so exec never refuses for a displaced
\* descriptor, and stays in the guest's range, whatever Linux hands out.  The guest never
\* runs with the limit that was raised for the loader.
THEOREM TableIsCorrect == Spec => []TableCorrect
  <1>1. IInv => LimitRestored
    BY DEF IInv, TableInv, LimitRestored
  <1>2. IInv => TableCorrect
    BY <1>1 DEF IInv, TableInv, TableExact, TableCorrect
  <1> QED BY <1>2, AlwaysInv, PTL

-----------------------------------------------------------------------------
(* What a step may not do. *)

\* Loading and restoring leave the guest's descriptors and locks as they are.
LEMMA LoadingTouchesNothing == Spec => LoadingUntouched
  <1>1. IInv /\ [Next]_vars
        => [pc # "run" => /\ \A i \in Guest : fds'[i] # None => kfd'[i] = kfd[i]
                          /\ locks' = locks]_vars
    <2> SUFFICES ASSUME IInv, Next, pc # "run"
                 PROVE  (\A i \in Guest : fds'[i] # None => kfd'[i] = kfd[i]) /\ locks' = locks
      OBVIOUS
    <2>1. CASE Loading
      <3>1. CASE inherit_descriptors BY <3>1 DEF inherit_descriptors, native
      <3>2. CASE ReserveFails \/ LoadFails BY <3>2 DEF ReserveFails, LoadFails, native
      <3>3. CASE Reserve
        <4>1. locks' = locks /\ fds' = fds
          BY <3>3 DEF Reserve
        <4>2. \A i \in Guest : fds[i] # None => kfd[i] # "free"
          BY <3>3 DEF Reserve, IInv, TableInv
        <4>3. \A i \in Guest : kfd[i] # "free" => kfd'[i] = kfd[i]
          BY <3>3, Ranges DEF Reserve, Vacant
        <4> QED BY <4>1, <4>2, <4>3
      <3>4. CASE Destroy
        <4>1. locks' = locks
          BY <3>4 DEF Destroy
        <4>2. \A i \in Guest : kfd'[i] = kfd[i]
          BY <3>4, Ranges DEF Destroy, IInv, TableInv
        <4> QED BY <4>1, <4>2
      <3>5. ASSUME NEW j \in Fd, LoadOpen(j)
            PROVE  (\A i \in Guest : kfd'[i] = kfd[i]) /\ locks' = locks
        <4>1. j \notin Guest
          BY <3>5 DEF LoadOpen, FreeBelow, IInv, TableInv
        <4> QED BY <3>5, <4>1, Ranges DEF LoadOpen, IInv, TypeOK, NativeType
      <3>6. CASE Release
        <4>1. locks' = locks /\ fds' = fds
          BY <3>6 DEF Release
        <4>2. \A i \in Guest : fds[i] # None => i \notin slots
          BY <3>6 DEF Release, IInv, TableInv
        <4>3. \A i \in Guest : i \notin slots => kfd'[i] = kfd[i]
          BY <3>6, Ranges DEF Release
        <4> QED BY <4>1, <4>2, <4>3
      <3> QED BY <2>1, <3>1, <3>2, <3>3, <3>4, <3>5, <3>6 DEF Loading
    <2>2. CASE Ended BY <2>2 DEF Ended, vars
    <2>3. ~Creating
      BY Zenon DEF Creating, Open, Pipe, Receive, DupFd, Valid
    <2>4. ~Changing
      BY DEF Changing, Close, Lock, Unlock, Dup2, SetCloexec, Valid
    <2>5. ~Streams
      BY DEF Streams, OpenDir, CloseDir, FdOpenDir, NoStream, Valid
    <2>6. ~Leaving
      BY DEF Leaving, ForkChild, ExecFails, ExecSucceeds, Exit
    <2> QED BY <2>1, <2>2, <2>3, <2>4, <2>5, <2>6 DEF Next
  <1> QED BY <1>1, AlwaysInv, PTL DEF Spec, LoadingUntouched

\* A call that is refused for want of a number leaves table, streams and Linux's
\* descriptors as they were.
LEMMA FailuresLeaveTable == Spec => FailureLeavesTable
  <1>1. [Next]_vars
        => [pc = "run" /\ pc' = "run" /\ rc' \in {"EMFILE", "EIO"}
            => UNCHANGED << kfd, fds, dirs, limit >>]_vars
    <2> SUFFICES ASSUME Next, pc = "run", pc' = "run", rc' \in {"EMFILE", "EIO"}
                 PROVE  kfd' = kfd /\ fds' = fds /\ dirs' = dirs /\ limit' = limit
      OBVIOUS
    <2>1. ASSUME NEW R, NEW f, NEW ce, NEW m, Adopt(R, f, ce, m)
          PROVE  kfd' = kfd /\ fds' = fds /\ dirs' = dirs /\ limit' = limit
      BY <2>1 DEF Adopt, loaderVars
    <2>2. ~Refused
      BY DEF Refused
    <2>3. ~Loading
      BY DEF Loading, inherit_descriptors, Reserve, ReserveFails, Destroy, LoadFails, Release, LoadOpen
    <2>4. CASE Creating
      BY Zenon, <2>1, <2>2, <2>4 DEF Creating, Open, Pipe, Receive, DupFd
    <2>5. ~Changing
      BY <2>2 DEF Changing, Close, Lock, Unlock, Dup2, SetCloexec
    <2>6. CASE Streams
      <3>1. ASSUME NEW d \in Stream, OpenDir(d)
            PROVE  kfd' = kfd /\ fds' = fds /\ dirs' = dirs /\ limit' = limit
        BY <2>2, <3>1 DEF OpenDir, loaderVars
      <3>2. ASSUME NEW d \in Stream PROVE ~CloseDir(d)
        BY DEF CloseDir
      <3>3. ASSUME NEW i \in Guest, NEW d \in Stream PROVE ~FdOpenDir(i, d)
        BY <2>2 DEF FdOpenDir
      <3>4. CASE NoStream
        BY <3>4 DEF NoStream, native
      <3> QED BY Zenon, <2>6, <3>1, <3>2, <3>3, <3>4 DEF Streams
    <2>7. CASE Leaving
      BY <2>7 DEF Leaving, ForkChild, ExecFails, ExecSucceeds, Exit, loaderVars
    <2>8. CASE Ended
      BY <2>8 DEF Ended
    <2> QED BY <2>3, <2>4, <2>5, <2>6, <2>7, <2>8 DEF Next
  <1> QED BY <1>1, PTL DEF Spec, FailureLeavesTable

\* Neither loading, nor reloading after fork, nor a call that fails disturbs a descriptor.
THEOREM NothingIsDisturbed == Spec => NothingDisturbed
  BY LoadingTouchesNothing, FailuresLeaveTable, PTL DEF NothingDisturbed

\* exec hands over exactly the guest's descriptors, under their numbers.
THEOREM ExecIsExact == Spec => ExecHandsOver
  <1>1. IInv /\ [Next]_vars
        => [pc' = "exec" /\ pc # "exec"
            => \A i \in Fd : kfd'[i] = IF i \in Guest /\ fds[i] # None /\ i \notin cloexec
                                       THEN kfd[i] ELSE "free"]_vars
    <2> SUFFICES ASSUME IInv, Next, pc' = "exec", pc # "exec", NEW i \in Fd
                 PROVE  kfd'[i] = IF i \in Guest /\ fds[i] # None /\ i \notin cloexec
                                  THEN kfd[i] ELSE "free"
      OBVIOUS
    <2>1. CASE ExecSucceeds
      <3>1. kfd'[i] = IF i \in cloexec \cup Private THEN "free" ELSE kfd[i]
        BY <2>1 DEF ExecSucceeds
      <3>2. i \in Guest => i \notin Private /\ (fds[i] # None <=> kfd[i] # "free")
        <4>1. i \in Guest => i \notin Private
          BY FdAssumption DEF Private, Guest
        <4>2. pc = "run" /\ pc \in {"reserve", "run"}
          BY <2>1 DEF ExecSucceeds
        <4>3. slots = {}
          BY <4>2 DEF IInv, TableInv
        <4> QED BY <4>1, <4>2, <4>3 DEF IInv, TableInv
      <3>3. i \notin Guest => i \in Private \/ kfd[i] = "free"
        BY FdAssumption DEF Private, Guest, Fd
      <3> QED BY <3>1, <3>2, <3>3
    <2>2. ~Loading
      BY DEF Loading, inherit_descriptors, Reserve, ReserveFails, Destroy, LoadFails, Release, LoadOpen
    <2>3. ~Creating
      <3>1. ASSUME NEW R, NEW f, NEW ce, NEW m, Adopt(R, f, ce, m) \/ Refused PROVE pc' = pc
        BY <3>1 DEF Adopt, Refused
      <3> QED BY Zenon, <3>1 DEF Creating, Open, Pipe, Receive, DupFd
    <2>4. ~Changing
      BY DEF Changing, Close, Lock, Unlock, Dup2, SetCloexec, Refused
    <2>5. ~Streams
      BY Zenon DEF Streams, OpenDir, CloseDir, FdOpenDir, NoStream, Refused
    <2>6. ~ForkChild /\ ~ExecFails /\ ~Exit /\ ~Ended
      BY DEF ForkChild, ExecFails, Exit, Ended, vars
    <2> QED BY <2>1, <2>2, <2>3, <2>4, <2>5, <2>6 DEF Next, Leaving
  <1> QED BY <1>1, AlwaysInv, PTL DEF Spec, ExecHandsOver
=============================================================================
