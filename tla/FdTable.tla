------------------------------- MODULE FdTable -------------------------------
(***************************************************************************)
(* The guest's descriptors (fds_host.h, exec_host.h and the descriptor     *)
(* operations of host.c, network_host.h and misc_host.h).                  *)
(*                                                                         *)
(* A guest descriptor is the native descriptor of the same number below    *)
(* MAX_FDS; h->fds records which of them the guest has.  The loader's own  *)
(* descriptors must stay out of that range, so while it opens BPF objects  *)
(* (at the start, and again in a forked child) every vacant guest slot is  *)
(* held by a placeholder and the soft limit is raised.                     *)
(*                                                                         *)
(* Linux keeps a process's record locks per file: closing any descriptor   *)
(* of a file drops them all.                                               *)
(***************************************************************************)
EXTENDS Integers, FiniteSets

CONSTANTS MAX_FDS,    \* guest descriptors are 0 .. MAX_FDS - 1
          TOP,        \* native descriptors are 0 .. TOP - 1, as far as the limits go
          Limits,     \* the soft and hard limits the caller may have set
          MAX_DIRS,   \* directory streams
          Files,      \* files that can be locked
          Own,        \* how many descriptors the loader opens for itself
          MaxRights   \* descriptors received with one message, at most

Fd == 0 .. TOP - 1
Guest == 0 .. MAX_FDS - 1
Stream == 0 .. MAX_DIRS - 1
None == -1
\* What a descriptor refers to: nothing, a file, a directory, something unnamed (pipe,
\* socket), a placeholder, an object of the loader, or what the caller left above the range.
Inode == Files \cup {"free", "dir", "pipe", "slot", "own", "caller"}
GuestInode == Files \cup {"dir", "pipe"}

ASSUME FdAssumption ==
  /\ MAX_FDS \in Nat /\ TOP \in Nat /\ MAX_FDS <= TOP
  /\ Limits \subseteq {l \in [soft : 0 .. TOP, hard : 0 .. TOP] : l.soft <= l.hard}
  /\ MAX_DIRS \in Nat /\ Own \in Nat /\ MaxRights \in Nat
  /\ Files \cap {"free", "dir", "pipe", "slot", "own", "caller"} = {}

VARIABLES
  kfd,        \* the native descriptors
  cloexec,    \* those that are close-on-exec
  limit,      \* RLIMIT_NOFILE, soft, now
  caller,     \* the limits the caller set
  locks,      \* files on which this process holds a record lock
  fds,        \* h->fds
  dirs,       \* h->dirs and h->dir_fds: the descriptor of each open stream
  slots,      \* reserved->slots
  pc,         \* where the loader is
  opened,     \* how many own descriptors it has opened in this load
  child,      \* it is restoring a forked child
  rc          \* what the last call returned

vars == << kfd, cloexec, limit, caller, locks, fds, dirs, slots, pc, opened, child, rc >>
native == << kfd, cloexec, limit, caller, locks >>
\* What no call of the guest changes.
loaderVars == << limit, caller, slots, opened, child >>

\* The caller's descriptors, some perhaps closed, and nothing known of them yet.
Init ==
  /\ caller \in Limits /\ limit = caller.soft
  /\ kfd \in [Fd -> Files \cup {"free", "caller"}]
  /\ \A i \in Fd : /\ i >= limit => kfd[i] = "free"
                   /\ i \in Guest => kfd[i] # "caller"
                   /\ i \notin Guest => kfd[i] \in {"free", "caller"}
  /\ cloexec = {} /\ locks = {}
  /\ fds = [i \in Guest |-> None] /\ dirs = [d \in Stream |-> None]
  /\ slots = {} /\ pc = "inherit" /\ opened = 0 /\ child = FALSE /\ rc = "ok"
-----------------------------------------------------------------------------
(* Loading, and reloading after fork. *)

inherit_descriptors ==
  /\ pc = "inherit" /\ pc' = "reserve"
  /\ fds' = [i \in Guest |-> IF kfd[i] # "free" THEN i ELSE None]
  /\ UNCHANGED << native, dirs, slots, opened, child, rc >>

\* Mutant: slots in use are taken over as well.
MutVacant == Guest
Vacant == {i \in Guest : kfd[i] = "free"}
Headroom == IF caller.hard - limit > MAX_FDS THEN MAX_FDS ELSE caller.hard - limit
FreeBelow(l) == {i \in Fd : i < l /\ kfd[i] = "free"}

\* Mutant: the lowest vacant slot is left alone.
MutReserve ==
  /\ pc = "reserve" /\ FreeBelow(limit + Headroom) # {} /\ Vacant \subseteq 0 .. limit + Headroom - 1
  /\ pc' = IF child THEN "destroy" ELSE "load"
  /\ limit' = limit + Headroom
  /\ slots' = {i \in Vacant : \E j \in Vacant : j < i}
  /\ kfd' = [i \in Fd |-> IF i \in slots' THEN "slot" ELSE kfd[i]]
  /\ cloexec' = cloexec \cup slots'
  /\ UNCHANGED << caller, locks, fds, dirs, opened, child, rc >>
\* reserve_descriptor_slots: one placeholder file, duplicated into every vacant slot.
\* A placeholder that itself falls above the range is closed again.
Reserve ==
  /\ pc = "reserve" /\ FreeBelow(limit + Headroom) # {} /\ Vacant \subseteq 0 .. limit + Headroom - 1
  /\ pc' = IF child THEN "destroy" ELSE "load"
  /\ limit' = limit + Headroom
  /\ slots' = Vacant
  /\ kfd' = [i \in Fd |-> IF i \in Vacant THEN "slot" ELSE kfd[i]]
  /\ cloexec' = cloexec \cup Vacant
  /\ UNCHANGED << caller, locks, fds, dirs, opened, child, rc >>
\* No room for the placeholders: they are released again and the process ends.
ReserveFails ==
  /\ pc = "reserve"
  /\ FreeBelow(limit + Headroom) = {} \/ ~(Vacant \subseteq 0 .. limit + Headroom - 1)
  /\ pc' = "exit"
  /\ UNCHANGED << native, fds, dirs, slots, opened, child, rc >>

\* restore_reserved_process first closes the references inherited from the parent.
Destroy ==
  /\ pc = "destroy" /\ pc' = "load" /\ opened' = 0
  /\ kfd' = [i \in Fd |-> IF kfd[i] = "own" THEN "free" ELSE kfd[i]]
  /\ cloexec' = {i \in cloexec : kfd[i] # "own"}
  /\ UNCHANGED << limit, caller, locks, fds, dirs, slots, child, rc >>

\* bash__open, bpf_capsule_configure and so on: Linux gives the lowest free number.
LoadOpen(i) ==
  /\ pc = "load" /\ opened < Own
  /\ i \in FreeBelow(limit) /\ \A j \in FreeBelow(limit) : i <= j
  /\ kfd' = [kfd EXCEPT ![i] = "own"] /\ opened' = opened + 1
  /\ UNCHANGED << cloexec, limit, caller, locks, fds, dirs, slots, pc, child, rc >>
LoadFails ==
  /\ pc = "load" /\ opened < Own /\ FreeBelow(limit) = {} /\ pc' = "exit"
  /\ UNCHANGED << native, fds, dirs, slots, opened, child, rc >>

\* Mutant: the raised limit is kept.
MutRelease ==
  /\ pc = "load" /\ opened = Own /\ pc' = "run" /\ rc' = "ok"
  /\ kfd' = [i \in Fd |-> IF i \in slots THEN "free" ELSE kfd[i]]
  /\ cloexec' = cloexec \ slots
  /\ slots' = {} /\ child' = FALSE
  /\ UNCHANGED << limit, caller, locks, fds, dirs, opened >>
\* release_descriptor_slots: only the placeholders are closed, and the limit restored.
Release ==
  /\ pc = "load" /\ opened = Own /\ pc' = "run" /\ rc' = "ok"
  /\ kfd' = [i \in Fd |-> IF i \in slots THEN "free" ELSE kfd[i]]
  /\ cloexec' = cloexec \ slots
  /\ limit' = caller.soft /\ slots' = {} /\ child' = FALSE
  /\ UNCHANGED << caller, locks, fds, dirs, opened >>

\* BR_FORK: the child has a copy of everything but the record locks.
ForkChild ==
  /\ pc = "run" /\ pc' = "reserve" /\ child' = TRUE /\ locks' = {}
  /\ UNCHANGED << kfd, cloexec, limit, caller, fds, dirs, slots, opened, rc >>
-----------------------------------------------------------------------------
(* Calls of the guest. *)

\* fd(): what the guest may name.
Valid(i) == pc = "run" /\ i \in Guest /\ fds[i] # None

\* Linux allocates the lowest free numbers from m on.
Allocated(R, m) ==
  LET free == {i \in FreeBelow(limit) : i >= m}
  IN  R \subseteq free /\ \A i \in R, j \in free \ R : i < j

Adoptable(R, m) == \A i \in R : i \in Guest /\ i >= m /\ fds[i] = None

\* Mutant: one of several descriptors stays open after a failure.
MutAdopt(R, f, ce, m) ==
  /\ IF Adoptable(R, m)
       THEN /\ fds' = [i \in Guest |-> IF i \in R THEN i ELSE fds[i]]
            /\ kfd' = [i \in Fd |-> IF i \in R THEN f ELSE kfd[i]]
            /\ cloexec' = IF ce THEN cloexec \cup R ELSE cloexec \ R
            /\ rc' = "ok" /\ UNCHANGED locks
       ELSE /\ kfd' = [i \in Fd |-> IF i \in R \cap Guest THEN f ELSE kfd[i]]
            /\ rc' = "EMFILE" /\ locks' = locks \ {f} /\ UNCHANGED << fds, cloexec >>
  /\ UNCHANGED << dirs, pc, loaderVars >>
\* save_fd and adopt_descriptor, for each of the descriptors R that Linux returned; when
\* one of them does not fit, all of them are closed again.
Adopt(R, f, ce, m) ==
  /\ IF Adoptable(R, m)
       THEN /\ fds' = [i \in Guest |-> IF i \in R THEN i ELSE fds[i]]
            /\ kfd' = [i \in Fd |-> IF i \in R THEN f ELSE kfd[i]]
            /\ cloexec' = IF ce THEN cloexec \cup R ELSE cloexec \ R
            /\ rc' = "ok" /\ UNCHANGED locks
       ELSE rc' = "EMFILE" /\ locks' = locks \ {f} /\ UNCHANGED << fds, kfd, cloexec >>
  /\ UNCHANGED << dirs, pc, loaderVars >>
\* Linux refuses, or the arguments are bad.
Refused ==
  rc' = "error" /\ UNCHANGED << native, fds, dirs, slots, pc, opened, child >>

\* BR_OPEN, PX_OPENAT, and the other calls that return one new descriptor.
Open(f, ce) ==
  /\ pc = "run"
  /\ \/ \E i \in FreeBelow(limit) : Allocated({i}, 0) /\ Adopt({i}, f, ce, 0)
     \/ Refused
\* BR_PIPE, PX_SOCKETPAIR.
Pipe ==
  /\ pc = "run"
  /\ \/ \E i, j \in FreeBelow(limit) :
          i # j /\ Allocated({i, j}, 0) /\ Adopt({i, j}, "pipe", FALSE, 0)
     \/ Refused
\* network_message, receiving: Linux installs as many of the rights as it has room for.
Receive(f) ==
  /\ pc = "run"
  /\ \/ \E R \in SUBSET FreeBelow(limit) :
          /\ Cardinality(R) <= MaxRights /\ Allocated(R, 0) /\ Adopt(R, f, FALSE, 0)
     \/ Refused
\* BF_DUPFD, BF_DUPFD_CLOEXEC.
DupFd(i, m, ce) ==
  /\ Valid(i)
  /\ \/ /\ m < MAX_FDS
        /\ \E j \in FreeBelow(limit) : Allocated({j}, m) /\ Adopt({j}, kfd[i], ce, m)
     \/ Refused

Close(i) ==
  /\ Valid(i) /\ rc' = "ok"
  /\ kfd' = [kfd EXCEPT ![i] = "free"] /\ cloexec' = cloexec \ {i}
  /\ locks' = locks \ {kfd[i]} /\ fds' = [fds EXCEPT ![i] = None]
  /\ UNCHANGED << dirs, pc, loaderVars >>

Dup2(i, j) ==
  \/ /\ Valid(i) /\ j \in Guest /\ i = j /\ rc' = "ok"
     /\ UNCHANGED << native, fds, dirs, slots, pc, opened, child >>
  \/ /\ Valid(i) /\ j \in Guest /\ i # j /\ j < limit /\ rc' = "ok"
     /\ kfd' = [kfd EXCEPT ![j] = kfd[i]] /\ cloexec' = cloexec \ {j}
     /\ locks' = locks \ {kfd[j]} /\ fds' = [fds EXCEPT ![j] = j]
     /\ UNCHANGED << dirs, pc, loaderVars >>
  \/ Valid(i) /\ (j \notin Guest \/ j >= limit) /\ Refused

SetCloexec(i, ce) ==
  /\ Valid(i) /\ rc' = "ok"
  /\ cloexec' = IF ce THEN cloexec \cup {i} ELSE cloexec \ {i}
  /\ UNCHANGED << kfd, locks, fds, dirs, pc, loaderVars >>
\* BF_SETLK, BF_SETLKW.
Lock(i) ==
  /\ Valid(i) /\ kfd[i] \in Files /\ rc' = "ok"
  /\ locks' = locks \cup {kfd[i]}
  /\ UNCHANGED << kfd, cloexec, fds, dirs, pc, loaderVars >>
Unlock(i) ==
  /\ Valid(i) /\ rc' = "ok"
  /\ locks' = locks \ {kfd[i]}
  /\ UNCHANGED << kfd, cloexec, fds, dirs, pc, loaderVars >>

\* BR_OPENDIR: a free stream first, then the directory, whose descriptor must fit.
OpenDir(d) ==
  /\ pc = "run" /\ dirs[d] = None /\ \A e \in Stream : dirs[e] = None => d <= e
  /\ \/ \E i \in FreeBelow(limit) :
          /\ Allocated({i}, 0)
          /\ IF i \in Guest
               THEN /\ dirs' = [dirs EXCEPT ![d] = i] /\ fds' = [fds EXCEPT ![i] = i]
                    /\ kfd' = [kfd EXCEPT ![i] = "dir"] /\ cloexec' = cloexec \cup {i}
                    /\ rc' = "ok"
               ELSE rc' = "EMFILE" /\ UNCHANGED << dirs, fds, kfd, cloexec >>
          /\ UNCHANGED << locks, pc, loaderVars >>
     \/ Refused
\* PX_FDOPENDIR.
FdOpenDir(i, d) ==
  /\ Valid(i) /\ dirs[d] = None /\ \A e \in Stream : dirs[e] = None => d <= e
  /\ \/ /\ kfd[i] = "dir" /\ dirs' = [dirs EXCEPT ![d] = i] /\ rc' = "ok"
        /\ UNCHANGED << native, fds, slots, pc, opened, child >>
     \/ Refused
\* Both, when no stream is free.
NoStream ==
  /\ pc = "run" /\ \A d \in Stream : dirs[d] # None
  /\ rc' = "EMFILE" /\ UNCHANGED << native, fds, dirs, slots, pc, opened, child >>

\* BR_CLOSEDIR closes whatever the stream's number refers to now; the guest may have
\* closed or replaced it, which makes closedir fail.
CloseDir(d) ==
  /\ pc = "run" /\ dirs[d] # None /\ dirs' = [dirs EXCEPT ![d] = None]
  /\ fds' = [fds EXCEPT ![dirs[d]] = None]
  /\ kfd' = [kfd EXCEPT ![dirs[d]] = "free"] /\ cloexec' = cloexec \ {dirs[d]}
  /\ locks' = locks \ {kfd[dirs[d]]}
  /\ rc' = IF kfd[dirs[d]] = "free" THEN "error" ELSE "ok"
  /\ UNCHANGED << pc, loaderVars >>
-----------------------------------------------------------------------------
(* exec and exit. *)

\* Mutant: only the guest's range is prepared.
MutPrivate == {}
\* close_range(MAX_FDS, ~0, CLOSE_RANGE_CLOEXEC).
Private == {i \in Fd : i >= MAX_FDS /\ kfd[i] # "free"}
Displaced == \E i \in Guest : fds[i] # None /\ fds[i] # i

\* service_exec returns only when it fails; the loader's descriptors stay open.
ExecFails ==
  /\ pc = "run" /\ rc' = IF Displaced THEN "EIO" ELSE "error"
  /\ cloexec' = IF Displaced THEN cloexec ELSE cloexec \cup Private
  /\ UNCHANGED << kfd, locks, fds, dirs, pc, loaderVars >>
\* The new program has what was not close-on-exec.
ExecSucceeds ==
  /\ pc = "run" /\ ~Displaced /\ pc' = "exec" /\ cloexec' = {}
  /\ LET closed == cloexec \cup Private
     IN  /\ kfd' = [i \in Fd |-> IF i \in closed THEN "free" ELSE kfd[i]]
         /\ locks' = locks \ {kfd[i] : i \in closed}
  /\ UNCHANGED << limit, caller, fds, dirs, slots, opened, child, rc >>
Exit ==
  /\ pc = "run" /\ pc' = "exit"
  /\ UNCHANGED << native, fds, dirs, slots, opened, child, rc >>
Ended == pc \in {"exec", "exit"} /\ UNCHANGED vars

Loading == \/ inherit_descriptors \/ Reserve \/ ReserveFails \/ Destroy \/ LoadFails \/ Release
           \/ \E i \in Fd : LoadOpen(i)
Creating == \/ \E f \in Files, ce \in BOOLEAN : Open(f, ce)
            \/ Pipe
            \/ \E f \in Files : Receive(f)
            \/ \E i \in Guest, m \in Guest, ce \in BOOLEAN : DupFd(i, m, ce)
Changing == \/ \E i \in Guest : Close(i) \/ Lock(i) \/ Unlock(i)
            \/ \E i \in Guest, j \in Fd : Dup2(i, j)
            \/ \E i \in Guest, ce \in BOOLEAN : SetCloexec(i, ce)
Streams == \/ \E d \in Stream : OpenDir(d) \/ CloseDir(d)
           \/ \E i \in Guest, d \in Stream : FdOpenDir(i, d)
           \/ NoStream
Leaving == ForkChild \/ ExecFails \/ ExecSucceeds \/ Exit

Next == Loading \/ Creating \/ Changing \/ Streams \/ Leaving \/ Ended
Spec == Init /\ [][Next]_vars
-----------------------------------------------------------------------------
(* Properties. *)

NativeType ==
  /\ kfd \in [Fd -> Inode] /\ cloexec \subseteq Fd /\ locks \subseteq Files
  /\ limit \in 0 .. TOP /\ caller \in Limits
TableType == fds \in [Guest -> Guest \cup {None}] /\ dirs \in [Stream -> Guest \cup {None}]
LoaderType ==
  /\ slots \subseteq Guest /\ opened \in 0 .. Own /\ child \in BOOLEAN
  /\ pc \in {"inherit", "reserve", "destroy", "load", "run", "exec", "exit"}
  /\ rc \in {"ok", "error", "EMFILE", "EIO"}

\* Type correctness; an entry of the table, and a stream's number, is in the guest's range.
TypeOK == NativeType /\ TableType /\ LoaderType

\* "Guest descriptors keep their native numbers": an entry of the table is its own
\* index, so service_exec never refuses for a displaced descriptor.
NativeNumbers == (\A i \in Guest : fds[i] \in {None, i}) /\ rc # "EIO"

\* While the guest runs, the table says exactly which numbers of its range are open,
\* and none of them is the loader's: no descriptor leaks, goes stale or is shared.
TableExact ==
  pc = "run" => \A i \in Guest : /\ fds[i] # None <=> kfd[i] # "free"
                                 /\ kfd[i] \notin {"slot", "own"}

\* "restore the original soft limit": the guest never runs with the loader's headroom.
LimitRestored == pc = "run" => limit = caller.soft

\* The table of the guest is well typed, native and exact, whatever calls were made, at
\* whatever limits, and whichever of them failed; and the limit is the caller's again.
TableCorrect == TypeOK /\ NativeNumbers /\ TableExact /\ LimitRestored

\* Loading and reloading do not touch a guest descriptor or a record lock: the number
\* and file of everything the guest has are the same after as before.
LoadingUntouched ==
  [][pc # "run" => /\ \A i \in Guest : fds'[i] # None => kfd'[i] = kfd[i]
                   /\ locks' = locks]_vars

\* A call that fails leaves no trace in the table or in Linux: neither a descriptor of
\* a pair or of several rights, nor a closed one.
FailureLeavesTable ==
  [][pc = "run" /\ pc' = "run" /\ rc' \in {"EMFILE", "EIO"}
     => UNCHANGED << kfd, fds, dirs, limit >>]_vars

\* Neither the loader's own business nor a call that fails disturbs a descriptor.
NothingDisturbed == LoadingUntouched /\ FailureLeavesTable

\* "private loader descriptors close on successful exec", and the guest's survive under
\* their numbers unless they are close-on-exec.
ExecHandsOver ==
  [][pc' = "exec" /\ pc # "exec"
     => \A i \in Fd : kfd'[i] = IF i \in Guest /\ fds[i] # None /\ i \notin cloexec
                                THEN kfd[i] ELSE "free"]_vars
=============================================================================
