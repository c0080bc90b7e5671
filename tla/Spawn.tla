------------------------------- MODULE Spawn -------------------------------
(***************************************************************************)
(* posix_spawn of the guest's C library (spawn_guest.c) over the loader's  *)
(* fork_process (process_host.h) and service_exec (exec_host.h): one call  *)
(* in a parent, the child it makes, and the close-on-exec pipe over which  *)
(* the child reports what kept it from running the program.                *)
(*                                                                         *)
(* A descriptor is a file and its FD_CLOEXEC flag.  Descriptors below LOW  *)
(* are the program's, LOW .. MAX_FDS - 1 those among which the report      *)
(* descriptor is looked for (128 and 256 in the code).  The native fork    *)
(* shares the parent's arena with the child until the child lets it go.    *)
(***************************************************************************)
EXTENDS ProcessCopy, Integers, SequencesExt

CONSTANTS LOW, MAX_FDS,
          Tables,       \* the parent's descriptors at the call, see Table
          Actions,      \* file actions the program tries to add, see Action
          MaxActions,
          AttributeSets \* the sets of attributes the program may ask for

Fd == 0 .. MAX_FDS - 1
None == [file |-> "none", cloexec |-> FALSE]   \* not open
File == {"a", "b", "new"}
PipeEnd == {"rd", "wr"}
Open == [file : File \cup PipeEnd, cloexec : BOOLEAN]
Table == [Fd -> Open \cup {None}]
Action == [type : {"dup2", "open", "close", "closefrom"}, fd : Int, other : Int]
Attribute == {"setsid", "setpgroup", "resetids", "sigdef", "sigmask"}

ASSUME SpawnAssumption ==
  /\ MAX_FDS \in Nat /\ LOW \in Nat /\ LOW < MAX_FDS /\ MaxActions \in Nat
  /\ \A t \in Tables : t \in Table /\ \A i \in Fd : t[i] # None => t[i].file \in File
  /\ \A a \in Actions : a \in Action
  /\ \A s \in AttributeSets : s \subseteq Attribute

VARIABLES
  ppc,        \* parent: "build", "pipe", "dup", "fork", "close", "read", "closed", "wait", "returned"
  pfd,        \* its descriptors
  before,     \* history: its descriptors at the call
  pair, report,
  n, error, result,
  actions, attributes,
  \* the child: "none", while it is rebuilt "reserve", "release", "load", "copy", "maps"; then
  \* "start", "attributes", "actions", "exec", "failed", "exit"; "program", "zombie", "reaped"
  cpc,
  cfd, todo, applied, cerror,
  fate,       \* history: how the child ended: "none", "failed", "norestore" or "killed"
  pipe,       \* what has been written to the pipe and not read
  \* the two Capsules
  arena,      \* the memory of each
  view,       \* whose arena each process has mapped
  wrote,      \* history: the memory each process's guest code believes in
  pool, snapshot

parentVars == << ppc, pfd, before, pair, report, n, error, result >>
childVars == << cpc, cfd, todo, applied, cerror, fate >>
copyVars == << arena, view, wrote, pool, snapshot >>
callVars == << actions, attributes >>
parentRest == << callVars, childVars, pipe, copyVars >>
rebuildRest == << parentVars, callVars, cfd, todo, applied, cerror, pipe >>
childRest == << parentVars, callVars, pipe, copyVars >>
vars == << parentVars, callVars, childVars, pipe, copyVars >>

Process == {"parent", "child"}
Closed(t, i) == [t EXCEPT ![i] = None]
Opened(t, i, f, c) == [t EXCEPT ![i] = [file |-> f, cloexec |-> c]]
Free(t, from) == {i \in Fd : i >= from /\ t[i] = None}
Lowest(s) == CHOOSE i \in s : \A j \in s : i <= j
Holds(t, f) == \E i \in Fd : t[i] # None /\ t[i].file = f
\* Somebody can still write to the pipe.
Writers == Holds(pfd, "wr") \/ (cpc \notin {"none", "zombie", "reaped"} /\ Holds(cfd, "wr"))

Init ==
  /\ ppc = "build" /\ pfd \in Tables /\ before = pfd /\ pair = << >> /\ report = -1
  /\ n = 0 /\ error = "none" /\ result = "none"
  /\ actions = << >> /\ attributes \in AttributeSets
  /\ cpc = "none" /\ cfd = [i \in Fd |-> None] /\ todo = << >> /\ applied = {}
  /\ cerror = "none" /\ fate = "none" /\ pipe = << >>
  /\ arena = [p \in Process |-> 0] /\ wrote = [p \in Process |-> 0]
  /\ view = [p \in Process |-> IF p = "parent" THEN p ELSE "none"]
  /\ \E f \in Fiber : pool = [p \in Process |-> IF p = "parent" THEN StartedPool(f) ELSE FreshPool]
  /\ snapshot = Saved(0, FreshPool)
-----------------------------------------------------------------------------
(* Guest code between the calls: memory is written, the loader allocates.  *)

InGuest(p) ==
  IF p = "parent" THEN ppc # "returned"
  ELSE cpc \in {"start", "attributes", "actions", "exec", "failed", "exit"}

Write(p) ==
  /\ InGuest(p) /\ wrote' = [wrote EXCEPT ![p] = 1 - wrote[p]]
  /\ arena' = [arena EXCEPT ![view[p]] = wrote'[p]]
  /\ UNCHANGED << parentVars, callVars, childVars, pipe, view, pool, snapshot >>

\* A request such as getaddrinfo, whose answer is allocated in the guest's heap.
Allocate(p) ==
  /\ InGuest(p) /\ CanAllocate(pool[p]) /\ pool' = [pool EXCEPT ![p] = Allocated(pool[p])]
  /\ UNCHANGED << parentVars, callVars, childVars, pipe, arena, view, wrote, snapshot >>
-----------------------------------------------------------------------------
(* The parent. *)

InRange(i) == i >= 0 /\ i < MAX_FDS
\* posix_spawn_file_actions_add*: queued, or refused with EBADF and the list left alone.
AddAction(a) ==
  /\ ppc = "build" /\ Len(actions) < MaxActions
  /\ actions' = IF InRange(a.fd) /\ (a.type = "dup2" => InRange(a.other))
                THEN Append(actions, a) ELSE actions
  /\ UNCHANGED << parentVars, attributes, childVars, pipe, copyVars >>

Return(r, t) ==
  /\ ppc' = "returned" /\ result' = r /\ pfd' = t

CallSpawn ==
  /\ ppc = "build" /\ ppc' = "pipe"
  /\ UNCHANGED << pfd, before, pair, report, n, error, result,
                  parentRest >>

Pipe ==
  /\ ppc = "pipe"
  /\ LET r == Lowest(Free(pfd, 0))
         w == Lowest(Free(pfd, 0) \ {r})
     IN IF Cardinality(Free(pfd, 0)) < 2
          THEN Return("EMFILE", pfd) /\ UNCHANGED pair
          ELSE /\ ppc' = "dup" /\ pair' = << r, w >>
               /\ pfd' = Opened(Opened(pfd, r, "rd", FALSE), w, "wr", FALSE) /\ UNCHANGED result
  /\ UNCHANGED << before, report, n, error, parentRest >>

\* fcntl(pair[1], F_DUPFD_CLOEXEC, 128), and the number pipe gave is closed.
DupReport ==
  /\ ppc = "dup"
  /\ IF Free(pfd, LOW) = {}
       THEN Return("EMFILE", Closed(Closed(pfd, pair[2]), pair[1])) /\ UNCHANGED report
       ELSE /\ ppc' = "fork" /\ report' = Lowest(Free(pfd, LOW))
            /\ pfd' = Closed(Opened(pfd, report', "wr", TRUE), pair[2]) /\ UNCHANGED result
  /\ UNCHANGED << before, pair, n, error, parentRest >>

\* fork_process refuses (no memory, a busy fiber), or Linux does.
ForkFails ==
  /\ ppc = "fork"
  /\ \E e \in IF SaveError(pool["parent"]) = "none" THEN {"ENOMEM", "EAGAIN"}
              ELSE {SaveError(pool["parent"])} :
       Return(e, Closed(Closed(pfd, pair[1]), report))
  /\ UNCHANGED << before, pair, report, n, error, parentRest >>
\* The child has copies of the descriptors and, so far, the parent's arena.
Fork ==
  /\ ppc = "fork" /\ SaveError(pool["parent"]) = "none"
  /\ snapshot' = Saved(arena[view["parent"]], pool["parent"])
  /\ ppc' = "close" /\ cpc' = "reserve" /\ cfd' = pfd
  /\ view' = [view EXCEPT !["child"] = view["parent"]]
  /\ wrote' = [wrote EXCEPT !["child"] = wrote["parent"]]
  /\ UNCHANGED << pfd, before, pair, report, n, error, result, callVars,
                  todo, applied, cerror, fate, pipe, arena, pool >>

\* Mutant: the parent keeps its write end.
MutCloseReport ==
  /\ ppc = "close" /\ ppc' = "read" /\ UNCHANGED pfd
  /\ UNCHANGED << before, pair, report, n, error, result, parentRest >>
CloseReport ==
  /\ ppc = "close" /\ ppc' = "read" /\ pfd' = Closed(pfd, report)
  /\ UNCHANGED << before, pair, report, n, error, result, parentRest >>

\* read, again after EINTR, until there is a report or every write end is closed.  Linux
\* fails a read of a pipe with nothing else.
Read ==
  /\ ppc = "read" /\ (pipe # << >> \/ ~Writers) /\ ppc' = "closed"
  /\ IF pipe # << >> THEN n' = 1 /\ error' = Head(pipe) /\ pipe' = << >>
     ELSE n' = 0 /\ UNCHANGED << error, pipe >>
  /\ UNCHANGED << pfd, before, pair, report, result, callVars, childVars, copyVars >>

\* close(pair[0]); success is what an empty pipe means.
ReadDone ==
  /\ ppc = "closed"
  /\ IF n > 0 THEN ppc' = "wait" /\ pfd' = Closed(pfd, pair[1]) /\ UNCHANGED result
     ELSE Return("ok", Closed(pfd, pair[1]))
  /\ UNCHANGED << before, pair, report, n, error, parentRest >>

WaitChild ==
  /\ ppc = "wait" /\ cpc = "zombie" /\ cpc' = "reaped" /\ ppc' = "returned" /\ result' = error
  /\ UNCHANGED << pfd, before, pair, report, n, error, callVars,
                  cfd, todo, applied, cerror, fate, pipe, copyVars >>

Parent == Pipe \/ DupReport \/ ForkFails \/ Fork \/ CloseReport \/ Read \/ ReadDone \/ WaitChild
-----------------------------------------------------------------------------
(* The child's loader rebuilds the Capsule: restore_process.               *)

\* Any of these steps may fail: the loader writes a message and calls _exit(125).
Rebuilding == cpc \in {"reserve", "load", "copy", "maps", "fibers"}
RestoreFails ==
  /\ Rebuilding /\ cpc' = "zombie" /\ fate' = "norestore"
  /\ UNCHANGED << rebuildRest, copyVars >>

ReserveSlots ==
  /\ cpc = "reserve" /\ cpc' = "release"
  /\ UNCHANGED << rebuildRest, fate, copyVars >>
\* Mutant: the parent's arena stays mapped.
MutRelease == UNCHANGED view
\* bpf_capsule_release, bash__destroy.
Release == view' = [view EXCEPT !["child"] = "none"]
ReleaseCapsule ==
  /\ cpc = "release" /\ Release /\ cpc' = "load"
  /\ UNCHANGED << rebuildRest, fate, arena, wrote, pool, snapshot >>
\* A new object at the same address, if nothing else is mapped there.
LoadCapsule ==
  /\ cpc = "load" /\ cpc' = "copy"
  /\ view' = [view EXCEPT !["child"] = IF view["child"] = "none" THEN "child" ELSE view["child"]]
  /\ pool' = [pool EXCEPT !["child"] = FreshPool]
  /\ UNCHANGED << rebuildRest, fate, arena, wrote, snapshot >>
Copied == snapshot.memory
CopyMemory ==
  /\ cpc = "copy" /\ cpc' = "maps" /\ arena' = [arena EXCEPT ![view["child"]] = Copied]
  /\ UNCHANGED << rebuildRest, fate, view, wrote, pool, snapshot >>
CopyMaps ==
  /\ cpc = "maps" /\ cpc' = "fibers"
  /\ pool' = [pool EXCEPT !["child"] = WithToken(pool["child"], snapshot)]
  /\ UNCHANGED << rebuildRest, fate, arena, view, wrote, snapshot >>
\* The fibers; then fork returns 0 in the guest.
CopyFibers ==
  /\ cpc = "fibers" /\ cpc' = "start"
  /\ pool' = [pool EXCEPT !["child"] = WithFibers(pool["child"], snapshot)]
  /\ UNCHANGED << rebuildRest, fate, arena, view, wrote, snapshot >>

Rebuild == \/ RestoreFails \/ ReserveSlots \/ ReleaseCapsule \/ LoadCapsule \/ CopyMemory
           \/ CopyMaps \/ CopyFibers
-----------------------------------------------------------------------------
(* The child's guest code, up to the program.                              *)

ChildStart ==
  /\ cpc = "start" /\ cpc' = "attributes" /\ cfd' = Closed(cfd, pair[1]) /\ todo' = actions
  /\ UNCHANGED << applied, cerror, fate, childRest >>

Fail(e) == cpc' = "failed" /\ cerror' = e /\ fate' = "failed"

AttributeOrder == << "setsid", "setpgroup", "resetids", "sigdef", "sigmask" >>
Before(x, y) == \E i, j \in 1 .. 5 : i < j /\ AttributeOrder[i] = x /\ AttributeOrder[j] = y
Wanted == attributes \ applied
\* setsid, setpgid, setgid and setuid, signal, sigprocmask: in this order, if asked for.
ApplyAttribute(x) ==
  /\ cpc = "attributes" /\ x \in Wanted
  /\ \A y \in Wanted : ~Before(y, x)
  /\ \/ applied' = applied \cup {x} /\ UNCHANGED << cpc, cerror, fate >>
     \/ Fail("EPERM") /\ UNCHANGED applied
  /\ UNCHANGED << cfd, todo, childRest >>
AttributesDone ==
  /\ cpc = "attributes" /\ applied = attributes /\ cpc' = "actions"
  /\ UNCHANGED << cfd, todo, applied, cerror, fate, childRest >>

\* Mutant: only the target of dup2 is protected.
MutTouchesReport(a) == a.type = "dup2" /\ a.other = report
TouchesReport(a) == a.fd = report \/ (a.type = "dup2" /\ a.other = report)

Dup2Result(a) == Opened(cfd, a.other, cfd[a.fd].file, FALSE)
\* Mutant: the descriptor open returned stays open beside the copy.
MutOpenResult(a) == Opened(Opened(cfd, Lowest(Free(cfd, 0)), "new", FALSE), a.fd, "new", FALSE)
\* open returns the lowest free number; it is moved to the one asked for.
OpenResult(a) ==
  LET f == Lowest(Free(cfd, 0))
  IN IF f = a.fd THEN Opened(cfd, f, "new", FALSE)
     ELSE Closed(Opened(Opened(cfd, f, "new", FALSE), a.fd, "new", FALSE), f)
CloseFromResult(a) == [i \in Fd |-> IF i >= a.fd /\ i # report THEN None ELSE cfd[i]]

NextAction ==
  /\ cpc = "actions" /\ todo # << >> /\ todo' = Tail(todo)
  /\ LET a == Head(todo)
         done(t) == cfd' = t /\ UNCHANGED << cpc, cerror, fate >>
         failed(e) == Fail(e) /\ UNCHANGED cfd
     IN IF TouchesReport(a) THEN failed("ENOTSUP")
        ELSE \/ a.type = "dup2" /\ cfd[a.fd] = None /\ failed("EBADF")
             \/ a.type = "dup2" /\ cfd[a.fd] # None /\ done(Dup2Result(a))
             \/ a.type = "open" /\ failed(IF Free(cfd, 0) = {} THEN "EMFILE" ELSE "ENOENT")
             \/ a.type = "open" /\ Free(cfd, 0) # {} /\ done(OpenResult(a))
             \/ a.type = "close" /\ done(Closed(cfd, a.fd))
             \/ a.type = "closefrom" /\ done(CloseFromResult(a))
  /\ UNCHANGED << applied, childRest >>
ActionsDone ==
  /\ cpc = "actions" /\ todo = << >> /\ cpc' = "exec"
  /\ UNCHANGED << cfd, todo, applied, cerror, fate, childRest >>

\* service_exec: close-on-exec descriptors go; after a failure everything is as before.
Exec ==
  /\ cpc = "exec"
  /\ \/ /\ cpc' = "program" /\ UNCHANGED << cerror, fate >>
        /\ cfd' = [i \in Fd |-> IF cfd[i] # None /\ cfd[i].cloexec THEN None ELSE cfd[i]]
     \/ Fail("ENOEXEC") /\ UNCHANGED cfd
  /\ UNCHANGED << todo, applied, childRest >>

\* write(report, &error, sizeof(error)), which fails if the descriptor is gone.
ChildReport ==
  /\ cpc = "failed" /\ cpc' = "exit"
  /\ pipe' = IF cfd[report] # None /\ cfd[report].file = "wr" THEN << cerror >> ELSE pipe
  /\ UNCHANGED << cfd, todo, applied, cerror, fate, parentVars, callVars, copyVars >>
\* _exit(127).
ChildExit ==
  /\ cpc = "exit" /\ cpc' = "zombie"
  /\ UNCHANGED << cfd, todo, applied, cerror, fate, childRest >>
\* The program's own end.
ProgramEnds ==
  /\ cpc = "program" /\ cpc' = "zombie"
  /\ UNCHANGED << cfd, todo, applied, cerror, fate, childRest >>

Child == \/ ChildStart \/ (\E x \in Attribute : ApplyAttribute(x)) \/ AttributesDone
         \/ NextAction \/ ActionsDone \/ Exec \/ ChildReport \/ ChildExit

\* A signal ends the child.
Kill ==
  /\ cpc \notin {"none", "zombie", "reaped", "program"}
  /\ cpc' = "zombie" /\ fate' = IF cpc = "exit" THEN fate ELSE "killed"
  /\ UNCHANGED << cfd, todo, applied, cerror, childRest >>

Returned == ppc = "returned" /\ cpc \in {"none", "zombie", "reaped"} /\ UNCHANGED vars

Next == \/ \E p \in Process : Write(p) \/ Allocate(p)
        \/ (\E a \in Actions : AddAction(a)) \/ CallSpawn \/ Parent \/ Rebuild \/ Child \/ ProgramEnds \/ Kill
        \/ Returned

\* Linux schedules both processes; nothing is assumed of the program or of signals.
Fairness == WF_vars(Parent) /\ WF_vars(Rebuild \/ Child)

Spec == Init /\ [][Next]_vars
FairSpec == Spec /\ Fairness
-----------------------------------------------------------------------------
(* Properties. *)

\* Type correctness.
TypeOK ==
  /\ ppc \in {"build", "pipe", "dup", "fork", "close", "read", "closed", "wait", "returned"}
  /\ pfd \in Table /\ before \in Table /\ report \in Fd \cup {-1} /\ n \in {0, 1}
  /\ cpc \in {"none", "reserve", "release", "load", "copy", "maps", "fibers", "start", "attributes",
              "actions", "exec", "failed", "exit", "program", "zombie", "reaped"}
  /\ cfd \in Table /\ applied \subseteq attributes
  /\ fate \in {"none", "failed", "norestore", "killed"} /\ Len(pipe) <= 1
  /\ view \in [Process -> Process \cup {"none"}] /\ arena \in [Process -> {0, 1}]
  /\ pool \in [Process -> Pool]

\* "Failed exec is reported over a close-on-exec pipe": posix_spawn returns 0 only if the
\* child has not failed in any of its steps (one that is killed, or whose Capsule cannot be
\* rebuilt, has nothing to report), and an error it returns is the child's.
FailureReported ==
  ppc = "returned" => IF result = "ok" THEN fate # "failed"
                      ELSE cpc = "none" \/ (fate = "failed" /\ result = cerror)

\* A child that did not become the program is reaped by posix_spawn, not left to the caller.
FailedChildReaped == ppc = "returned" /\ result # "ok" => cpc \in {"none", "reaped"}

\* What posix_spawn returns is what became of the child.
ResultTrue == TypeOK /\ FailureReported /\ FailedChildReaped

\* Whatever failed, the caller's descriptors are what they were at the call.
DescriptorsRestored == ppc = "returned" => pfd = before

\* POSIX: the file actions take effect in the order they were added.
Effect(t, a) ==
  CASE a.type = "dup2" -> Opened(t, a.other, t[a.fd].file, FALSE)
    [] a.type = "open" -> Opened(t, a.fd, "new", FALSE)
    [] a.type = "close" -> Closed(t, a.fd)
    [] a.type = "closefrom" -> [i \in Fd |-> IF i >= a.fd THEN None ELSE t[i]]
Expected ==
  LET t == FoldLeft(Effect, before, actions)
  IN [i \in Fd |-> IF t[i] # None /\ t[i].cloexec THEN None ELSE t[i]]
\* The program starts with the caller's descriptors as changed by the file actions, without
\* those that close on exec and without a trace of the pipe, and with every attribute set.
ProgramAsAsked == cpc = "program" => cfd = Expected /\ applied = attributes

\* "Independent Capsule snapshots": the guest code of either process finds the memory it
\* wrote itself, or the parent had at the fork, whatever the other does meanwhile.
MemoryIsOwn == \A p \in Process : InGuest(p) => arena[view[p]] = wrote[p]

\* A running process can allocate and can fork, after any sequence of allocations and in
\* the child as in the parent, whichever fiber runs Bash.
PoolUsable == \A p \in Process : InGuest(p) => CanAllocate(pool[p]) /\ SaveError(pool[p]) = "none"

\* Parent and child are two whole processes, each with its own memory and a pool it
\* can go on with, from the moment either runs guest code.
TwoProcesses == MemoryIsOwn /\ PoolUsable

\* posix_spawn returns: the parent never waits for a report that nobody can send.
SpawnReturns == ppc = "pipe" ~> ppc = "returned"
=============================================================================
