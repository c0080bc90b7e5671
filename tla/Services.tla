------------------------------ MODULE Services ------------------------------
(***************************************************************************)
(* A request from the guest's C library to Linux and back (bridge_guest.c, *)
(* host.c).  The guest writes one shared mailbox, yields to the loader,    *)
(* and finds the answer in the mailbox when it runs again; then it polls   *)
(* for signals, and the handlers that run make requests of their own       *)
(* through the same mailbox before the first call has returned.            *)
(*                                                                         *)
(* The loader also keeps the process's ids in the mailbox, copies lists of *)
(* addresses into the guest's heap, and gives up after a number of         *)
(* invocations.                                                            *)
(***************************************************************************)
EXTENDS Requests

CONSTANTS Interrupted,    \* bound on the calls during which signals arrive
          HandlerCalls,   \* what a signal handler asks for
          MaxDepth,       \* how deep handlers nest
          Limits,         \* the values of LINUX_BASH_MAX_STEPS, 0 for none
          MAX_DIRS,
          AddressLists,   \* what getaddrinfo finds: for each entry, its parts
          Interfaces      \* what getifaddrs finds

\* Errors of Linux: one that has a number on the bridge and one that has not.
Native == {"ELISTED", "EOTHER"}
Unlisted == {"EOTHER"}

ASSUME ServicesAssumption ==
  /\ HandlerCalls \cup Interrupted \subseteq Operations /\ "none" \notin Operations
  /\ MaxDepth \in Nat \ {0}
  /\ Limits \subseteq Nat /\ MAX_DIRS \in Nat

VARIABLES
  control,   \* the mailbox: operation, args, response, error
  stack,     \* the calls of the guest's library that have not returned
  errno,     \* the guest's
  last,      \* of the call that returned last: what it returned, and its answer
  called,    \* what Linux was asked to do for the request just answered
  ids,       \* user and group of the process, as Linux has them
  cached,    \* and as the mailbox has them
  renamed,    \* has it entered a user namespace, which renames its ids?
  heap,      \* blocks of the guest's heap the requests have allocated
  list,      \* the list of addresses the program holds
  dirs,      \* DIR objects the program holds
  streams,   \* directory streams the loader has open
  limit, calls,
  status     \* the exit status of the loader, Running before

svcVars == << control, stack, errno, last, called, ids, cached, renamed, heap, list, dirs, streams,
              limit, calls, status >>

Running == -1
NONE == "none"
NoResponse == [to |-> 0, value |-> NONE]
Request(op, args) == [operation |-> op, args |-> args, response |-> NoResponse, error |-> OK]
None == Request(NONE, << >>)
Nothing == [op |-> NONE]

SvcInit ==
  /\ control = None /\ stack = << >> /\ errno = "before" /\ last = Nothing /\ called = Nothing
  /\ ids = [user |-> "root", group |-> "root"] /\ cached = ids /\ renamed = FALSE
  /\ heap = {} /\ list = << >> /\ dirs = 0 /\ streams = 0
  /\ limit \in Limits /\ calls = 0 /\ status = Running

\* A call in progress, for the program or for a function of the library: what it
\* asked for, what the loader answered, and what it has copied of the answer.
Frame(op, for, state, response, error, truth) ==
  [op |-> op, for |-> for, state |-> state, response |-> response, error |-> error, truth |-> truth]
Asked(op, for) == Frame(op, for, "asked", NoResponse, OK, Nothing)
Top == stack[Len(stack)]
Guest == << control, stack, errno, last >>
Kept == << heap, list, dirs, streams >>
-----------------------------------------------------------------------------
(* The guest's side of a call (bridge). *)

\* Every operation is tried with every kind of argument as the program's first
\* call; those whose answer depends on more than their arguments are tried again
\* in every state, with arguments that are in order.
Stateful == {"SETUID", "SETGID", "SETRESUID", "SETRESGID", "UNSHARE", "SETNS", "FORK", "SYS_clone",
             "GETADDRINFO", "GETIFADDRS", "OPENDIR", "FDOPENDIR", "READDIR", "CLOSEDIR",
             "GETCWD", "REALPATH", "EPOLL_WAIT"}
Usual == [op \in Stateful \cup HandlerCalls |-> CHOOSE args \in Arguments(op) : ~Outcome(op, args).refused]
AtStart == control = None /\ last = Nothing /\ heap = {} /\ dirs = 0 /\ limit = 0 /\ stack = << >>
Candidates == IF AtStart THEN Operations ELSE IF stack = << >> THEN Stateful ELSE HandlerCalls
Choices(op) == IF AtStart THEN Arguments(op) ELSE {Usual[op]}

\* The library runs, in the program or in a handler that the poll at the end of
\* a call has started.
Asks ==
  /\ status = Running /\ control.operation = NONE
  /\ stack # << >> => /\ Top.state = "answered" /\ Len(stack) < MaxDepth
                      /\ Top.op \in Interrupted \ {"SIGACTION", "SIGMASK"}

\* Which allocation of its own a function of the library makes: a result it
\* hands out, one for the duration of the call, or one once it has succeeded.
Allocates(op) ==
  CASE op \in {"GETCWD", "REALPATH"} -> "result"
    [] op = "EPOLL_WAIT" -> "scratch"
    [] op \in {"OPENDIR", "FDOPENDIR"} -> "after"
    [] OTHER -> "nothing"
Buffer(op) == IF Allocates(op) \in {"result", "scratch"} THEN {<< 0, op >>} ELSE {}

\* The program keeps one thing at a time, and passes only a directory it holds.
Sensible(op, args) ==
  /\ Buffer(op) # {} \/ op \in {"GETADDRINFO", "GETIFADDRS"} => heap = {}
  /\ \A i \in DOMAIN args : Kinds(op)[i] = "dir" => args[i] /\ dirs > 0

Call(op, args) ==
  /\ Sensible(op, args)
  /\ control' = Request(op, args)   \* no old answer is read
  /\ stack' = Append(stack, Asked(op, "program"))
  /\ heap' = heap \cup Buffer(op)
  /\ errno' = IF stack = << >> THEN "before" ELSE errno
  /\ called' = Nothing /\ last' = Nothing
  /\ UNCHANGED << ids, cached, renamed, list, dirs, streams, limit, calls, status >>

\* A function that cannot allocate its buffer asks for nothing.
CallWithoutMemory(op) ==
  /\ Asks /\ op \in Candidates /\ Buffer(op) # {}
  /\ errno' = "ENOMEM" /\ last' = Nothing /\ called' = Nothing
  /\ UNCHANGED << control, stack, ids, cached, renamed, Kept, limit, calls, status >>
-----------------------------------------------------------------------------
(* The loader's side: one turn of the loop in main. *)

\* bridge_error, and guest_error for its result.
bridge_error(e) == IF e \in Unlisted THEN "EIO" ELSE e

\* Mutant: the group is forgotten.
MutChangesCredentials(op) == op \in {"SETUID", "SETRESUID"}
changes_credentials(op) == op \in {"SETUID", "SETGID", "SETRESUID", "SETRESGID"}
\* namespace_clone_request finds a clone that is like a fork.
Forks(op, args) == op = "FORK" \/ (op = "SYS_clone" /\ args[1])

\* An invocation is over: the loop goes on, or the budget is spent.
Counted ==
  /\ calls' = IF limit = 0 THEN 0 ELSE calls + 1
  /\ status' = IF limit # 0 /\ calls + 1 = limit THEN 124 ELSE Running

\* The answer goes to the mailbox and the ids are read again after a call that
\* may have changed them.
Answer(value, error) ==
  LET response == [to |-> Len(stack), value |-> value]
  IN  /\ control' = [operation |-> NONE, args |-> << >>, response |-> response,
                     error |-> bridge_error(error)]
      /\ stack' = [stack EXCEPT ![Len(stack)] =
                      Frame(Top.op, Top.for, Top.state, Top.response, Top.error,
                            [response |-> response, error |-> error])]
      /\ cached' = IF changes_credentials(control.operation) \/ Forks(control.operation, control.args)
                     THEN ids' ELSE cached
      /\ Counted /\ UNCHANGED << errno, last, dirs, limit >>

Pending == status = Running /\ control.operation # NONE
Invoked == called' = [op |-> control.operation, args |-> control.args]

\* The value of a refusal.
Denial(op) == IF op = "ISATTY" THEN "zero"
              ELSE IF op \in {"GETADDRINFO", "GETNAMEINFO"} THEN "EAI_SYSTEM" ELSE "failed"

\* left is the errno that the checks left.
Deny(left) ==
  /\ UNCHANGED << ids, renamed, heap, list, streams >>
  /\ Answer(Denial(control.operation), left) /\ called' = Nothing

\* Linux does what it is asked, or says why not.
Succeed(left) ==
  /\ control.operation \notin {"GETADDRINFO", "GETIFADDRS", "OPENDIR", "FDOPENDIR", "CLOSEDIR"}
  /\ \/ ids' = ids /\ renamed' = renamed
     \/ /\ control.operation \in {"SETUID", "SETRESUID"} /\ renamed' = renamed
        /\ \E u \in {"root", "user"} : ids' = [ids EXCEPT !.user = u]
     \/ /\ control.operation \in {"SETGID", "SETRESGID"} /\ renamed' = renamed
        /\ \E g \in {"root", "user"} : ids' = [ids EXCEPT !.group = g]
     \/ /\ control.operation \in {"UNSHARE", "SETNS", "SYS_clone"}
        /\ ids' = [user |-> "nobody", group |-> "nobody"] /\ renamed' = TRUE
  /\ Answer("done", left) /\ Invoked /\ UNCHANGED << heap, list, streams >>
Fail ==
  /\ control.operation # "GETADDRINFO"
  /\ control.operation \in {"OPENDIR", "FDOPENDIR"} => streams < MAX_DIRS
  /\ UNCHANGED << ids, renamed, heap, list >>
  /\ \E e \in Native : Answer("failed", e) /\ Invoked
  /\ streams' = IF control.operation = "CLOSEDIR" THEN streams - 1 ELSE streams
-----------------------------------------------------------------------------
(* Lists copied into the guest's heap.  An entry is a set of parts, each a *)
(* block, besides the block of the entry itself.                           *)

Entry(i, parts) == {<< i, "item" >>} \cup {<< i, p >> : p \in parts}
Blocks(entries) == UNION {Entry(i, entries[i]) : i \in DOMAIN entries}
Before(entries, k) == Blocks(SubSeq(entries, 1, k - 1))

\* network_addresses stops at the first part that cannot be allocated, and the
\* address comes before the name.
PartialAddresses(entries) ==
  UNION {{Before(entries, k), Before(entries, k) \cup Entry(k, {}),
          Before(entries, k) \cup Entry(k, entries[k] \ {"name"})} \ {Before(entries, k + 1)} :
           k \in DOMAIN entries}
\* PX_GETIFADDRS tries every part of an entry before it looks at the results.
PartialInterfaces(entries) ==
  UNION {{Before(entries, k)} \cup
         {Before(entries, k) \cup Entry(k, got) : got \in (SUBSET entries[k]) \ {entries[k]}} :
           k \in DOMAIN entries}

\* Mutant: an entry is linked to the list once it is complete.
MutFreeList(got, entries) ==
  got \ UNION {Entry(i, entries[i]) : i \in {j \in DOMAIN entries : Entry(j, entries[j]) \subseteq got}}
\* free_address_list and free_interfaces on the list built so far: an entry is
\* linked as soon as it exists, and its parts are freed with it.
FreeList(got, entries) ==
  got \ UNION {Entry(i, entries[i]) : i \in {j \in DOMAIN entries : << j, "item" >> \in got}}

PartialCopies(op, entries) ==
  IF op = "GETADDRINFO" THEN PartialAddresses(entries) ELSE PartialInterfaces(entries)

\* *out is 0 from the start, so that it stays an empty list on every failure.
CopyList(op, lists, denial, left) ==
  /\ control.operation = op /\ UNCHANGED << ids, renamed, streams >> /\ Invoked
  /\ \E entries \in lists :
       \/ Answer("done", left) /\ heap' = heap \cup Blocks(entries) /\ list' = entries
       \/ \E got \in PartialCopies(op, entries) :
            /\ Answer(denial, "ENOMEM")
            /\ heap' = heap \cup FreeList(got, entries) /\ UNCHANGED list
network_addresses(left) == CopyList("GETADDRINFO", AddressLists, "EAI_MEMORY", left)
CopyInterfaces(left) == CopyList("GETIFADDRS", Interfaces, "failed", left)
\* getaddrinfo has errors of its own.
Unresolved(left) ==
  /\ control.operation = "GETADDRINFO" /\ UNCHANGED << ids, renamed, heap, list, streams >>
  /\ Answer("EAI_NONAME", left) /\ Invoked
-----------------------------------------------------------------------------
(* Directory streams. *)

OpenStream(left) ==
  /\ control.operation \in {"OPENDIR", "FDOPENDIR"} /\ UNCHANGED << ids, renamed, heap, list >>
  /\ IF streams < MAX_DIRS THEN Answer("done", left) /\ streams' = streams + 1 /\ Invoked
     ELSE Answer("failed", "EMFILE") /\ UNCHANGED streams /\ called' = Nothing
CloseStream(left) ==
  /\ control.operation = "CLOSEDIR" /\ UNCHANGED << ids, renamed, heap, list >>
  /\ Answer("done", left) /\ Invoked /\ streams' = streams - 1

\* Linux is asked.
Serve(left) == \/ Succeed(left) \/ Fail \/ network_addresses(left) \/ CopyInterfaces(left)
               \/ Unresolved(left) \/ OpenStream(left) \/ CloseStream(left)

\* The request in the mailbox is checked, and refused or passed on.
service ==
  /\ Pending
  /\ \E outcome \in {Outcome(control.operation, control.args)} :
       IF outcome.refused THEN Deny(outcome.errno) ELSE Serve(outcome.errno)
-----------------------------------------------------------------------------
(* Back in the guest. *)

\* The answer is copied out of the mailbox before anything else runs.
Resume ==
  /\ status = Running /\ control.operation = NONE /\ stack # << >> /\ Top.state = "asked"
  /\ stack' = [stack EXCEPT ![Len(stack)] =
                  Frame(Top.op, Top.for, "answered", control.response, control.error, Top.truth)]
  /\ called' = Nothing
  /\ UNCHANGED << control, errno, last, ids, cached, renamed, Kept, limit, calls, status >>

\* Mutant: the answer is read from the mailbox once the handlers have run.
MutResponse == control.response
Response == Top.response
Error == Top.error

\* The handlers are done.  opendir that finds no memory closes what it opened.
Return ==
  /\ status = Running /\ control.operation = NONE /\ stack # << >> /\ Top.state = "answered"
  /\ errno' = IF Error # OK THEN Error ELSE errno
  /\ last' = [op |-> Top.op, response |-> Response, errno |-> errno', truth |-> Top.truth]
  /\ heap' = IF Allocates(Top.op) = "scratch" \/ Response.value = "failed" THEN heap \ Buffer(Top.op) ELSE heap
  /\ \/ /\ stack' = SubSeq(stack, 1, Len(stack) - 1) /\ UNCHANGED control
        /\ dirs' = IF Allocates(Top.op) = "after" /\ Response.value = "done" THEN dirs + 1
                   ELSE IF Top.op = "CLOSEDIR" /\ Top.for = "program" THEN dirs - 1 ELSE dirs
     \/ /\ Allocates(Top.op) = "after" /\ Response.value = "done"
        /\ stack' = [stack EXCEPT ![Len(stack)] = Asked("CLOSEDIR", "library")]
        /\ control' = Request("CLOSEDIR", << TRUE >>)
        /\ UNCHANGED dirs
  /\ called' = Nothing
  /\ UNCHANGED << ids, cached, renamed, list, streams, limit, calls, status >>

\* The program gives back what it was given: free, freeaddrinfo, freeifaddrs.
Free ==
  /\ status = Running /\ control.operation = NONE /\ stack = << >>
  /\ \/ \E op \in {"GETCWD", "REALPATH"} :
          Buffer(op) \subseteq heap /\ heap' = heap \ Buffer(op) /\ UNCHANGED list
     \/ list # << >> /\ heap' = heap \ Blocks(list) /\ list' = << >>
  /\ last' = Nothing
  /\ UNCHANGED << control, stack, errno, called, ids, cached, renamed, dirs, streams, limit, calls, status >>
-----------------------------------------------------------------------------
(* Other ends of an invocation. *)

\* The kernel stops the program for a while, and the loader starts it again.
Preempted ==
  /\ status = Running /\ control.operation = NONE /\ limit # 0 /\ Counted
  /\ UNCHANGED << Guest, called, ids, cached, renamed, Kept, limit >>

\* linux_bash_process_exit, a return from the program, or an error of the run.
Exit ==
  /\ status = Running /\ control.operation = NONE
  /\ \E code \in {0, 259, -1} : status' = code % 256
  /\ UNCHANGED << Guest, called, ids, cached, renamed, Kept, limit, calls >>
Stopped ==
  /\ status = Running /\ control.operation = NONE /\ status' = 1
  /\ UNCHANGED << Guest, called, ids, cached, renamed, Kept, limit, calls >>

Over == status # Running /\ UNCHANGED svcVars

SvcNext ==
  \/ Asks /\ \E op \in Candidates : \E args \in Choices(op) : Call(op, args)
  \/ \E op \in {"GETCWD", "REALPATH", "EPOLL_WAIT"} : CallWithoutMemory(op)
  \/ service \/ Resume \/ Return \/ Free \/ Preempted \/ Exit \/ Stopped \/ Over
SvcSpec == SvcInit /\ [][SvcNext]_svcVars
-----------------------------------------------------------------------------
(* Properties. *)


\* A call returns the answer to its own request with that answer's errno, though
\* handlers that ran before it returned made requests through the same mailbox;
\* and a call that fails says why, but for a seccomp filter that is too long
\* (bridge; c->response and c->error).
Answered ==
  last # Nothing =>
    /\ last.response = last.truth.response
    /\ last.truth.error # OK => last.errno \in {last.truth.error, "EIO"}
    /\ last.response.value = "failed" => last.truth.error # OK \/ last.op = "SYS_seccomp"
    /\ last.truth.error \in Unlisted => last.errno = "EIO"

\* getuid and the others, which read the mailbox, report what Linux has, as long
\* as the process stays in its user namespace (refresh_credentials).
CredentialsCurrent == ~renamed => cached = ids

\* Between calls the heap holds exactly what the program can still free, and a
\* directory stream is open for each DIR: nothing is left of a list or of a
\* buffer whose request failed half way (network_addresses, PX_GETIFADDRS,
\* getcwd, realpath, epoll_wait, opendir).
NothingLeaks ==
  stack = << >> =>
    /\ heap \ UNION {Buffer(op) : op \in {"GETCWD", "REALPATH"}} = Blocks(list)
    /\ streams = dirs
=============================================================================
