---------------------------- MODULE SignalBridge ----------------------------
(***************************************************************************)
(* Signals between Linux, the loader and the guest.                        *)
(*                                                                         *)
(* Linux delivers a signal to record_signal (signal_host.h), which only    *)
(* notes it in pending_signals.  The loader's run loop (host.c, main)      *)
(* publishes the notes to control.pending_signals before it continues the  *)
(* guest, and the guest (signal_guest.h, bridge_guest.c) calls its         *)
(* handlers when a bridge call returns.  Calls that may sleep              *)
(* (sigsuspend, ppoll, read and write) look at the queue first, because a  *)
(* signal already noted no longer interrupts a system call.                *)
(*                                                                         *)
(* The guest is one fiber: main, or a handler invoked from a bridge call   *)
(* of main or of another handler.  Its program is arbitrary: it may issue  *)
(* any call at any time, with the dispositions and masks of the constants. *)
(***************************************************************************)
EXTENDS Naturals, Sequences, FiniteSets

CONSTANTS N,          \* signals are 1 .. N; the guest scans them in that order
          Actions,    \* the dispositions the guest installs
          Masks,      \* the masks the guest passes to sigprocmask, sigsuspend and ppoll
          Ops,        \* the bridge calls the guest issues
          Jumps,      \* where longjmp leads: "main" or "handler"
          MaxSends,   \* bound on the signals sent
          MaxDepth    \* bound on nested handlers

Sig == 1 .. N
Action == [h : {"dfl", "ign", "fn"}, reset : BOOLEAN, nodefer : BOOLEAN, mask : SUBSET Sig]
Default == [h |-> "dfl", reset |-> FALSE, nodefer |-> FALSE, mask |-> {}]
Op == {"sigaction", "sigmask", "suspend", "poll", "read", "wait", "fork", "other"}

ASSUME SignalAssumption ==
  /\ N \in Nat /\ Actions \subseteq Action /\ Masks \subseteq SUBSET Sig
  /\ Ops \subseteq Op /\ Jumps \subseteq {"main", "handler"}
  /\ MaxSends \in Nat /\ MaxDepth \in Nat

VARIABLES
  \* Linux
  kpending,     \* sent, not yet delivered
  native,       \* disposition: "dfl", "ign" or "record"
  nreset,       \* SA_RESETHAND is set
  nmask,        \* the process's signal mask
  alive, sends,
  \* the loader
  pending,      \* pending_signals
  published,    \* control.pending_signals
  hpc,
  op, arg, act, cmask, how, old,   \* the call being served
  interrupted,  \* signal_io_interrupted
  result,       \* of a transfer: "none", "eintr" or "data"
  moved,        \* the kernel has transferred data for this call
  \* the guest
  gpc,          \* "run" or "poll"
  number,       \* how far linux_bash_poll_signals has got
  action,       \* guest_actions
  gmask,        \* guest_signal_mask
  held,         \* dispatch_blocked
  waited, saved,  \* the call in progress restores guest_signal_mask to saved
  stack,        \* the handlers running, innermost last
  owed          \* history: recorded for this process, not yet taken up by the guest

kernelVars == << kpending, native, nreset, nmask, alive, sends >>
queueVars == << pending, published >>
callVars == << op, arg, act, cmask, how, old >>
ioVars == << interrupted, result, moved >>
guestVars == << gpc, number, action, gmask, held, waited, saved, stack >>
vars == << kernelVars, queueVars, hpc, callVars, ioVars, guestVars, owed >>

Init ==
  /\ kpending = {} /\ native = [s \in Sig |-> "dfl"] /\ nreset = [s \in Sig |-> FALSE]
  /\ nmask = {} /\ alive = TRUE /\ sends = 0
  /\ pending = {} /\ published = {} /\ hpc = "guest"
  /\ op = "other" /\ arg = 0 /\ act = Default /\ cmask = {} /\ how = "set" /\ old = {}
  /\ interrupted = FALSE /\ result = "none" /\ moved = FALSE
  /\ gpc = "run" /\ number = 1 /\ action = [s \in Sig |-> Default]
  /\ gmask = {} /\ held = {} /\ waited = FALSE /\ saved = {} /\ stack = << >>
  /\ owed = {}
-----------------------------------------------------------------------------
(* Linux. *)

Sleeps == {"suspend", "poll"}
\* The mask in force: sigsuspend and ppoll install theirs while they sleep.
InForce == IF hpc \in {"asleep", "waking"} /\ op \in Sleeps THEN cmask ELSE nmask

Send(s) ==
  /\ alive /\ sends < MaxSends /\ sends' = sends + 1
  /\ kpending' = kpending \cup {s}
  /\ UNCHANGED << native, nreset, nmask, alive, queueVars, hpc, callVars, ioVars, guestVars, owed >>

\* Mutant: the range of instructions that may be redirected includes the return.
MutRedirected(p) == p \in {"entry", "moved"} \/ (p = "asleep" /\ op = "read")
\* The interrupted instruction is in [signal_io_begin, signal_io_end): between the test
\* and the system call, or at the system call because it was interrupted or rewound.
Redirected(p) == p = "entry" \/ (p = "asleep" /\ op = "read")

\* Where the loader goes on after record_signal.
AfterSignal(p) ==
  IF Redirected(p) THEN {"cancel"}
  ELSE IF p = "asleep" /\ op \in Sleeps THEN {"waking"}
  ELSE IF p = "asleep" THEN {"asleep", "respond"}
  ELSE {p}

\* A signal that is not masked takes effect; record_signal notes it and, if a
\* transfer is about to enter the kernel, makes it fail with EINTR.
Deliver(s) ==
  /\ alive /\ s \in kpending \ InForce
  /\ kpending' = kpending \ {s}
  /\ IF native[s] = "record"
       THEN /\ pending' = pending \cup {s} /\ owed' = owed \cup {s}
            /\ native' = IF nreset[s] THEN [native EXCEPT ![s] = "dfl"] ELSE native
            /\ hpc' \in AfterSignal(hpc)
            /\ interrupted' = (interrupted \/ hpc \in {"window", "entry", "asleep", "moved"})
            /\ UNCHANGED alive
       ELSE /\ alive' = (native[s] = "ign")
            /\ UNCHANGED << pending, owed, native, hpc, interrupted >>
  /\ UNCHANGED << nreset, nmask, sends, published, callVars, result, moved, guestVars >>
-----------------------------------------------------------------------------
(* The loader. *)

\* Mutant: what was published before is overwritten.
MutPublish == published' = pending /\ pending' = {}
\* publish_signals, under a blocked mask.
Publish == published' = published \cup pending /\ pending' = {}

At(p, o) == alive /\ hpc = p /\ op = o

\* Mutant: a default disposition is not passed on.
MutNativeDefault(a) == IF a.h = "ign" THEN "ign" ELSE "record"
NativeMode(a) == IF a.h = "fn" THEN "record" ELSE a.h

ServiceSigaction ==
  /\ At("service", "sigaction") /\ hpc' = "respond"
  /\ native' = [native EXCEPT ![arg] = NativeMode(act)]
  /\ nreset' = [nreset EXCEPT ![arg] = act.reset]
  /\ UNCHANGED << kpending, nmask, alive, sends, queueVars, callVars, ioVars, guestVars, owed >>

Masked(m, h, set) ==
  IF h = "set" THEN set ELSE IF h = "block" THEN m \cup set ELSE m \ set

ServiceSigmask ==
  /\ At("service", "sigmask") /\ hpc' = "respond"
  /\ old' = nmask /\ nmask' = Masked(nmask, how, cmask)
  /\ UNCHANGED << kpending, native, nreset, alive, sends, queueVars, op, arg, act, cmask, how,
                  ioVars, guestVars, owed >>

\* Mutant: the queue is not looked at before sleeping.
MutServiceSleep ==
  /\ alive /\ hpc = "service" /\ op \in Sleeps /\ Publish
  /\ hpc' = "asleep"
  /\ UNCHANGED << kernelVars, callVars, ioVars, guestVars, owed >>
\* suspend_signals, poll_descriptors: the queue is tested and the sleep begun with
\* delivery blocked, so no signal is recorded in between.
ServiceSleep ==
  /\ alive /\ hpc = "service" /\ op \in Sleeps /\ Publish
  /\ hpc' = IF published' \ cmask # {} THEN "respond" ELSE "asleep"
  /\ UNCHANGED << kernelVars, callVars, ioVars, guestVars, owed >>

\* The sleep ends by a signal, or (ppoll) by a ready descriptor or the timeout.
Wake ==
  /\ alive /\ op \in Sleeps
  /\ hpc = "waking" \/ (hpc = "asleep" /\ op = "poll")
  /\ hpc' = "respond"
  /\ IF op = "poll" THEN Publish ELSE UNCHANGED queueVars
  /\ UNCHANGED << kernelVars, callVars, ioVars, guestVars, owed >>

\* interruptible_transfer: the queue is tested with delivery blocked ...
TransferCheck ==
  /\ At("service", "read") /\ Publish
  /\ moved' = FALSE /\ interrupted' = FALSE
  /\ IF published' \ nmask # {}
       THEN hpc' = "respond" /\ result' = "eintr"
       ELSE hpc' = "window" /\ result' = "none"
  /\ UNCHANGED << kernelVars, callVars, guestVars, owed >>
\* Mutant: the flag is not tested before the system call.
MutTransferTest ==
  /\ At("window", "read")
  /\ hpc' = "entry"
  /\ UNCHANGED << kernelVars, queueVars, callVars, ioVars, guestVars, owed >>
\* ... then, unblocked, the flag that record_signal sets is tested ...
TransferTest ==
  /\ At("window", "read")
  /\ hpc' = IF interrupted THEN "cancel" ELSE "entry"
  /\ UNCHANGED << kernelVars, queueVars, callVars, ioVars, guestVars, owed >>
\* ... and the kernel entered, where the transfer may block.
TransferEnter ==
  /\ At("entry", "read") /\ hpc' = "asleep"
  /\ UNCHANGED << kernelVars, queueVars, callVars, ioVars, guestVars, owed >>
TransferMove ==
  /\ At("asleep", "read") /\ hpc' = "moved" /\ moved' = TRUE
  /\ UNCHANGED << kernelVars, queueVars, callVars, interrupted, result, guestVars, owed >>
TransferEnd ==
  /\ alive /\ hpc \in {"moved", "cancel"} /\ op = "read" /\ hpc' = "respond"
  /\ result' = IF hpc = "moved" THEN "data" ELSE "eintr"
  /\ Publish
  /\ UNCHANGED << kernelVars, callVars, interrupted, moved, guestVars, owed >>

\* waitpid, nanosleep and the like: no look at the queue.
ServiceWait ==
  /\ At("service", "wait") /\ hpc' = "asleep"
  /\ UNCHANGED << kernelVars, queueVars, callVars, ioVars, guestVars, owed >>
WaitEnd ==
  /\ At("asleep", "wait") /\ hpc' = "respond"
  /\ UNCHANGED << kernelVars, queueVars, callVars, ioVars, guestVars, owed >>
\* Every other call returns without sleeping.
ServiceOther ==
  /\ At("service", "other") /\ hpc' = "respond"
  /\ UNCHANGED << kernelVars, queueVars, callVars, ioVars, guestVars, owed >>

\* fork: the parent goes on ...
ForkParent ==
  /\ At("service", "fork") /\ hpc' = "respond"
  /\ UNCHANGED << kernelVars, queueVars, callVars, ioVars, guestVars, owed >>
\* ... or the child does: Linux gives it no pending signal and record_signal keeps
\* working while the Capsule is rebuilt; then both queues are cleared.  What the child
\* itself has recorded meanwhile is dropped with what was the parent's.
ForkChild ==
  /\ At("service", "fork") /\ hpc' = "forked" /\ kpending' = {}
  /\ UNCHANGED << native, nreset, nmask, alive, sends, queueVars, callVars, ioVars, guestVars, owed >>
ForkClear ==
  /\ At("forked", "fork") /\ hpc' = "respond"
  /\ pending' = {} /\ published' = {} /\ owed' = {}
  /\ UNCHANGED << kernelVars, callVars, ioVars, guestVars >>

\* The run loop continues the guest, which first finishes its side of the call; the
\* request is consumed.
Continue ==
  /\ alive /\ hpc = "respond" /\ hpc' = "guest" /\ Publish
  /\ action' = IF op = "sigaction" THEN [action EXCEPT ![arg] = act] ELSE action
  /\ gmask' = IF op = "sigmask" THEN Masked(old, how, cmask) ELSE gmask
  /\ gpc' = IF op \in {"sigaction", "sigmask"} THEN "run" ELSE "poll"
  /\ number' = 1
  /\ op' = "other" /\ arg' = 0 /\ act' = Default /\ cmask' = {} /\ how' = "set" /\ old' = {}
  /\ interrupted' = FALSE /\ result' = "none" /\ moved' = FALSE
  /\ UNCHANGED << kernelVars, held, waited, saved, stack, owed >>
\* The guest ran out of its instruction budget and is continued.
Preempt ==
  /\ alive /\ hpc = "guest" /\ pending # {} /\ Publish
  /\ UNCHANGED << kernelVars, hpc, callVars, ioVars, guestVars, owed >>

Service == \/ ServiceSigaction \/ ServiceSigmask \/ ServiceSleep \/ ServiceWait \/ ServiceOther
           \/ ForkParent \/ ForkChild \/ ForkClear
Transfer == TransferCheck \/ TransferTest \/ TransferEnter \/ TransferEnd
\* What the loader does by itself, without waiting for anybody.
Loader == Service \/ Transfer \/ (hpc = "waking" /\ Wake) \/ Continue
-----------------------------------------------------------------------------
(* The guest. *)

Running == alive /\ hpc = "guest" /\ gpc = "run"
MayCall == Running /\ Len(stack) < MaxDepth

\* A call that neither sleeps under a mask of its own nor changes one.
Call(o) ==
  /\ MayCall /\ o \in Ops \cap {"read", "wait", "fork", "other"}
  /\ hpc' = "service" /\ op' = o /\ waited' = FALSE
  /\ UNCHANGED << kernelVars, queueVars, arg, act, cmask, how, old, ioVars,
                  gpc, number, action, gmask, held, saved, stack, owed >>
CallSigaction(s, a) ==
  /\ MayCall /\ "sigaction" \in Ops
  /\ hpc' = "service" /\ op' = "sigaction" /\ arg' = s /\ act' = a
  /\ UNCHANGED << kernelVars, queueVars, cmask, how, old, ioVars, guestVars, owed >>
CallSigmask(h, m) ==
  /\ MayCall /\ "sigmask" \in Ops
  /\ hpc' = "service" /\ op' = "sigmask" /\ how' = h /\ cmask' = m
  /\ UNCHANGED << kernelVars, queueVars, arg, act, old, ioVars, guestVars, owed >>
\* Mutant: the signals held by running handlers are not masked while sleeping.
MutSleepMask(m) == m
\* What sigsuspend and ppoll mask: a held signal could not be dispatched anyway.
SleepMask(m) == m \cup held
CallSuspend(m) ==
  /\ MayCall /\ "suspend" \in Ops
  /\ hpc' = "service" /\ op' = "suspend"
  /\ waited' = TRUE /\ saved' = gmask /\ gmask' = SleepMask(m) /\ cmask' = SleepMask(m)
  /\ UNCHANGED << kernelVars, queueVars, arg, act, how, old, ioVars,
                  gpc, number, action, held, stack, owed >>
CallPpoll(m) ==
  /\ MayCall /\ "poll" \in Ops
  /\ hpc' = "service" /\ op' = "poll"
  /\ waited' = TRUE /\ saved' = gmask /\ gmask' = SleepMask(m) /\ cmask' = SleepMask(m)
  /\ UNCHANGED << kernelVars, queueVars, arg, act, how, old, ioVars,
                  gpc, number, action, held, stack, owed >>
\* poll and select pass no mask: without a running handler the process's own is kept.
CallPoll ==
  /\ MayCall /\ "poll" \in Ops
  /\ hpc' = "service" /\ op' = "poll" /\ waited' = TRUE /\ saved' = gmask
  /\ IF held = {} THEN cmask' = nmask /\ UNCHANGED gmask
                  ELSE cmask' = SleepMask(gmask) /\ gmask' = SleepMask(gmask)
  /\ UNCHANGED << kernelVars, queueVars, arg, act, how, old, ioVars,
                  gpc, number, action, held, stack, owed >>

Polling == alive /\ hpc = "guest" /\ gpc = "poll"
\* What the scan of linux_bash_poll_signals can still come across.
Dispatchable == {s \in published \ (gmask \cup held) : s >= number}
\* Mutant: the handler's own signal is not held.
MutGuard(s, a) == a.mask
Guard(s, a) == a.mask \cup (IF a.nodefer THEN {} ELSE {s})
WithoutHandler(a) == [h |-> "dfl", reset |-> a.reset, nodefer |-> a.nodefer, mask |-> a.mask]
\* COMPATIBILITY.md: "its own signal (unless SA_NODEFER) and its sa_mask are held".
Promised(s, a) == a.mask \cup {t \in {s} : ~a.nodefer}

\* The next signal of the scan: its handler is called, or it is dropped if there is none.
Dispatch(s) ==
  /\ Polling /\ s \in Dispatchable /\ \A t \in Dispatchable : s <= t
  /\ published' = published \ {s} /\ owed' = owed \ {s}
  /\ IF action[s].h # "fn"
       THEN number' = s + 1 /\ UNCHANGED << gpc, action, held, waited, saved, stack >>
       ELSE /\ action' = IF action[s].reset
                            THEN [action EXCEPT ![s] = WithoutHandler(action[s])] ELSE action
            /\ held' = held \cup Guard(s, action[s])
            /\ stack' = Append(stack, [sig |-> s, guard |-> Promised(s, action[s]), prev |-> held,
                                       waited |-> waited, saved |-> saved])
            /\ gpc' = "run" /\ waited' = FALSE /\ saved' = {} /\ number' = 1
  /\ UNCHANGED << kernelVars, pending, hpc, callVars, ioVars, gmask >>

\* The call returns to its caller.
Return ==
  /\ Polling /\ Dispatchable = {} /\ gpc' = "run" /\ waited' = FALSE
  /\ gmask' = IF waited THEN saved ELSE gmask
  /\ saved' = {} /\ number' = 1
  /\ UNCHANGED << kernelVars, queueVars, hpc, callVars, ioVars, action, held, stack, owed >>

Top == stack[Len(stack)]
HandlerReturn ==
  /\ Running /\ stack # << >>
  /\ held' = Top.prev /\ number' = Top.sig + 1 /\ waited' = Top.waited /\ saved' = Top.saved
  /\ stack' = SubSeq(stack, 1, Len(stack) - 1) /\ gpc' = "poll"
  /\ UNCHANGED << kernelVars, queueVars, hpc, callVars, ioVars, action, gmask, owed >>

\* longjmp to a place in main, or in one of the running handlers (the innermost included).
Longjmp(d) ==
  /\ Running /\ stack # << >>
  /\ d <= Len(stack) /\ (IF d = 0 THEN "main" ELSE "handler") \in Jumps
  /\ held' = {} /\ stack' = SubSeq(stack, 1, d)
  /\ UNCHANGED << kernelVars, queueVars, hpc, callVars, ioVars, gpc, number, action, gmask, waited,
                  saved, owed >>

Calls == \/ \E o \in Op : Call(o)
         \/ \E s \in Sig, a \in Actions : CallSigaction(s, a)
         \/ \E h \in {"set", "block", "unblock"}, m \in Masks : CallSigmask(h, m)
         \/ \E m \in Masks : CallSuspend(m) \/ CallPpoll(m)
         \/ CallPoll
Handlers == (\E s \in Sig : Dispatch(s)) \/ Return \/ HandlerReturn \/ \E d \in 0 .. MaxDepth : Longjmp(d)

\* The process has been ended by a signal's default action.
Ended == ~alive /\ UNCHANGED vars

Next == \/ \E s \in Sig : Send(s) \/ Deliver(s)
        \/ Service \/ Transfer \/ TransferMove \/ Wake \/ WaitEnd \/ Continue \/ Preempt
        \/ Calls \/ Handlers \/ Ended

Spec == Init /\ [][Next]_vars
\* Linux delivers what is not masked and the loader runs.  Nothing is assumed of the
\* guest's program, of descriptors becoming ready or of children ending.
FairSpec == Spec /\ WF_vars(Loader) /\ WF_vars(\E s \in Sig : Deliver(s))
-----------------------------------------------------------------------------
(* Properties. *)

KernelType ==
  /\ kpending \subseteq Sig /\ nmask \subseteq Sig
  /\ native \in [Sig -> {"dfl", "ign", "record"}] /\ nreset \in [Sig -> BOOLEAN]
  /\ alive \in BOOLEAN /\ sends \in Nat
QueueType == pending \subseteq Sig /\ published \subseteq Sig /\ owed \subseteq Sig
LoaderPc == {"guest", "service", "respond", "asleep", "waking", "window", "entry", "moved",
             "cancel", "forked"}
CallType ==
  /\ op \in Op /\ arg \in 0 .. N /\ (op = "sigaction" => arg \in Sig) /\ act \in Action
  /\ cmask \subseteq Sig /\ old \subseteq Sig /\ how \in {"set", "block", "unblock"}
IoType ==
  /\ result \in {"none", "eintr", "data"} /\ interrupted \in BOOLEAN /\ moved \in BOOLEAN
HandlerFrame == [sig : Sig, guard : SUBSET Sig, prev : SUBSET Sig, waited : BOOLEAN,
                 saved : SUBSET Sig]
GuestType ==
  /\ gpc \in {"run", "poll"} /\ number \in Nat /\ action \in [Sig -> Action]
  /\ gmask \subseteq Sig /\ held \subseteq Sig /\ waited \in BOOLEAN /\ saved \subseteq Sig
  /\ stack \in Seq(HandlerFrame)

\* Type correctness.
TypeOK ==
  KernelType /\ QueueType /\ hpc \in LoaderPc /\ CallType /\ IoType /\ GuestType

\* No lost wake-up: a call that looks at the queue never sleeps while a signal that
\* its mask lets through is recorded or published, wherever delivery fell between
\* the test of the queue and the system call.
NoSleepOnQueued ==
  hpc = "asleep" /\ op # "wait" => (pending \cup published) \subseteq InForce

\* A finished transfer survives: the guest is told EINTR exactly when the kernel has
\* moved no data, however late a signal arrives.
TransferKept ==
  hpc = "respond" /\ op = "read" => /\ moved <=> result = "data"
                                    /\ ~moved <=> result = "eintr"

\* dispatch_blocked holds exactly the signals of the running handlers: nested
\* handlers add to it, returning takes away what the handler added, and leaving by
\* longjmp releases everything.
HeldExactly == held = UNION {stack[i].guard : i \in DOMAIN stack}

\* "Guest signal handlers no longer re-enter for their own signal or sa_mask": while
\* a handler runs no signal that it holds is dispatched.
NotReentered == \A i, j \in DOMAIN stack : i < j => stack[j].sig \notin stack[i].guard

\* A signal recorded for this process stays queued until the guest takes it up; a forked
\* child starts, when its Capsule has been rebuilt, with none.
NothingLost == owed \subseteq pending \cup published

\* When a handler set by the guest is gone in the guest, it is gone in Linux: no
\* signal is recorded that the guest would then drop.  A one-shot handler's is the
\* exception: installed between recording and dispatch, it is gone in the guest only.
DispositionsAgree ==
  TypeOK /\ (hpc = "guest" => \A s \in Sig : action[s].h = "dfl" /\ ~action[s].reset => native[s] # "record")

\* sigsuspend returns only for a signal the guest can dispatch: waking for one that a
\* running handler holds "would only repeat the wait".
SuspendHasCause ==
  hpc = "respond" /\ op = "suspend" => ~((pending \cup published) \subseteq gmask \cup held)

\* A call about to sleep, or sleeping, returns to the guest once a signal that its
\* mask lets through has been recorded.
SleepEnds ==
  (/\ alive /\ hpc # "guest" /\ op # "wait"
   /\ ~(pending \subseteq (IF op \in Sleeps THEN cmask ELSE nmask)))
  ~> (hpc = "guest" \/ ~alive)
=============================================================================
