------------------------- MODULE SignalBridgeProofs -------------------------
(***************************************************************************)
(* Proofs about SignalBridge, for any number of signals, any dispositions  *)
(* and masks, any nesting of handlers and any number of signals sent.      *)
(***************************************************************************)
EXTENDS SignalBridge, TLAPS, SequenceTheorems

\* What a guard and a promise are made of.
LEMMA GuardType ==
  ASSUME NEW s \in Sig, NEW a \in Action
  PROVE  /\ Guard(s, a) \subseteq Sig /\ Promised(s, a) \subseteq Sig
         /\ Guard(s, a) = Promised(s, a)
         /\ WithoutHandler(a) \in Action
  BY DEF Action, Guard, Promised, WithoutHandler

LEMMA MaskedType ==
  ASSUME NEW m \in SUBSET Sig, NEW set \in SUBSET Sig, NEW h \in {"set", "block", "unblock"}
  PROVE  Masked(m, h, set) \subseteq Sig
  BY DEF Masked

\* Taking the innermost handlers off the stack.
LEMMA StackPrefix ==
  ASSUME NEW T, NEW st \in Seq(T), NEW d \in 0 .. Len(st)
  PROVE  /\ SubSeq(st, 1, d) \in Seq(T) /\ Len(SubSeq(st, 1, d)) = d
         /\ \A i \in 1 .. d : SubSeq(st, 1, d)[i] = st[i]
  OBVIOUS

LEMMA StackPush ==
  ASSUME NEW T, NEW st \in Seq(T), NEW e \in T
  PROVE  /\ Append(st, e) \in Seq(T) /\ Len(Append(st, e)) = Len(st) + 1
         /\ \A i \in 1 .. Len(st) : Append(st, e)[i] = st[i]
         /\ Append(st, e)[Len(st) + 1] = e
  OBVIOUS

\* The variables of each group keep their type when they keep their value.
LEMMA TypeSame ==
  /\ KernelType /\ UNCHANGED kernelVars => KernelType'
  /\ QueueType /\ UNCHANGED << queueVars, owed >> => QueueType'
  /\ CallType /\ UNCHANGED callVars => CallType'
  /\ IoType /\ UNCHANGED ioVars => IoType'
  /\ GuestType /\ UNCHANGED guestVars => GuestType'
  <1>1. KernelType /\ UNCHANGED kernelVars => KernelType'
    BY DEF KernelType, kernelVars
  <1>2. QueueType /\ UNCHANGED << queueVars, owed >> => QueueType'
    BY DEF QueueType, queueVars
  <1>3. CallType /\ UNCHANGED callVars => CallType'
    BY DEF CallType, callVars
  <1>4. IoType /\ UNCHANGED ioVars => IoType'
    BY DEF IoType, ioVars
  <1>5. GuestType /\ UNCHANGED guestVars => GuestType'
    BY DEF GuestType, guestVars
  <1> QED BY <1>1, <1>2, <1>3, <1>4, <1>5

LEMMA PublishType ==
  ASSUME QueueType, Publish, UNCHANGED owed PROVE QueueType'
  BY DEF QueueType, Publish

LEMMA TypeKernel ==
  ASSUME TypeOK, NEW s \in Sig, Send(s) \/ Deliver(s) PROVE TypeOK'
  <1>1. CASE Send(s)
    <2>1. KernelType'
      BY <1>1 DEF Send, TypeOK, KernelType
    <2> QED BY <1>1, <2>1, TypeSame DEF Send, TypeOK
  <1>2. CASE Deliver(s)
    <2>1. hpc' \in LoaderPc
      BY Zenon, <1>2 DEF Deliver, TypeOK, AfterSignal, LoaderPc
    <2>2. native' \in [Sig -> {"dfl", "ign", "record"}]
      BY Zenon, <1>2 DEF Deliver, TypeOK, KernelType
    <2>3. alive' \in BOOLEAN /\ interrupted' \in BOOLEAN
      BY Zenon, <1>2 DEF Deliver, TypeOK, KernelType, IoType
    <2>4. QueueType'
      BY Zenon, <1>2 DEF Deliver, TypeOK, QueueType
    <2>5. KernelType'
      BY <1>2, <2>2, <2>3 DEF Deliver, TypeOK, KernelType
    <2>6. IoType'
      BY <1>2, <2>3 DEF Deliver, TypeOK, IoType
    <2> QED BY SMTT(40), <1>2, <2>1, <2>4, <2>5, <2>6, TypeSame DEF Deliver, TypeOK
  <1> QED BY <1>1, <1>2

LEMMA TypeService ==
  ASSUME TypeOK, Service PROVE TypeOK'
  <1> USE DEF TypeOK
  <1>0. {"respond", "asleep", "forked"} \subseteq LoaderPc
    BY DEF LoaderPc
  <1>1. CASE ServiceSigaction
    <2>1. NativeMode(act) \in {"dfl", "ign", "record"} /\ act.reset \in BOOLEAN
      BY DEF NativeMode, CallType, Action
    <2>2. KernelType'
      BY Zenon, <1>1, <2>1 DEF ServiceSigaction, KernelType
    <2> QED BY <1>0, <1>1, <2>2, TypeSame DEF ServiceSigaction
  <1>2. CASE ServiceSigmask
    <2>1. nmask' \subseteq Sig
      BY <1>2, MaskedType DEF ServiceSigmask, KernelType, CallType
    <2>2. KernelType' /\ CallType'
      BY <1>2, <2>1 DEF ServiceSigmask, KernelType, CallType
    <2> QED BY <1>0, <1>2, <2>2, TypeSame DEF ServiceSigmask
  <1>3. CASE ServiceSleep
    <2>1. hpc' \in LoaderPc
      BY <1>0, <1>3 DEF ServiceSleep
    <2> QED BY <1>3, <2>1, TypeSame, PublishType DEF ServiceSleep
  <1>4. CASE ServiceWait BY <1>0, <1>4, TypeSame DEF ServiceWait
  <1>5. CASE ServiceOther BY <1>0, <1>5, TypeSame DEF ServiceOther
  <1>6. CASE ForkParent BY <1>0, <1>6, TypeSame DEF ForkParent
  <1>7. CASE ForkChild
    <2>1. KernelType' /\ QueueType'
      BY <1>7 DEF ForkChild, KernelType, QueueType, queueVars
    <2> QED BY <1>0, <1>7, <2>1, TypeSame DEF ForkChild
  <1>8. CASE ForkClear
    <2>1. QueueType'
      BY <1>8 DEF ForkClear, QueueType
    <2> QED BY <1>0, <1>8, <2>1, TypeSame DEF ForkClear
  <1> QED BY <1>1, <1>2, <1>3, <1>4, <1>5, <1>6, <1>7, <1>8 DEF Service

LEMMA TypeTransfer ==
  ASSUME TypeOK, Transfer \/ TransferMove \/ Wake \/ WaitEnd \/ Preempt PROVE TypeOK'
  <1> USE DEF TypeOK
  <1>0. {"respond", "window", "cancel", "entry", "asleep", "moved"} \subseteq LoaderPc
    BY DEF LoaderPc
  <1>1. CASE TransferCheck
    <2>1. IoType' /\ hpc' \in LoaderPc
      BY Zenon, <1>0, <1>1 DEF TransferCheck, IoType
    <2> QED BY <1>1, <2>1, TypeSame, PublishType DEF TransferCheck
  <1>2. CASE TransferTest
    <2>1. hpc' \in LoaderPc
      BY <1>0, <1>2 DEF TransferTest
    <2> QED BY <1>2, <2>1, TypeSame DEF TransferTest
  <1>3. CASE TransferEnter BY <1>0, <1>3, TypeSame DEF TransferEnter
  <1>4. CASE TransferEnd
    <2>1. IoType'
      BY <1>4 DEF TransferEnd, IoType
    <2> QED BY <1>0, <1>4, <2>1, TypeSame, PublishType DEF TransferEnd
  <1>5. CASE TransferMove
    <2>1. IoType'
      BY <1>5 DEF TransferMove, IoType
    <2> QED BY <1>0, <1>5, <2>1, TypeSame DEF TransferMove
  <1>6. CASE Wake
    <2>1. QueueType'
      BY <1>6, TypeSame, PublishType DEF Wake
    <2> QED BY <1>0, <1>6, <2>1, TypeSame DEF Wake
  <1>7. CASE WaitEnd BY <1>0, <1>7, TypeSame DEF WaitEnd
  <1>8. CASE Preempt BY <1>8, TypeSame, PublishType DEF Preempt
  <1> QED BY <1>1, <1>2, <1>3, <1>4, <1>5, <1>6, <1>7, <1>8 DEF Transfer

LEMMA TypeContinue ==
  ASSUME TypeOK, Continue PROVE TypeOK'
  <1>1. gmask' \subseteq Sig
    BY Zenon, MaskedType DEF Continue, TypeOK, GuestType, CallType
  <1>2. action' \in [Sig -> Action]
    BY DEF Continue, TypeOK, GuestType, CallType
  <1>3. number' \in Nat /\ arg' \in 0 .. N /\ (op' = "sigaction" => arg' \in Sig)
    BY SignalAssumption DEF Continue
  <1>4. GuestType'
    BY <1>1, <1>2, <1>3 DEF Continue, TypeOK, GuestType
  <1>5. CallType'
    BY <1>3 DEF Continue, CallType, Default, Action, Op
  <1>6. IoType'
    BY Zenon DEF Continue, IoType
  <1> QED BY SMTT(40), <1>4, <1>5, <1>6, TypeSame, PublishType DEF Continue, TypeOK, LoaderPc

LEMMA TypeCalls ==
  ASSUME TypeOK, Calls PROVE TypeOK'
  <1> USE DEF TypeOK
  <1>0. "service" \in LoaderPc
    BY DEF LoaderPc
  <1>1. ASSUME NEW o \in Op, Call(o) PROVE TypeOK'
    <2>1. CallType' /\ GuestType'
      BY Zenon, <1>1 DEF Call, CallType, GuestType
    <2> QED BY <1>0, <1>1, <2>1, TypeSame DEF Call
  <1>2. ASSUME NEW s \in Sig, NEW a \in Actions, CallSigaction(s, a) PROVE TypeOK'
    <2>1. s \in 0 .. N /\ a \in Action
      BY SignalAssumption DEF Sig
    <2>2. CallType'
      BY <1>2, <2>1 DEF CallSigaction, CallType, Op
    <2> QED BY <1>0, <1>2, <2>2, TypeSame DEF CallSigaction
  <1>3. ASSUME NEW h \in {"set", "block", "unblock"}, NEW m \in Masks, CallSigmask(h, m)
        PROVE  TypeOK'
    <2>1. CallType'
      BY <1>3, SignalAssumption DEF CallSigmask, CallType, Op
    <2> QED BY <1>0, <1>3, <2>1, TypeSame DEF CallSigmask
  <1>4. ASSUME NEW m \in Masks, CallSuspend(m) \/ CallPpoll(m) PROVE TypeOK'
    <2>1. SleepMask(m) \subseteq Sig
      BY SignalAssumption DEF SleepMask, GuestType
    <2>2. /\ op' \in {"suspend", "poll"} /\ cmask' = SleepMask(m) /\ gmask' = SleepMask(m)
          /\ hpc' = "service" /\ waited' = TRUE /\ saved' = gmask
          /\ UNCHANGED << kernelVars, queueVars, arg, act, how, old, ioVars,
                          gpc, number, action, held, stack, owed >>
      BY <1>4 DEF CallSuspend, CallPpoll
    <2>3. CallType'
      BY <2>1, <2>2 DEF CallType, Op
    <2>4. GuestType'
      BY <2>1, <2>2 DEF GuestType
    <2> QED BY <1>0, <2>2, <2>3, <2>4, TypeSame
  <1>5. CASE CallPoll
    <2>1. cmask' \subseteq Sig /\ gmask' \subseteq Sig
      BY <1>5 DEF CallPoll, SleepMask, GuestType, KernelType
    <2>2. CallType'
      BY <1>5, <2>1 DEF CallPoll, CallType, Op
    <2>3. GuestType'
      BY <1>5, <2>1 DEF CallPoll, GuestType
    <2> QED BY <1>0, <1>5, <2>2, <2>3, TypeSame DEF CallPoll
  <1> QED BY <1>1, <1>2, <1>3, <1>4, <1>5 DEF Calls

LEMMA TypeHandlers ==
  ASSUME TypeOK, Handlers PROVE TypeOK'
  <1> USE DEF TypeOK
  <1>0. stack \in Seq(HandlerFrame)
    BY DEF GuestType
  <1>1. ASSUME NEW s \in Sig, Dispatch(s) PROVE TypeOK'
    <2>0. action[s] \in Action
      BY DEF GuestType
    <2>1. QueueType'
      BY <1>1 DEF Dispatch, QueueType
    <2>2. s + 1 \in Nat
      BY DEF Sig
    <2>3. CASE action[s].h # "fn"
      <3>1. GuestType'
        BY <1>1, <2>2, <2>3 DEF Dispatch, GuestType
      <3> QED BY <1>1, <2>1, <3>1, TypeSame DEF Dispatch
    <2>4. CASE action[s].h = "fn"
      <3> DEFINE f == [sig |-> s, guard |-> Promised(s, action[s]), prev |-> held,
                       waited |-> waited, saved |-> saved]
      <3>1. f \in HandlerFrame
        BY <2>0, GuardType DEF HandlerFrame, GuestType
      <3>2. stack' \in Seq(HandlerFrame)
        <4>1. stack' = Append(stack, f)
          BY <1>1, <2>4 DEF Dispatch
        <4> HIDE DEF f
        <4> QED BY ONLY <1>0, <3>1, <4>1, StackPush
      <3>3. held' \subseteq Sig
        BY <1>1, <2>0, <2>4, GuardType DEF Dispatch, GuestType
      <3>4. action' \in [Sig -> Action]
        BY <1>1, <2>0, <2>4, GuardType DEF Dispatch, GuestType
      <3>5. gpc' = "run" /\ waited' = FALSE /\ saved' = {} /\ number' \in Nat /\ UNCHANGED gmask
        BY <1>1, <2>4 DEF Dispatch
      <3>6. GuestType'
        BY Zenon, <3>2, <3>3, <3>4, <3>5 DEF GuestType
      <3> QED BY <1>1, <2>1, <3>6, TypeSame DEF Dispatch
    <2> QED BY <2>3, <2>4
  <1>2. CASE Return
    <2>1. number' \in Nat /\ gmask' \subseteq Sig /\ saved' \subseteq Sig
      BY <1>2 DEF Return, GuestType
    <2>2. GuestType'
      BY Zenon, <1>2, <2>1 DEF Return, GuestType
    <2> QED BY <1>2, <2>2, TypeSame DEF Return
  <1>3. CASE HandlerReturn
    <2>1. Len(stack) \in Nat /\ Len(stack) > 0
      BY <1>0, <1>3 DEF HandlerReturn
    <2>2. Top \in HandlerFrame
      BY <1>0, <2>1 DEF Top
    <2>3. stack' \in Seq(HandlerFrame)
      BY <1>0, <1>3, <2>1, StackPrefix DEF HandlerReturn
    <2>4. number' \in Nat /\ held' \subseteq Sig /\ waited' \in BOOLEAN /\ saved' \subseteq Sig
      BY SMTT(40), <1>3, <2>2 DEF HandlerReturn, HandlerFrame, Sig
    <2>5. GuestType'
      BY <1>3, <2>3, <2>4 DEF HandlerReturn, GuestType
    <2> QED BY <1>3, <2>5, TypeSame DEF HandlerReturn
  <1>4. ASSUME NEW d \in 0 .. MaxDepth, Longjmp(d) PROVE TypeOK'
    <2>1. d \in 0 .. Len(stack)
      BY <1>0, <1>4 DEF Longjmp
    <2>2. stack' \in Seq(HandlerFrame)
      BY <1>0, <1>4, <2>1, StackPrefix DEF Longjmp
    <2>3. GuestType'
      BY <1>4, <2>2 DEF Longjmp, GuestType
    <2> QED BY <1>4, <2>3, TypeSame DEF Longjmp
  <1> QED BY <1>1, <1>2, <1>3, <1>4 DEF Handlers

LEMMA TypeStep == TypeOK /\ [Next]_vars => TypeOK'
  <1> SUFFICES ASSUME TypeOK, [Next]_vars PROVE TypeOK'
    OBVIOUS
  <1>1. CASE UNCHANGED vars
    BY <1>1, TypeSame DEF TypeOK, vars
  <1> QED
    BY <1>1, TypeKernel, TypeService, TypeTransfer, TypeContinue, TypeCalls, TypeHandlers
    DEF Next, Ended

LEMMA TypeInit == Init => TypeOK
  <1> SUFFICES ASSUME Init PROVE TypeOK
    OBVIOUS
  <1>1. number \in Nat /\ sends \in Nat /\ arg \in 0 .. N /\ (op = "sigaction" => arg \in Sig)
    BY SignalAssumption DEF Init
  <1>2. Default \in Action
    BY DEF Default, Action
  <1>3. KernelType
    BY <1>1 DEF Init, KernelType
  <1>4. QueueType /\ IoType /\ hpc \in LoaderPc
    BY Zenon DEF Init, QueueType, IoType, LoaderPc
  <1>5. CallType
    BY <1>1, <1>2 DEF Init, CallType, Op
  <1>6. stack \in Seq(HandlerFrame) /\ action \in [Sig -> Action]
    BY <1>2 DEF Init
  <1>7. GuestType
    BY ZenonT(40), <1>1, <1>6 DEF Init, GuestType
  <1> QED BY <1>3, <1>4, <1>5, <1>7 DEF TypeOK

\* Types are kept by every step of Linux, the loader and the guest.
THEOREM TypeCorrect == Spec => []TypeOK
  BY TypeInit, TypeStep, PTL DEF Spec
-----------------------------------------------------------------------------
(* The queue and the calls that sleep.                                     *)

\* NoSleepOnQueued is not inductive: a call sleeps some steps after it has looked at
\* the queue.  Between the look and the system call either the queue holds nothing
\* that the mask lets through, or the flag is up that the next step tests.
QueueInv ==
  /\ hpc = "asleep" => op \in {"suspend", "poll", "read", "wait"}
  /\ hpc = "waking" => op \in Sleeps
  /\ hpc \in {"window", "entry", "moved", "cancel"} => op = "read"
  /\ hpc = "asleep" /\ op \in Sleeps => pending \cup published \subseteq cmask
  /\ hpc = "asleep" /\ op = "read" => pending \cup published \subseteq nmask
  /\ hpc = "entry" => pending \cup published \subseteq nmask
  /\ hpc = "window" /\ ~interrupted => pending \cup published \subseteq nmask

\* The kernel has moved data exactly when the transfer got past its system call.
TransferInv ==
  /\ op = "read" /\ hpc \in {"window", "entry", "asleep", "cancel"} => ~moved
  /\ hpc = "moved" => moved
  /\ TransferKept

LEMMA QueueDeliver ==
  ASSUME TypeOK, QueueInv, TransferInv, NEW s \in Sig, Send(s) \/ Deliver(s)
  PROVE  QueueInv' /\ TransferInv'
  <1>1. CASE Send(s)
    BY SMTT(40), <1>1 DEF Send, QueueInv, TransferInv, TransferKept, Sleeps, kernelVars, queueVars, callVars,
                ioVars, guestVars
  <1>2. CASE Deliver(s) /\ native[s] # "record"
    BY <1>2 DEF Deliver, QueueInv, TransferInv, TransferKept, Sleeps, callVars, guestVars
  <1>3. CASE Deliver(s) /\ native[s] = "record"
    <2> USE <1>3 DEF callVars
    <2>1. /\ hpc' \in AfterSignal(hpc) /\ pending' = pending \cup {s} /\ s \notin InForce
          /\ UNCHANGED << op, cmask, nmask, published, moved, result >>
          /\ interrupted' = (interrupted \/ hpc \in {"window", "entry", "asleep", "moved"})
      BY DEF Deliver
    <2>2. CASE hpc = "window"
      BY ZenonT(40), <2>1, <2>2 DEF AfterSignal, Redirected, QueueInv, TransferInv, TransferKept
    <2>3. CASE hpc = "asleep"
      BY <2>1, <2>3 DEF AfterSignal, Redirected, QueueInv, TransferInv, TransferKept, Sleeps
    <2>4. CASE hpc \notin {"window", "asleep"}
      BY <2>1, <2>4 DEF AfterSignal, Redirected, QueueInv, TransferInv, TransferKept, Sleeps
    <2> QED BY SMTT(40), <2>2, <2>3, <2>4
  <1> QED BY <1>1, <1>2, <1>3

LEMMA QueueLoader ==
  ASSUME TypeOK, QueueInv, TransferInv,
         Service \/ Transfer \/ TransferMove \/ Wake \/ WaitEnd \/ Continue \/ Preempt
  PROVE  QueueInv' /\ TransferInv'
  <1> USE DEF QueueInv, TransferInv, TransferKept, Sleeps, kernelVars, queueVars, callVars, ioVars,
              guestVars, Publish, At
  <1>1. CASE ServiceSigaction BY <1>1 DEF ServiceSigaction
  <1>2. CASE ServiceSigmask BY SMTT(40), <1>2 DEF ServiceSigmask
  <1>3. CASE ServiceSleep BY <1>3 DEF ServiceSleep
  <1>4. CASE ServiceWait BY SMTT(40), <1>4 DEF ServiceWait
  <1>5. CASE ServiceOther BY <1>5 DEF ServiceOther
  <1>6. CASE ForkParent BY <1>6 DEF ForkParent
  <1>7. CASE ForkChild BY <1>7 DEF ForkChild
  <1>8. CASE ForkClear BY SMTT(40), <1>8 DEF ForkClear
  <1>9. CASE TransferCheck BY <1>9 DEF TransferCheck
  <1>10. CASE TransferTest BY SMTT(40), <1>10 DEF TransferTest
  <1>11. CASE TransferEnter BY <1>11 DEF TransferEnter
  <1>12. CASE TransferEnd BY SMTT(40), <1>12 DEF TransferEnd
  <1>13. CASE TransferMove BY SMTT(40), <1>13 DEF TransferMove
  <1>14. CASE Wake BY SMTT(40), <1>14 DEF Wake
  <1>15. CASE WaitEnd BY SMTT(40), <1>15 DEF WaitEnd
  <1>16. CASE Continue BY SMTT(40), <1>16 DEF Continue
  <1>17. CASE Preempt BY SMTT(40), <1>17 DEF Preempt
  <1> QED BY Zenon, <1>1, <1>2, <1>3, <1>4, <1>5, <1>6, <1>7, <1>8, <1>9, <1>10, <1>11, <1>12, <1>13,
             <1>14, <1>15, <1>16, <1>17 DEF Service, Transfer

LEMMA QueueGuest ==
  ASSUME TypeOK, QueueInv, TransferInv, Calls \/ Handlers
  PROVE  QueueInv' /\ TransferInv'
  <1> USE DEF QueueInv, TransferInv, TransferKept
  <1>1. CASE Calls
    <2>1. ASSUME NEW o \in Op, Call(o) PROVE hpc' = "service"
      BY <2>1 DEF Call
    <2>2. ASSUME NEW s \in Sig, NEW a \in Actions, CallSigaction(s, a) PROVE hpc' = "service"
      BY <2>2 DEF CallSigaction
    <2>3. ASSUME NEW h \in {"set", "block", "unblock"}, NEW m \in Masks, CallSigmask(h, m)
          PROVE  hpc' = "service"
      BY <2>3 DEF CallSigmask
    <2>4. ASSUME NEW m \in Masks, CallSuspend(m) \/ CallPpoll(m) PROVE hpc' = "service"
      BY <2>4 DEF CallSuspend, CallPpoll
    <2>5. CallPoll => hpc' = "service"
      BY DEF CallPoll
    <2>6. hpc' = "service"
      BY SMTT(40), <1>1, <2>1, <2>2, <2>3, <2>4, <2>5 DEF Calls
    <2> QED BY <2>6
  <1>2. CASE Handlers
    <2>1. ASSUME NEW s \in Sig, Dispatch(s) PROVE hpc' = "guest"
      BY SMTT(40), <2>1 DEF Dispatch, Polling
    <2>2. Return \/ HandlerReturn => hpc' = "guest"
      BY DEF Return, HandlerReturn, Polling, Running
    <2>3. ASSUME NEW d \in 0 .. MaxDepth, Longjmp(d) PROVE hpc' = "guest"
      BY <2>3 DEF Longjmp, Running
    <2>4. CASE hpc' = "guest"
      BY <2>4
    <2> QED BY SMTT(40), <1>2, <2>1, <2>2, <2>3, <2>4 DEF Handlers
  <1> QED BY <1>1, <1>2

LEMMA QueueStep == TypeOK /\ QueueInv /\ TransferInv /\ [Next]_vars => QueueInv' /\ TransferInv'
  <1> SUFFICES ASSUME TypeOK, QueueInv, TransferInv, [Next]_vars PROVE QueueInv' /\ TransferInv'
    BY SMTT(40)
  <1>1. CASE UNCHANGED vars
    BY <1>1 DEF QueueInv, TransferInv, TransferKept, vars, kernelVars, queueVars, callVars, ioVars
  <1> QED
    BY <1>1, QueueDeliver, QueueLoader, QueueGuest DEF Next, Ended

LEMMA QueueInit == Init => QueueInv /\ TransferInv
  BY DEF Init, QueueInv, TransferInv, TransferKept

LEMMA QueueAlways == Spec => [](TypeOK /\ QueueInv /\ TransferInv)
  BY TypeInit, TypeStep, QueueInit, QueueStep, PTL DEF Spec

\* No lost wake-up, for any masks, dispositions and program of the guest: the window
\* between the look at the queue and the sleep is closed in all four kinds of call.
THEOREM NoLostWakeup == Spec => []NoSleepOnQueued
  <1>1. QueueInv => NoSleepOnQueued
    BY DEF QueueInv, NoSleepOnQueued, InForce, Sleeps
  <1> QED BY <1>1, QueueAlways, PTL

\* "completed and partial transfers" are preserved, and EINTR means nothing was moved.
THEOREM TransfersKept == Spec => []TransferKept
  <1>1. TransferInv => TransferKept
    BY DEF TransferInv
  <1> QED BY <1>1, QueueAlways, PTL
-----------------------------------------------------------------------------
(* The guard of running handlers, when longjmp leads out of all of them.   *)

Guards(st, k) == UNION {st[i].guard : i \in 1 .. k}

\* HeldExactly is inductive only with what each handler found in dispatch_blocked
\* when it was called: that is what it puts back.
HeldInv ==
  /\ held = Guards(stack, Len(stack))
  /\ \A i \in 1 .. Len(stack) : stack[i].prev = Guards(stack, i - 1)
  /\ NotReentered

LEMMA GuardsSame ==
  ASSUME NEW a, NEW b, NEW k \in Nat, \A i \in 1 .. k : a[i] = b[i]
  PROVE  Guards(a, k) = Guards(b, k)
  BY DEF Guards

LEMMA GuardsNext ==
  ASSUME NEW a, NEW k \in Nat
  PROVE  Guards(a, k + 1) = Guards(a, k) \cup a[k + 1].guard
  <1>1. 1 .. k + 1 = (1 .. k) \cup {k + 1}
    OBVIOUS
  <1> QED BY <1>1 DEF Guards

LEMMA HeldDispatch ==
  ASSUME TypeOK, HeldInv, NEW s \in Sig, Dispatch(s)
  PROVE  HeldInv'
  <1>0. stack \in Seq(HandlerFrame) /\ action[s] \in Action /\ held \subseteq Sig
        /\ waited \in BOOLEAN /\ saved \subseteq Sig
    BY SMTT(40) DEF TypeOK, GuestType
  <1>1. CASE action[s].h # "fn"
    <2>1. UNCHANGED << held, stack >>
      BY <1>1 DEF Dispatch
    <2> QED BY SMTT(40), <2>1 DEF HeldInv, NotReentered
  <1>2. CASE action[s].h = "fn"
    <2> DEFINE k == Len(stack)
               f == [sig |-> s, guard |-> Promised(s, action[s]), prev |-> held,
                     waited |-> waited, saved |-> saved]
    <2>0. k \in Nat
      BY <1>0
    <2>1. f \in HandlerFrame
      BY <1>0, GuardType DEF HandlerFrame
    <2>2. stack' = Append(stack, f) /\ held' = held \cup Guard(s, action[s]) /\ s \notin held
      <3>1. stack' = Append(stack, f) /\ held' = held \cup Guard(s, action[s])
        BY SMTT(40), <1>2 DEF Dispatch
      <3>2. s \notin held
        BY DEF Dispatch, Dispatchable
      <3> QED BY ONLY <3>1, <3>2
    <2>3. /\ Len(stack') = k + 1 /\ stack' \in Seq(HandlerFrame)
          /\ \A i \in 1 .. k : stack'[i] = stack[i]
          /\ stack'[k + 1] = f
      <3>1. stack' = Append(stack, f)
        BY <2>2
      <3> HIDE DEF f
      <3> QED BY <1>0, <2>1, <3>1, StackPush
    <2> HIDE DEF k, f
    <2>4. Guards(stack', k) = Guards(stack, k)
      BY SMTT(40), <2>0, <2>3, GuardsSame
    <2>5. f.guard = Guard(s, action[s]) /\ f.prev = held /\ f.sig = s
      BY <1>0, GuardType DEF f
    <2>6. held = Guards(stack, k)
      BY SMTT(40) DEF HeldInv, k
    <2>7. held' = Guards(stack', k + 1)
      <3>1. Guards(stack', k + 1) = Guards(stack', k) \cup stack'[k + 1].guard
        <4> HIDE DEF Guards
        <4> QED BY Zenon, <2>0, GuardsNext
      <3>2. stack'[k + 1].guard = Guard(s, action[s])
        BY Zenon, <2>3, <2>5
      <3>3. held' = held \cup Guard(s, action[s])
        BY <2>2
      <3> QED BY ONLY <2>4, <2>6, <3>1, <3>2, <3>3
    <2>8. ASSUME NEW i \in 1 .. (k + 1) PROVE stack'[i].prev = Guards(stack', i - 1)
      <3>1. CASE i = k + 1
        BY ONLY <2>0, <2>3, <2>4, <2>5, <2>6, <3>1
      <3>2. CASE i \in 1 .. k
        <4>1. stack[i].prev = Guards(stack, i - 1)
          BY <3>2 DEF HeldInv, k
        <4>2. i - 1 \in Nat /\ \A j \in 1 .. (i - 1) : stack'[j] = stack[j]
          BY <2>0, <2>3, <3>2
        <4>3. Guards(stack', i - 1) = Guards(stack, i - 1)
          BY <4>2, GuardsSame
        <4> QED BY <2>3, <3>2, <4>1, <4>3
      <3> QED BY <2>0, <3>1, <3>2
    <2>9. NotReentered'
      <3>1. DOMAIN stack' = 1 .. (k + 1) /\ DOMAIN stack = 1 .. k
        BY <1>0, <2>3 DEF k
      <3> SUFFICES ASSUME NEW i \in 1 .. (k + 1), NEW j \in 1 .. (k + 1), i < j
                   PROVE  stack'[j].sig \notin stack'[i].guard
        BY <3>1 DEF NotReentered
      <3>2. i \in 1 .. k
        BY ONLY <2>0, i \in 1 .. (k + 1), j \in 1 .. (k + 1), i < j
      <3>3. CASE j = k + 1
        <4>1. stack[i].guard \subseteq held
          BY ONLY <2>6, <3>2 DEF Guards
        <4> QED BY ONLY <2>2, <2>3, <2>5, <3>2, <3>3, <4>1
      <3>4. CASE j \in 1 .. k
        BY SMTT(40), <2>3, <3>1, <3>2, <3>4 DEF HeldInv, NotReentered
      <3> QED BY <2>0, <3>3, <3>4
    <2> QED BY <2>3, <2>7, <2>8, <2>9 DEF HeldInv
  <1> QED BY <1>1, <1>2

LEMMA HeldReturn ==
  ASSUME TypeOK, HeldInv, HandlerReturn
  PROVE  HeldInv'
  <1> DEFINE k == Len(stack) - 1
  <1>0. stack \in Seq(HandlerFrame)
    BY DEF TypeOK, GuestType
  <1>1. k \in Nat /\ k \in 0 .. Len(stack) /\ Len(stack) = k + 1
    BY <1>0 DEF HandlerReturn
  <1>2. stack' = SubSeq(stack, 1, k) /\ held' = stack[k + 1].prev
    BY <1>1 DEF HandlerReturn, Top
  <1>3. Len(stack') = k /\ stack' \in Seq(HandlerFrame) /\ \A i \in 1 .. k : stack'[i] = stack[i]
    BY SMTT(40), <1>0, <1>1, <1>2, StackPrefix
  <1> HIDE DEF k
  <1>4. held' = Guards(stack, k)
    BY <1>1, <1>2 DEF HeldInv
  <1>5. Guards(stack', k) = Guards(stack, k)
    BY <1>1, <1>3, GuardsSame
  <1>6. ASSUME NEW i \in 1 .. k PROVE stack'[i].prev = Guards(stack', i - 1)
    <2>0. i \in 1 .. Len(stack)
      BY <1>1
    <2>1. stack[i].prev = Guards(stack, i - 1)
      BY <2>0 DEF HeldInv
    <2>2. i - 1 \in Nat /\ \A j \in 1 .. (i - 1) : stack'[j] = stack[j]
      BY <1>1, <1>3
    <2>3. Guards(stack', i - 1) = Guards(stack, i - 1)
      BY <2>2, GuardsSame
    <2> QED BY <1>3, <2>1, <2>3
  <1>7. NotReentered'
    <2>1. DOMAIN stack' = 1 .. k /\ DOMAIN stack = 1 .. (k + 1)
      BY <1>0, <1>1, <1>3
    <2> SUFFICES ASSUME NEW i \in 1 .. k, NEW j \in 1 .. k, i < j
                 PROVE  stack'[j].sig \notin stack'[i].guard
      BY <2>1 DEF NotReentered
    <2>2. i \in DOMAIN stack /\ j \in DOMAIN stack
      BY <1>1, <2>1
    <2>3. stack[j].sig \notin stack[i].guard
      BY <2>2, Zenon DEF HeldInv, NotReentered
    <2> QED BY <1>3, <2>3
  <1> QED BY <1>3, <1>4, <1>5, <1>6, <1>7 DEF HeldInv

LEMMA HeldLongjmp ==
  ASSUME TypeOK, Jumps \subseteq {"main"}, NEW d \in 0 .. MaxDepth, Longjmp(d)
  PROVE  HeldInv'
  <1>1. d = 0 /\ held' = {}
    BY DEF Longjmp
  <1>2. stack' = << >>
    BY <1>1 DEF Longjmp, TypeOK, GuestType
  <1>3. Len(stack') = 0 /\ DOMAIN stack' = {}
    BY <1>2
  <1> QED BY <1>1, <1>3 DEF HeldInv, NotReentered, Guards

\* Only handlers that begin or end touch dispatch_blocked and the stack of handlers.
LEMMA HandlersAlone ==
  [Next]_vars => Handlers \/ UNCHANGED << held, stack >>
  <1> SUFFICES ASSUME [Next]_vars PROVE Handlers \/ UNCHANGED << held, stack >>
    OBVIOUS
  <1> USE DEF guestVars
  <1>1. ASSUME NEW s \in Sig, Send(s) PROVE UNCHANGED << held, stack >>
    BY <1>1 DEF Send
  <1>2. ASSUME NEW s \in Sig, Deliver(s) PROVE UNCHANGED << held, stack >>
    BY <1>2 DEF Deliver
  <1>3. CASE ServiceSigaction BY <1>3 DEF ServiceSigaction
  <1>4. CASE ServiceSigmask BY <1>4 DEF ServiceSigmask
  <1>5. CASE ServiceSleep BY <1>5 DEF ServiceSleep
  <1>6. CASE ServiceWait BY <1>6 DEF ServiceWait
  <1>7. CASE ServiceOther BY <1>7 DEF ServiceOther
  <1>8. CASE ForkParent BY <1>8 DEF ForkParent
  <1>9. CASE ForkChild BY <1>9 DEF ForkChild
  <1>10. CASE ForkClear BY <1>10 DEF ForkClear
  <1>11. CASE TransferCheck BY <1>11 DEF TransferCheck
  <1>12. CASE TransferTest BY <1>12 DEF TransferTest
  <1>13. CASE TransferEnter BY <1>13 DEF TransferEnter
  <1>14. CASE TransferEnd BY <1>14 DEF TransferEnd
  <1>15. CASE TransferMove BY <1>15 DEF TransferMove
  <1>16. CASE Wake BY <1>16 DEF Wake
  <1>17. CASE WaitEnd BY <1>17 DEF WaitEnd
  <1>18. CASE Continue BY <1>18 DEF Continue
  <1>19. CASE Preempt BY <1>19 DEF Preempt
  <1>20. CASE Calls
    <2>1. ASSUME NEW o \in Op, Call(o) PROVE UNCHANGED << held, stack >>
      BY <2>1 DEF Call
    <2>2. ASSUME NEW s \in Sig, NEW a \in Actions, CallSigaction(s, a)
          PROVE  UNCHANGED << held, stack >>
      BY <2>2 DEF CallSigaction
    <2>3. ASSUME NEW h \in {"set", "block", "unblock"}, NEW m \in Masks, CallSigmask(h, m)
          PROVE  UNCHANGED << held, stack >>
      BY <2>3 DEF CallSigmask
    <2>4. ASSUME NEW m \in Masks, CallSuspend(m) \/ CallPpoll(m)
          PROVE  UNCHANGED << held, stack >>
      BY <2>4 DEF CallSuspend, CallPpoll
    <2>5. CASE CallPoll BY <2>5 DEF CallPoll
    <2> QED BY <1>20, <2>1, <2>2, <2>3, <2>4, <2>5 DEF Calls
  <1>21. CASE UNCHANGED vars BY <1>21 DEF vars
  <1>22. CASE Service
    BY <1>3, <1>4, <1>5, <1>6, <1>7, <1>8, <1>9, <1>10, <1>22 DEF Service
  <1>23. CASE Transfer BY <1>11, <1>12, <1>13, <1>14, <1>23 DEF Transfer
  <1> QED BY SMTT(40), <1>1, <1>2, <1>15, <1>16, <1>17, <1>18, <1>19, <1>20, <1>21, <1>22, <1>23
          DEF Next, Ended

LEMMA HeldStep ==
  ASSUME Jumps \subseteq {"main"}
  PROVE  TypeOK /\ HeldInv /\ [Next]_vars => HeldInv'
  <1> SUFFICES ASSUME TypeOK, HeldInv, [Next]_vars PROVE HeldInv'
    BY SMTT(40)
  <1>1. CASE UNCHANGED << held, stack >>
    BY <1>1 DEF HeldInv, NotReentered
  <1>2. CASE Return BY <1>1, <1>2 DEF Return
  <1>3. CASE Handlers
    BY SMTT(40), <1>2, <1>3, HeldDispatch, HeldReturn, HeldLongjmp DEF Handlers
  <1> QED BY <1>1, <1>3, HandlersAlone

LEMMA HeldInit == Init => HeldInv
  <1> SUFFICES ASSUME Init PROVE HeldInv
    OBVIOUS
  <1>1. held = {} /\ Len(stack) = 0 /\ DOMAIN stack = {}
    BY DEF Init
  <1>2. Guards(stack, 0) = {}
    BY DEF Guards
  <1> QED BY <1>1, <1>2 DEF HeldInv, NotReentered

LEMMA HeldAlways ==
  ASSUME Jumps \subseteq {"main"}
  PROVE  Spec => [](TypeOK /\ HeldInv)
  BY TypeInit, TypeStep, HeldInit, HeldStep, PTL DEF Spec

\* While longjmp only leaves handlers for main, dispatch_blocked is exactly what the
\* running handlers hold, at any depth of nesting.
THEOREM HeldIsExact ==
  ASSUME Jumps \subseteq {"main"}
  PROVE  Spec => []HeldExactly
  <1>1. TypeOK /\ HeldInv => HeldExactly
    <2> SUFFICES ASSUME TypeOK, HeldInv PROVE HeldExactly
      OBVIOUS
    <2>1. DOMAIN stack = 1 .. Len(stack)
      BY DEF TypeOK, GuestType
    <2> QED BY <2>1 DEF HeldInv, HeldExactly, Guards
  <1> QED BY <1>1, HeldAlways, PTL

\* Under the same condition no handler is entered for a signal a running one holds.
THEOREM NeverReentered ==
  ASSUME Jumps \subseteq {"main"}
  PROVE  Spec => []NotReentered
  <1>1. HeldInv => NotReentered
    BY DEF HeldInv
  <1> QED BY <1>1, HeldAlways, PTL
-----------------------------------------------------------------------------
(* Nothing is lost.                                                        *)

LEMMA LostStep == TypeOK /\ QueueInv /\ NothingLost /\ [Next]_vars => NothingLost'
  <1> SUFFICES ASSUME TypeOK, QueueInv, NothingLost, [Next]_vars PROVE NothingLost'
    BY ZenonT(40)
  <1> USE DEF NothingLost
  <1>1. ASSUME NEW s \in Sig, Send(s) \/ Deliver(s) PROVE NothingLost'
    BY <1>1 DEF Send, Deliver, queueVars, callVars
  <1>2. CASE Service
    <2> USE DEF kernelVars, queueVars, callVars
    <2>1. CASE ForkParent \/ ForkChild \/ ForkClear
      BY <2>1 DEF ForkParent, ForkChild, ForkClear, At
    <2>2. CASE ServiceSleep BY <2>2 DEF ServiceSleep, Publish
    <2>3. CASE ServiceSigaction BY <2>3 DEF ServiceSigaction
    <2>4. CASE ServiceSigmask BY <2>4 DEF ServiceSigmask
    <2>5. CASE ServiceWait \/ ServiceOther BY <2>5 DEF ServiceWait, ServiceOther
    <2> QED BY SMTT(40), <1>2, <2>1, <2>2, <2>3, <2>4, <2>5 DEF Service
  <1>3. CASE Transfer
    <2> USE DEF Publish, queueVars, callVars
    <2>1. CASE TransferCheck BY <2>1 DEF TransferCheck
    <2>2. CASE TransferTest BY <2>2 DEF TransferTest
    <2>3. CASE TransferEnter BY <2>3 DEF TransferEnter
    <2>4. CASE TransferEnd BY <2>4 DEF TransferEnd
    <2> QED BY <1>3, <2>1, <2>2, <2>3, <2>4 DEF Transfer
  <1>4. CASE TransferMove \/ Wake \/ WaitEnd \/ Continue \/ Preempt
    <2> USE DEF Publish, queueVars, callVars
    <2>1. CASE TransferMove BY <2>1 DEF TransferMove
    <2>2. CASE Wake BY <2>2 DEF Wake
    <2>3. CASE WaitEnd BY <2>3 DEF WaitEnd
    <2>4. CASE Continue BY <2>4 DEF Continue
    <2>5. CASE Preempt BY <2>5 DEF Preempt
    <2> QED BY <1>4, <2>1, <2>2, <2>3, <2>4, <2>5
  <1>5. CASE Calls
    <2> USE DEF queueVars
    <2>1. ASSUME NEW o \in Op, Call(o) PROVE NothingLost'
      BY <2>1 DEF Call
    <2>2. ASSUME NEW s \in Sig, NEW a \in Actions, CallSigaction(s, a) PROVE NothingLost'
      BY <2>2 DEF CallSigaction
    <2>3. ASSUME NEW h \in {"set", "block", "unblock"}, NEW m \in Masks, CallSigmask(h, m)
          PROVE  NothingLost'
      BY SMTT(40), <2>3 DEF CallSigmask
    <2>4. ASSUME NEW m \in Masks, CallSuspend(m) \/ CallPpoll(m) PROVE NothingLost'
      BY <2>4 DEF CallSuspend, CallPpoll
    <2>5. CASE CallPoll BY <2>5 DEF CallPoll
    <2> QED BY SMTT(40), <1>5, <2>1, <2>2, <2>3, <2>4, <2>5 DEF Calls
  <1>6. CASE Handlers
    <2> USE DEF queueVars, callVars
    <2>1. ASSUME NEW s \in Sig, Dispatch(s) PROVE NothingLost'
      BY <2>1 DEF Dispatch
    <2>2. CASE Return BY <2>2 DEF Return
    <2>3. CASE HandlerReturn BY <2>3 DEF HandlerReturn
    <2>4. ASSUME NEW d \in 0 .. MaxDepth, Longjmp(d) PROVE NothingLost'
      BY <2>4 DEF Longjmp
    <2> QED BY SMTT(40), <1>6, <2>1, <2>2, <2>3, <2>4 DEF Handlers
  <1>7. CASE UNCHANGED vars
    BY <1>7 DEF vars, queueVars, callVars
  <1> QED BY <1>1, <1>2, <1>3, <1>4, <1>5, <1>6, <1>7 DEF Next, Ended

\* A recorded signal stays queued until the guest takes it up, through every
\* publication, sleep, transfer and nesting, and in a forked child from the moment its
\* Capsule has been rebuilt.
THEOREM NeverLost == Spec => []NothingLost
  <1>1. Init => NothingLost
    BY DEF Init, NothingLost
  <1> QED BY <1>1, LostStep, QueueAlways, PTL DEF Spec
-----------------------------------------------------------------------------
(* Dispositions, and what ends sigsuspend.                                 *)

\* DispositionsAgree speaks of a running guest.  Linux records a signal without a
\* guest's handler only between the two halves of the sigaction that installs one.
DispositionInv ==
  /\ \A s \in Sig : action[s].h = "dfl" /\ ~action[s].reset /\ native[s] = "record" =>
                      hpc = "respond" /\ op = "sigaction" /\ arg = s
  /\ hpc = "respond" /\ op = "sigaction" /\ act.h = "dfl" => native[arg] # "record"

\* SuspendHasCause speaks of the answer.  While sigsuspend is served the mask it
\* sleeps under is the guest's and covers what running handlers hold, and once
\* Linux has woken it a signal outside that mask is queued.
SuspendInv ==
  hpc # "guest" /\ op = "suspend" =>
    /\ cmask = gmask /\ held \subseteq cmask
    /\ hpc \in {"waking", "respond"} => ~(pending \cup published \subseteq cmask)

CauseInv == DispositionInv /\ SuspendInv

LEMMA CauseKernel ==
  ASSUME TypeOK, QueueInv, CauseInv, NEW s \in Sig, Send(s) \/ Deliver(s) PROVE CauseInv'
  <1>1. CASE Send(s) BY <1>1 DEF Send, CauseInv, DispositionInv, SuspendInv, queueVars, callVars, guestVars
  <1>2. CASE Deliver(s) /\ native[s] # "record"
    BY <1>2 DEF Deliver, CauseInv, DispositionInv, SuspendInv, callVars, guestVars
  <1>3. CASE Deliver(s) /\ native[s] = "record"
    <2>1. /\ hpc' \in AfterSignal(hpc) /\ pending' = pending \cup {s} /\ s \notin InForce
          /\ UNCHANGED << op, arg, act, cmask, action, gmask, held, published >>
          /\ native' = (IF nreset[s] THEN [native EXCEPT ![s] = "dfl"] ELSE native)
      BY <1>3 DEF Deliver, callVars, guestVars
    <2>2. \A t \in Sig : native'[t] = "record" => native[t] = "record"
      BY <2>1 DEF TypeOK, KernelType
    <2>3. hpc = "respond" => hpc' = "respond"
      BY <2>1 DEF AfterSignal, Redirected
    <2>4. hpc' = "respond" /\ op \in {"sigaction", "suspend"} => hpc = "respond"
      BY <2>1 DEF AfterSignal, Redirected, QueueInv, Sleeps
    <2>5. DispositionInv'
      BY <2>1, <2>2, <2>3, <2>4 DEF CauseInv, DispositionInv, TypeOK, CallType
    <2>6. SuspendInv'
      <3>1. hpc = "guest" => hpc' = "guest"
        BY <2>1 DEF AfterSignal, Redirected
      <3>2. hpc' = "waking" /\ op = "suspend" => hpc = "waking" \/ s \notin cmask
        BY <2>1 DEF AfterSignal, Redirected, InForce, Sleeps
      <3> QED BY <2>1, <2>4, <3>1, <3>2 DEF CauseInv, SuspendInv
    <2> QED BY <2>5, <2>6 DEF CauseInv
  <1> QED BY <1>1, <1>2, <1>3

LEMMA CauseLoader ==
  ASSUME TypeOK, QueueInv, CauseInv,
         Service \/ Transfer \/ TransferMove \/ Wake \/ WaitEnd \/ Continue \/ Preempt
  PROVE  CauseInv'
  <1> USE DEF CauseInv, DispositionInv, SuspendInv, kernelVars, queueVars, callVars, guestVars, At
  <1>1. CASE ServiceSigaction
    <2>1. arg \in Sig /\ native \in [Sig -> {"dfl", "ign", "record"}]
      BY <1>1 DEF ServiceSigaction, TypeOK, CallType, KernelType
    <2>2. /\ hpc = "service" /\ hpc' = "respond" /\ op = "sigaction" /\ native' = [native EXCEPT ![arg] = NativeMode(act)]
          /\ UNCHANGED << op, arg, act, action >>
      BY <1>1 DEF ServiceSigaction
    <2>3. act.h = "dfl" => native'[arg] # "record"
      BY <2>1, <2>2 DEF NativeMode
    <2>4. \A t \in Sig : t # arg => native'[t] = native[t]
      BY <2>1, <2>2
    <2> QED BY <2>2, <2>3, <2>4
  <1>2. CASE ServiceSigmask BY <1>2 DEF ServiceSigmask
  <1>3. CASE ServiceSleep BY <1>3 DEF ServiceSleep, Publish, Sleeps
  <1>4. CASE ServiceWait BY <1>4 DEF ServiceWait
  <1>5. CASE ServiceOther BY <1>5 DEF ServiceOther
  <1>6. CASE ForkParent BY <1>6 DEF ForkParent
  <1>7. CASE ForkChild BY <1>7 DEF ForkChild
  <1>8. CASE ForkClear BY <1>8 DEF ForkClear
  <1>9. CASE TransferCheck BY <1>9 DEF TransferCheck
  <1>10. CASE TransferTest BY <1>10 DEF TransferTest
  <1>11. CASE TransferEnter BY <1>11 DEF TransferEnter
  <1>12. CASE TransferEnd BY <1>12 DEF TransferEnd
  <1>13. CASE TransferMove BY <1>13 DEF TransferMove
  <1>14. CASE Wake BY <1>14 DEF Wake, Publish, Sleeps
  <1>15. CASE WaitEnd BY <1>15 DEF WaitEnd
  <1>16. CASE Continue
    <2>1. hpc = "respond" /\ hpc' = "guest" /\ UNCHANGED native
          /\ action' = (IF op = "sigaction" THEN [action EXCEPT ![arg] = act] ELSE action)
      BY <1>16 DEF Continue
    <2>2. CASE op = "sigaction"
      <3>1. arg \in Sig /\ action \in [Sig -> Action]
        BY <2>2 DEF TypeOK, CallType, GuestType
      <3>2. action'[arg] = act /\ \A t \in Sig : t # arg => action'[t] = action[t]
        BY <2>1, <2>2, <3>1
      <3> QED BY <2>1, <2>2, <3>1, <3>2
    <2>3. CASE op # "sigaction"
      BY <2>1, <2>3
    <2> QED BY <2>2, <2>3
  <1>17. CASE Preempt BY <1>17 DEF Preempt
  <1> QED BY Zenon, <1>1, <1>2, <1>3, <1>4, <1>5, <1>6, <1>7, <1>8, <1>9, <1>10, <1>11, <1>12, <1>13,
             <1>14, <1>15, <1>16, <1>17 DEF Service, Transfer

LEMMA CauseGuest ==
  ASSUME TypeOK, CauseInv, Calls \/ Handlers PROVE CauseInv'
  <1> USE DEF CauseInv, DispositionInv, SuspendInv, kernelVars, queueVars, callVars, MayCall, Running
  <1>1. ASSUME NEW o \in Op, Call(o) PROVE CauseInv'
    BY <1>1 DEF Call
  <1>2. ASSUME NEW s \in Sig, NEW a \in Actions, CallSigaction(s, a) PROVE CauseInv'
    BY <1>2 DEF CallSigaction, guestVars
  <1>3. ASSUME NEW h \in {"set", "block", "unblock"}, NEW m \in Masks, CallSigmask(h, m)
        PROVE  CauseInv'
    BY <1>3 DEF CallSigmask, guestVars
  <1>4. ASSUME NEW m \in Masks, CallSuspend(m) \/ CallPpoll(m) PROVE CauseInv'
    <2>1. /\ hpc = "guest" /\ hpc' = "service" /\ cmask' = SleepMask(m) /\ gmask' = SleepMask(m)
          /\ UNCHANGED << native, action, held >>
      <3>1. CASE CallSuspend(m) BY <3>1 DEF CallSuspend
      <3>2. CASE CallPpoll(m) BY <3>2 DEF CallPpoll
      <3> QED BY <1>4, <3>1, <3>2
    <2> QED BY SMTT(40), <2>1 DEF SleepMask
  <1>5. CASE CallPoll BY <1>5 DEF CallPoll
  <1>6. ASSUME NEW s \in Sig, Dispatch(s) PROVE CauseInv'
    <2>1. hpc = "guest" /\ hpc' = "guest" /\ UNCHANGED native
      BY <1>6 DEF Dispatch, Polling
    <2>2. \A t \in Sig : action'[t].h = "dfl" /\ ~action'[t].reset => action[t].h = "dfl" /\ ~action[t].reset
      <3>1. CASE action'[s] = action[s] /\ \A t \in Sig : t # s => action'[t] = action[t]
        BY <3>1
      <3>2. CASE action[s].reset /\ action' = [action EXCEPT ![s] = WithoutHandler(action[s])]
        <4>1. action \in [Sig -> Action]
          BY DEF TypeOK, GuestType
        <4>2. action'[s] = WithoutHandler(action[s]) /\ \A t \in Sig : t # s => action'[t] = action[t]
          BY <3>2, <4>1
        <4> QED BY <3>2, <4>2 DEF WithoutHandler
      <3>3. action' = action \/ (action[s].reset /\ action' = [action EXCEPT ![s] = WithoutHandler(action[s])])
        BY <1>6 DEF Dispatch
      <3> QED BY <3>1, <3>2, <3>3
    <2> QED BY <2>1, <2>2
  <1>7. CASE Return BY <1>7 DEF Return, Polling
  <1>8. CASE HandlerReturn BY <1>8 DEF HandlerReturn
  <1>9. ASSUME NEW d \in 0 .. MaxDepth, Longjmp(d) PROVE CauseInv'
    BY <1>9 DEF Longjmp
  <1> QED BY Zenon, <1>1, <1>2, <1>3, <1>4, <1>5, <1>6, <1>7, <1>8, <1>9 DEF Calls, Handlers

LEMMA CauseStep == TypeOK /\ QueueInv /\ CauseInv /\ [Next]_vars => CauseInv'
  <1> SUFFICES ASSUME TypeOK, QueueInv, CauseInv, [Next]_vars PROVE CauseInv'
    OBVIOUS
  <1>1. CASE UNCHANGED vars
    BY <1>1 DEF CauseInv, DispositionInv, SuspendInv, vars, kernelVars, queueVars, callVars, guestVars
  <1> QED
    BY <1>1, CauseKernel, CauseLoader, CauseGuest DEF Next, Ended

LEMMA CauseAlways == Spec => [](TypeOK /\ CauseInv)
  <1>1. Init => CauseInv
    BY DEF Init, CauseInv, DispositionInv, SuspendInv
  <1> QED BY <1>1, CauseStep, QueueAlways, PTL DEF Spec

\* While the guest runs, Linux records no signal whose handler it has taken away,
\* one-shot handlers excepted, for any dispositions and any order of signals and calls.
THEOREM DispositionsAlwaysAgree == Spec => []DispositionsAgree
  <1>1. TypeOK /\ CauseInv => DispositionsAgree
    BY DEF CauseInv, DispositionInv, DispositionsAgree
  <1> QED BY <1>1, CauseAlways, PTL

\* sigsuspend returns to the guest only for a signal that the guest can then dispatch.
THEOREM SuspendReturnsForCause == Spec => []SuspendHasCause
  <1>1. CauseInv => SuspendHasCause
    BY DEF CauseInv, SuspendInv, SuspendHasCause
  <1> QED BY <1>1, CauseAlways, PTL
=============================================================================
