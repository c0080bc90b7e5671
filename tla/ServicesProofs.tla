--------------------------- MODULE ServicesProofs ---------------------------
(***************************************************************************)
(* Proofs about Services and the checks it rests on, for every size of the *)
(* guest's regions and any nesting of handlers.                            *)
(***************************************************************************)
EXTENDS Services, SequenceTheorems, TLAPS

-----------------------------------------------------------------------------
(* Addresses. *)

LEMMA Constants ==
  /\ Space \in Nat /\ ArenaBase \in Nat /\ ArenaSize \in Nat /\ Guard \in Nat
  /\ ImageBase \in Nat /\ ImageSize \in Nat /\ StringMax \in Nat
  /\ Guard <= ArenaSize /\ ArenaBase + ArenaSize < Space /\ ImageBase + ImageSize < Space
  BY AccessAssumption

\* What available counts from an address on is the guest's, although the differences it
\* looks at wrap.
LEMMA AvailableIsOwned ==
  ASSUME NEW address \in 0 .. Last, NEW k \in Nat, k < available(address)
  PROVE  address + k \in Arena \cup Image
  <1>1. /\ Space \in Nat /\ ArenaBase \in Nat /\ ArenaSize \in Nat /\ Guard \in Nat
        /\ ImageBase \in Nat /\ ImageSize \in Nat /\ address \in Nat /\ address < Space
        /\ Guard <= ArenaSize /\ ArenaBase + ArenaSize < Space /\ ImageBase + ImageSize < Space
    BY Constants DEF Last
  <1>2. CASE address >= Plus(ArenaBase, Guard) /\ Minus(address, ArenaBase) < ArenaSize
    <2>1. Plus(ArenaBase, Guard) = ArenaBase + Guard
      BY <1>1 DEF Plus
    <2>2. Minus(address, ArenaBase) = address - ArenaBase
      BY <1>1, <1>2, <2>1 DEF Minus
    <2>3. available(address) = ArenaSize - (address - ArenaBase)
      BY <1>2, <2>2 DEF available
    <2>4. address + k \in ArenaBase + Guard .. ArenaBase + ArenaSize - 1
      BY <1>1, <1>2, <2>1, <2>3
    <2> QED BY <2>4 DEF Arena
  <1>3. CASE /\ ~(address >= Plus(ArenaBase, Guard) /\ Minus(address, ArenaBase) < ArenaSize)
             /\ ImageBase # 0 /\ address >= ImageBase /\ Minus(address, ImageBase) < ImageSize
    <2>1. Minus(address, ImageBase) = address - ImageBase
      BY <1>1, <1>3 DEF Minus
    <2>2. available(address) = ImageSize - (address - ImageBase)
      BY <1>3, <2>1 DEF available
    <2>3. address + k \in ImageBase .. ImageBase + ImageSize - 1
      BY <1>1, <1>3, <2>2
    <2> QED BY <1>3, <2>3 DEF Image
  <1>4. CASE /\ ~(address >= Plus(ArenaBase, Guard) /\ Minus(address, ArenaBase) < ArenaSize)
             /\ ~(ImageBase # 0 /\ address >= ImageBase /\ Minus(address, ImageBase) < ImageSize)
    <2>1. available(address) = 0
      BY <1>4 DEF available
    <2> QED BY <2>1
  <1> QED BY <1>2, <1>3, <1>4

LEMMA AvailableType ==
  ASSUME NEW address \in 0 .. Last
  PROVE  available(address) \in Nat
  BY Constants DEF available, Plus, Minus, Last

\* Every byte of a buffer that memory lets through is the guest's, and so is every byte of
\* a string that string lets through, up to a zero byte: no sum that wraps, no region that
\* ends short of the buffer and no guard page gets past the checks.
THEOREM CheckedIsOwned ==
  ASSUME NEW address \in 0 .. Last
  PROVE  /\ \A size \in Nat : memory(address, size) = OK => Owned(address, size)
         /\ string(address) = OK =>
              \E n \in 1 .. StringMax : Owned(address, n) /\ address + n - 1 \in Nul
  <1>0. available(address) \in Nat /\ StringMax \in Nat /\ address \in Nat /\ "EFAULT" # OK /\ "ENAMETOOLONG" # OK
    BY AvailableType, Constants DEF Last, OK
  <1>1. ASSUME NEW size \in Nat, memory(address, size) = OK PROVE Owned(address, size)
    <2>1. size <= available(address)
      BY <1>0, <1>1 DEF memory
    <2>2. ASSUME NEW k \in 0 .. size - 1 PROVE address + k \in Arena \cup Image
      <3>1. k \in Nat /\ k < available(address)
        BY <1>0, <2>1
      <3> QED BY <3>1, AvailableIsOwned
    <2> QED BY <2>2 DEF Owned
  <1>2. ASSUME string(address) = OK
        PROVE  \E n \in 1 .. StringMax : Owned(address, n) /\ address + n - 1 \in Nul
    <2> DEFINE left == IF available(address) > StringMax THEN StringMax ELSE available(address)
    <2>1. left \in Nat /\ left <= StringMax /\ left <= available(address)
      BY <1>0
    <2>2. \E k \in 0 .. left - 1 : address + k \in Nul
      BY <1>0, <1>2 DEF string
    <2> HIDE DEF left
    <2>3. PICK k \in 0 .. left - 1 : address + k \in Nul
      BY <2>2
    <2>4. k + 1 \in 1 .. StringMax /\ address + (k + 1) - 1 = address + k
      BY <1>0, <2>1
    <2>5. ASSUME NEW j \in 0 .. (k + 1) - 1 PROVE address + j \in Arena \cup Image
      <3>1. j \in Nat /\ j < available(address)
        BY <1>0, <2>1
      <3> QED BY <3>1, AvailableIsOwned
    <2>6. Owned(address, k + 1)
      BY <2>5 DEF Owned
    <2> QED BY <2>3, <2>4, <2>6
  <1> QED BY <1>1, <1>2
-----------------------------------------------------------------------------
(* The process's ids in the mailbox. *)

LEMMA CredentialsAnswer ==
  ASSUME CredentialsCurrent, NEW value, NEW error, Answer(value, error),
         ids' = ids \/ renamed' = TRUE \/ changes_credentials(control.operation),
         renamed' = renamed \/ renamed' = TRUE
  PROVE  CredentialsCurrent'
  <1>1. cached' = IF changes_credentials(control.operation) \/ Forks(control.operation, control.args)
                    THEN ids' ELSE cached
    BY DEF Answer
  <1> QED BY <1>1 DEF CredentialsCurrent

LEMMA CredentialsServe ==
  ASSUME CredentialsCurrent, NEW left, Serve(left)
  PROVE  CredentialsCurrent'
  <1>1. CASE Succeed(left)
    <2>1. \/ ids' = ids /\ renamed' = renamed
          \/ changes_credentials(control.operation) /\ renamed' = renamed
          \/ renamed' = TRUE
      BY <1>1 DEF Succeed, changes_credentials
    <2>2. Answer("done", left)
      BY <1>1 DEF Succeed
    <2> QED BY <2>1, <2>2, CredentialsAnswer
  <1>2. CASE Fail
    <2>1. PICK e \in Native : Answer("failed", e)
      BY <1>2 DEF Fail
    <2>2. ids' = ids /\ renamed' = renamed
      BY <1>2 DEF Fail
    <2> QED BY <2>1, <2>2, CredentialsAnswer
  <1>3. CASE network_addresses(left)
    <2>1. PICK value, error : Answer(value, error)
      BY <1>3 DEF network_addresses, CopyList
    <2>2. ids' = ids /\ renamed' = renamed
      BY <1>3 DEF network_addresses, CopyList
    <2> QED BY <2>1, <2>2, CredentialsAnswer
  <1>4. CASE CopyInterfaces(left)
    <2>1. PICK value, error : Answer(value, error)
      BY <1>4 DEF CopyInterfaces, CopyList
    <2>2. ids' = ids /\ renamed' = renamed
      BY <1>4 DEF CopyInterfaces, CopyList
    <2> QED BY <2>1, <2>2, CredentialsAnswer
  <1>5. CASE Unresolved(left)
    BY <1>5, CredentialsAnswer DEF Unresolved
  <1>6. CASE OpenStream(left)
    BY <1>6, CredentialsAnswer DEF OpenStream
  <1>7. CASE CloseStream(left)
    BY <1>7, CredentialsAnswer DEF CloseStream
  <1> QED BY <1>1, <1>2, <1>3, <1>4, <1>5, <1>6, <1>7 DEF Serve

\* getuid, geteuid, getgid and getegid read ids that are Linux's, through every sequence
\* of requests that change them, as long as no user namespace is entered.
THEOREM CredentialsAreCurrent == SvcSpec => []CredentialsCurrent
  <1>1. SvcInit => CredentialsCurrent
    BY DEF SvcInit, CredentialsCurrent
  <1>2. CredentialsCurrent /\ [SvcNext]_svcVars => CredentialsCurrent'
    <2> SUFFICES ASSUME CredentialsCurrent, [SvcNext]_svcVars PROVE CredentialsCurrent'
      OBVIOUS
    <2>1. CASE UNCHANGED << ids, cached, renamed >>
      BY <2>1 DEF CredentialsCurrent
    <2>2. ASSUME NEW op, NEW args, Call(op, args) PROVE CredentialsCurrent'
      BY <2>1, <2>2 DEF Call
    <2>3. ASSUME NEW op, CallWithoutMemory(op) PROVE CredentialsCurrent'
      BY <2>1, <2>3 DEF CallWithoutMemory
    <2>4. CASE service
      <3>1. PICK outcome : IF outcome.refused THEN Deny(outcome.errno) ELSE Serve(outcome.errno)
        BY <2>4 DEF service
      <3>2. CASE Deny(outcome.errno)
        BY <3>2, CredentialsAnswer DEF Deny
      <3> QED BY <3>1, <3>2, CredentialsServe
    <2>5. CASE Resume BY <2>1, <2>5 DEF Resume
    <2>6. CASE Return BY <2>1, <2>6 DEF Return
    <2>7. CASE Free BY <2>1, <2>7 DEF Free
    <2>8. CASE Preempted BY <2>1, <2>8 DEF Preempted
    <2>9. CASE Exit BY <2>1, <2>9 DEF Exit
    <2>10. CASE Stopped BY <2>1, <2>10 DEF Stopped
    <2>11. CASE UNCHANGED svcVars BY <2>1, <2>11 DEF svcVars
    <2> QED BY <2>2, <2>3, <2>4, <2>5, <2>6, <2>7, <2>8, <2>9, <2>10, <2>11 DEF SvcNext, Over
  <1> QED BY <1>1, <1>2, PTL DEF SvcSpec
-----------------------------------------------------------------------------
(* One mailbox for calls that nest. *)

\* Response and error are those of an answer.
From(response, error, truth) == response = truth.response /\ error = bridge_error(truth.error)

\* A call that returned, returned the answer to its own request, and the errno of it.
OwnAnswer ==
  last # Nothing => /\ last.response = last.truth.response
                    /\ last.truth.error # OK => last.errno = bridge_error(last.truth.error)

\* Only the innermost call can be waiting; what is in the mailbox is for it, and every
\* other call has copied its answer.
MailInv ==
  /\ \E S : stack \in Seq(S)
  /\ \A i \in 1 .. Len(stack) :
       /\ stack[i].state \in {"asked", "answered"}
       /\ i < Len(stack) => stack[i].state = "answered"
       /\ stack[i].state = "answered" => From(stack[i].response, stack[i].error, stack[i].truth)
  /\ stack # << >> /\ Top.state = "asked" /\ control.operation = NONE =>
       From(control.response, control.error, Top.truth)
  /\ control.operation # NONE => stack # << >> /\ Top.state = "asked"
  /\ OwnAnswer

LEMMA FrameFields ==
  ASSUME NEW op, NEW for, NEW state, NEW response, NEW error, NEW truth
  PROVE  LET f == Frame(op, for, state, response, error, truth)
         IN  f.op = op /\ f.state = state /\ f.response = response /\ f.error = error /\ f.truth = truth
  BY DEF Frame

\* A stack whose innermost call changes.
LEMMA Replaced ==
  ASSUME NEW S, stack \in Seq(S), stack # << >>, NEW f, stack' = [stack EXCEPT ![Len(stack)] = f]
  PROVE  /\ \E T : stack' \in Seq(T)
         /\ Len(stack') = Len(stack) /\ Len(stack) \in Nat /\ Len(stack) >= 1
         /\ stack'[Len(stack)] = f
         /\ \A i \in 1 .. Len(stack) : i # Len(stack) => stack'[i] = stack[i]
  <1>1. Len(stack) \in Nat /\ Len(stack) >= 1
    BY EmptySeq
  <1>2. stack \in Seq(S \cup {f}) /\ Len(stack) \in 1 .. Len(stack) /\ f \in S \cup {f}
    BY <1>1, SeqMonotonic
  <1>3. /\ stack' \in Seq(S \cup {f}) /\ Len(stack') = Len(stack)
        /\ \A j \in 1 .. Len(stack) : stack'[j] = IF j = Len(stack) THEN f ELSE stack[j]
    BY <1>2, ExceptSeq
  <1> QED BY <1>1, <1>2, <1>3

LEMMA MailAnswer ==
  ASSUME MailInv, control.operation # NONE, NEW value, NEW error, Answer(value, error)
  PROVE  MailInv'
  <1> DEFINE response == [to |-> Len(stack), value |-> value]
             truth == [response |-> response, error |-> error]
             f == Frame(Top.op, Top.for, Top.state, Top.response, Top.error, truth)
  <1>1. stack' = [stack EXCEPT ![Len(stack)] = f] /\ last' = last
    BY DEF Answer
  <1>2. PICK S : stack \in Seq(S)
    BY DEF MailInv
  <1>3. stack # << >> /\ Top.state = "asked"
    BY DEF MailInv
  <1>4. /\ f.state = "asked" /\ f.truth = truth
        /\ truth.response = response /\ truth.error = error
    BY <1>3, FrameFields
  <1>5. control'.operation = NONE /\ control'.response = response /\ control'.error = bridge_error(error)
    BY DEF Answer
  <1> HIDE DEF response, truth, f
  <1>6. /\ \E T : stack' \in Seq(T)
        /\ Len(stack') = Len(stack) /\ Len(stack) \in Nat /\ Len(stack) >= 1
        /\ stack'[Len(stack)] = f
        /\ \A i \in 1 .. Len(stack) : i # Len(stack) => stack'[i] = stack[i]
    BY <1>1, <1>2, <1>3, Replaced
  <1>7. Top' = f
    BY <1>6 DEF Top
  <1>8. \A i \in 1 .. Len(stack') :
          /\ stack'[i].state \in {"asked", "answered"}
          /\ i < Len(stack') => stack'[i].state = "answered"
          /\ stack'[i].state = "answered" => From(stack'[i].response, stack'[i].error, stack'[i].truth)
    BY <1>4, <1>6 DEF MailInv
  <1>9. OwnAnswer'
    BY <1>1 DEF MailInv, OwnAnswer
  <1> QED BY <1>4, <1>5, <1>6, <1>7, <1>8, <1>9 DEF MailInv, From

LEMMA MailService ==
  ASSUME MailInv, service
  PROVE  MailInv'
  <1>1. control.operation # NONE
    BY DEF service, Pending
  <1>2. PICK left : Deny(left) \/ Serve(left)
    BY DEF service
  <1>3. \E value, error : Answer(value, error)
    <2>1. CASE Deny(left) BY <2>1 DEF Deny
    <2>2. CASE Succeed(left) BY <2>2 DEF Succeed
    <2>3. CASE Fail BY <2>3 DEF Fail
    <2>4. CASE network_addresses(left) BY <2>4 DEF network_addresses, CopyList
    <2>5. CASE CopyInterfaces(left) BY <2>5 DEF CopyInterfaces, CopyList
    <2>6. CASE Unresolved(left) BY <2>6 DEF Unresolved
    <2>7. CASE OpenStream(left) BY <2>7 DEF OpenStream
    <2>8. CASE CloseStream(left) BY <2>8 DEF CloseStream
    <2> QED BY <1>2, <2>1, <2>2, <2>3, <2>4, <2>5, <2>6, <2>7, <2>8 DEF Serve
  <1> QED BY <1>1, <1>3, MailAnswer

LEMMA MailCall ==
  ASSUME MailInv, Asks, NEW op, op # NONE, NEW args, Call(op, args)
  PROVE  MailInv'
  <1> DEFINE f == Asked(op, "program")
  <1>1. control.operation = NONE /\ (stack # << >> => Top.state = "answered")
    BY DEF Asks
  <1>2. stack' = Append(stack, f) /\ last' = Nothing
    BY DEF Call
  <1>3. f.state = "asked" /\ control'.operation = op
    BY FrameFields DEF Call, Request, Asked
  <1> HIDE DEF f
  <1>4. PICK S : stack \in Seq(S)
    BY DEF MailInv
  <1>5. stack \in Seq(S \cup {f}) /\ f \in S \cup {f} /\ Len(stack) \in Nat
    BY <1>4, SeqMonotonic, LenProperties
  <1>6. /\ stack' \in Seq(S \cup {f}) /\ stack' # << >> /\ Len(stack') = Len(stack) + 1
        /\ \A i \in 1 .. Len(stack) : stack'[i] = stack[i]
        /\ stack'[Len(stack) + 1] = f
    BY <1>2, <1>5, AppendProperties
  <1>7. Top' = f
    BY <1>6 DEF Top
  <1>8. \A i \in 1 .. Len(stack) : stack[i].state = "answered"
    <2>1. Len(stack) >= 1 => Top.state = "answered"
      BY <1>1, EmptySeq
    <2> QED BY <1>5, <2>1 DEF MailInv, Top
  <1>9. \A i \in 1 .. Len(stack') :
          /\ stack'[i].state \in {"asked", "answered"}
          /\ i < Len(stack') => stack'[i].state = "answered"
          /\ stack'[i].state = "answered" => From(stack'[i].response, stack'[i].error, stack'[i].truth)
    <2> SUFFICES ASSUME NEW i \in 1 .. Len(stack')
                 PROVE  /\ stack'[i].state \in {"asked", "answered"}
                        /\ i < Len(stack') => stack'[i].state = "answered"
                        /\ stack'[i].state = "answered" =>
                             From(stack'[i].response, stack'[i].error, stack'[i].truth)
      OBVIOUS
    <2>1. CASE i \in 1 .. Len(stack)
      <3>1. stack'[i] = stack[i]
        BY <1>6, <2>1
      <3> QED BY <1>8, <2>1, <3>1 DEF MailInv
    <2>2. CASE i = Len(stack) + 1
      BY <1>3, <1>5, <1>6, <2>2
    <2> QED BY <1>5, <1>6, <2>1, <2>2
  <1>10. OwnAnswer'
    BY <1>2 DEF OwnAnswer
  <1> QED BY <1>3, <1>6, <1>7, <1>9, <1>10 DEF MailInv

LEMMA MailResume ==
  ASSUME MailInv, Resume
  PROVE  MailInv'
  <1> DEFINE f == Frame(Top.op, Top.for, "answered", control.response, control.error, Top.truth)
  <1>1. /\ stack' = [stack EXCEPT ![Len(stack)] = f] /\ stack # << >> /\ Top.state = "asked"
        /\ control' = control /\ control.operation = NONE /\ last' = last
    BY DEF Resume
  <1>2. f.state = "answered" /\ From(f.response, f.error, f.truth)
    BY <1>1, FrameFields DEF MailInv
  <1> HIDE DEF f
  <1>3. PICK S : stack \in Seq(S)
    BY DEF MailInv
  <1>4. /\ \E T : stack' \in Seq(T)
        /\ Len(stack') = Len(stack) /\ Len(stack) \in Nat /\ Len(stack) >= 1
        /\ stack'[Len(stack)] = f
        /\ \A i \in 1 .. Len(stack) : i # Len(stack) => stack'[i] = stack[i]
    BY <1>1, <1>3, Replaced
  <1>5. Top' = f
    BY <1>4 DEF Top
  <1>6. \A i \in 1 .. Len(stack') :
          /\ stack'[i].state \in {"asked", "answered"}
          /\ i < Len(stack') => stack'[i].state = "answered"
          /\ stack'[i].state = "answered" => From(stack'[i].response, stack'[i].error, stack'[i].truth)
    BY <1>2, <1>4 DEF MailInv
  <1>7. OwnAnswer'
    BY <1>1 DEF MailInv, OwnAnswer
  <1> QED BY <1>1, <1>2, <1>4, <1>5, <1>6, <1>7 DEF MailInv

LEMMA MailReturn ==
  ASSUME MailInv, Return
  PROVE  MailInv'
  <1>1. control.operation = NONE /\ stack # << >> /\ Top.state = "answered"
    BY DEF Return
  <1>2. PICK S : stack \in Seq(S)
    BY DEF MailInv
  <1>3. Len(stack) \in Nat /\ Len(stack) >= 1
    BY <1>1, <1>2, EmptySeq
  <1>4. From(Top.response, Top.error, Top.truth)
    BY <1>1, <1>3 DEF MailInv, Top
  <1>5. OwnAnswer'
    <2>1. errno' = IF Top.error # OK THEN Top.error ELSE errno
      BY DEF Return, Error
    <2>2. last' = [op |-> Top.op, response |-> Top.response, errno |-> errno', truth |-> Top.truth]
      BY DEF Return, Response
    <2>3. /\ last'.response = Top.response /\ last'.errno = errno' /\ last'.truth = Top.truth
      BY <2>2
    <2>4. Top.truth.error # OK => bridge_error(Top.truth.error) # OK
      BY DEF bridge_error, OK
    <2> QED BY <1>4, <2>1, <2>3, <2>4 DEF OwnAnswer, From
  <1>6. CASE stack' = SubSeq(stack, 1, Len(stack) - 1) /\ control' = control
    <2>1. \A i \in 1 .. Len(stack) - 1 : stack[i] \in S
      BY <1>2, <1>3, ElementOfSeq
    <2>2. /\ stack' \in Seq(S) /\ Len(stack') = Len(stack) - 1
          /\ \A i \in 1 .. Len(stack) - 1 : stack'[i] = stack[i]
      <3> DEFINE n == Len(stack) - 1
      <3>1. n \in Int /\ n \in Nat /\ 1 \in Int /\ (\A i \in 1 .. n : 1 + i - 1 = i) /\ n - 1 + 1 = n
        BY <1>3
      <3>2. \A i \in 1 .. n : stack[i] \in S
        BY <2>1
      <3> HIDE DEF n
      <3>3. /\ SubSeq(stack, 1, n) \in Seq(S)
            /\ Len(SubSeq(stack, 1, n)) = IF 1 <= n THEN n - 1 + 1 ELSE 0
            /\ \A i \in 1 .. n - 1 + 1 : SubSeq(stack, 1, n)[i] = stack[1 + i - 1]
        BY ONLY <3>1, <3>2, SubSeqProperties
      <3>4. Len(SubSeq(stack, 1, n)) = n /\ \A i \in 1 .. n : SubSeq(stack, 1, n)[i] = stack[i]
        BY <3>1, <3>3
      <3> QED BY <1>6, <3>3, <3>4 DEF n
    <2>3. \A i \in 1 .. Len(stack) - 1 : stack'[i].state = "answered"
      BY <1>3, <2>2 DEF MailInv
    <2>4. stack' # << >> => Top'.state = "answered"
      <3>1. stack' # << >> => Len(stack') \in 1 .. Len(stack) - 1
        BY <1>3, <2>2, EmptySeq
      <3> QED BY <2>2, <2>3, <3>1 DEF Top
    <2>5. \A i \in 1 .. Len(stack') :
            /\ stack'[i].state \in {"asked", "answered"}
            /\ i < Len(stack') => stack'[i].state = "answered"
            /\ stack'[i].state = "answered" => From(stack'[i].response, stack'[i].error, stack'[i].truth)
      BY <1>3, <2>2, <2>3 DEF MailInv
    <2> QED BY <1>1, <1>5, <1>6, <2>2, <2>4, <2>5 DEF MailInv
  <1>7. CASE /\ stack' = [stack EXCEPT ![Len(stack)] = Asked("CLOSEDIR", "library")]
             /\ control' = Request("CLOSEDIR", << TRUE >>)
    <2> DEFINE f == Asked("CLOSEDIR", "library")
    <2>1. f.state = "asked" /\ control'.operation # NONE
      BY <1>7, FrameFields DEF Asked, Request, NONE
    <2> HIDE DEF f
    <2>2. /\ \E T : stack' \in Seq(T)
          /\ Len(stack') = Len(stack)
          /\ stack'[Len(stack)] = f
          /\ \A i \in 1 .. Len(stack) : i # Len(stack) => stack'[i] = stack[i]
      BY <1>1, <1>2, <1>7, Replaced DEF f
    <2>3. Top' = f /\ stack' # << >>
      <3>1. Top' = f
        BY <2>2 DEF Top
      <3>2. Len(<< >>) = 0
        BY EmptySeq
      <3> QED BY <1>3, <2>2, <3>1, <3>2
    <2>4. \A i \in 1 .. Len(stack') :
            /\ stack'[i].state \in {"asked", "answered"}
            /\ i < Len(stack') => stack'[i].state = "answered"
            /\ stack'[i].state = "answered" => From(stack'[i].response, stack'[i].error, stack'[i].truth)
      BY <1>3, <2>1, <2>2 DEF MailInv
    <2> QED BY <1>5, <2>1, <2>2, <2>3, <2>4 DEF MailInv
  <1> QED BY <1>6, <1>7 DEF Return

\* Each call returns the answer to its own request and, if that was an error, sets errno
\* to its number on the bridge, however deep the handlers nest that use the mailbox
\* between the answer and the return.
THEOREM AnswersAreOwn == SvcSpec => []OwnAnswer
  <1>1. SvcInit => MailInv
    <2> SUFFICES ASSUME SvcInit PROVE MailInv
      OBVIOUS
    <2>1. stack = << >> /\ control = None /\ last = Nothing
      BY DEF SvcInit
    <2>2. << >> \in Seq({}) /\ Len(<< >>) = 0
      BY EmptySeq
    <2>3. control.operation = NONE
      BY <2>1 DEF None, Request
    <2> QED BY <2>1, <2>2, <2>3 DEF MailInv, OwnAnswer
  <1>2. MailInv /\ [SvcNext]_svcVars => MailInv'
    <2> SUFFICES ASSUME MailInv, [SvcNext]_svcVars PROVE MailInv'
      OBVIOUS
    <2>1. ASSUME UNCHANGED << control, stack >>, last' = last \/ last' = Nothing PROVE MailInv'
      BY <2>1 DEF MailInv, OwnAnswer, Top
    <2>2. ASSUME Asks, NEW op \in Candidates, NEW args, Call(op, args) PROVE MailInv'
      <3>1. op # NONE
        BY ServicesAssumption DEF Candidates, Stateful, NONE
      <3> QED BY <2>2, <3>1, MailCall
    <2>3. ASSUME NEW op, CallWithoutMemory(op) PROVE MailInv'
      BY <2>1, <2>3 DEF CallWithoutMemory
    <2>4. CASE service BY <2>4, MailService
    <2>5. CASE Resume BY <2>5, MailResume
    <2>6. CASE Return BY <2>6, MailReturn
    <2>7. CASE Free BY <2>1, <2>7 DEF Free
    <2>8. CASE Preempted BY <2>1, <2>8 DEF Preempted, Guest
    <2>9. CASE Exit BY <2>1, <2>9 DEF Exit, Guest
    <2>10. CASE Stopped BY <2>1, <2>10 DEF Stopped, Guest
    <2>11. CASE UNCHANGED svcVars BY <2>1, <2>11 DEF svcVars
    <2> QED BY <2>2, <2>3, <2>4, <2>5, <2>6, <2>7, <2>8, <2>9, <2>10, <2>11 DEF SvcNext, Over
  <1>3. MailInv => OwnAnswer
    BY DEF MailInv
  <1> QED BY <1>1, <1>2, <1>3, PTL DEF SvcSpec
=============================================================================
