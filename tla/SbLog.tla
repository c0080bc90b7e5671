------------------------------- MODULE SbLog -------------------------------
(***************************************************************************)
(* struct sb_log of sandbox_host.c: the ring in which the launcher keeps   *)
(* the end of QEMU's diagnostics (or of the guest's serial console) while  *)
(* it relays, and which it prints when the session failed.  QEMU writes    *)
(* into a pipe; the launcher drains it now and then, and a last time after *)
(* QEMU has been reaped.                                                   *)
(***************************************************************************)
EXTENDS Naturals, Sequences

CONSTANTS SB_LOG_TAIL,  \* bytes of the ring
          LogChunk,     \* SB_CHUNK: the largest read
          LogByte,      \* the values of a byte
          PipeSize,     \* what the kernel holds of an unread pipe
          Reads,        \* 64: reads of one log_drain
          Rounds,       \* 16: log_drain calls after QEMU is gone
          MaxWritten    \* bound: bytes QEMU writes

ASSUME LogAssumption ==
  /\ SB_LOG_TAIL \in Nat \ {0} /\ LogChunk \in Nat \ {0} /\ PipeSize \in Nat
  /\ Reads \in Nat \ {0} /\ Rounds \in Nat \ {0} /\ MaxWritten \in Nat
  /\ PipeSize < Rounds * Reads * LogChunk   \* 64 KiB against 8 MiB

VARIABLES log,      \* open, length, next, data
          pipe,     \* bytes written and not read
          writer,   \* "open" until every writer of the pipe is gone
          turn,     \* what the launcher does: reads left in this call, calls left
          written,  \* ghost: all that QEMU wrote
          printed   \* what log_print wrote; << >> before

logVars == << log, pipe, writer, turn, written, printed >>

Relaying == [at |-> "relay", reads |-> 0, rounds |-> 0]

LogInit ==
  /\ log = [open |-> TRUE, length |-> 0, next |-> 0, data |-> [i \in 0 .. SB_LOG_TAIL - 1 |-> 0]]
  /\ pipe = << >> /\ writer = "open" /\ turn = Relaying /\ written = << >> /\ printed = << >>

Least(a, b) == IF a < b THEN a ELSE b

\* One memcpy of the loop in log_keep: up to the end of the storage.
Part(l, s) == Least(SB_LOG_TAIL - l.next, Len(s))
\* Mutant: the position is not wrapped when a copy ends at the storage's end.
MutCopied(l, s) ==
  LET n == Part(l, s)
  IN [open |-> l.open, length |-> Least(l.length + n, SB_LOG_TAIL),
      next |-> IF l.next + n = SB_LOG_TAIL THEN l.next ELSE l.next + n,
      data |-> [i \in DOMAIN l.data |->
                  IF l.next <= i /\ i < l.next + n THEN s[i - l.next + 1] ELSE l.data[i]]]
Copied(l, s) ==
  LET n == Part(l, s)
  IN [open |-> l.open, length |-> Least(l.length + n, SB_LOG_TAIL),
      next |-> (l.next + n) % SB_LOG_TAIL,
      data |-> [i \in DOMAIN l.data |->
                  IF l.next <= i /\ i < l.next + n THEN s[i - l.next + 1] ELSE l.data[i]]]

\* Data shorter than the ring wraps at most once, so the loop runs at most twice.
log_keep(l, s) ==
  IF Len(s) >= SB_LOG_TAIL
    THEN [open |-> l.open, length |-> SB_LOG_TAIL, next |-> 0,
          data |-> [i \in 0 .. SB_LOG_TAIL - 1 |-> s[Len(s) - SB_LOG_TAIL + i + 1]]]
  ELSE IF Part(l, s) = Len(s) THEN Copied(l, s)
  ELSE Copied(Copied(l, s), SubSeq(s, Part(l, s) + 1, Len(s)))

\* What log_print writes, in one piece or in two.
log_print(l) ==
  IF l.length < SB_LOG_TAIL THEN [i \in 1 .. l.length |-> l.data[i - 1]]
  ELSE [i \in 1 .. SB_LOG_TAIL - l.next |-> l.data[l.next + i - 1]]
       \o [i \in 1 .. l.next |-> l.data[i - 1]]
-----------------------------------------------------------------------------
(* QEMU. *)

Write(b) ==
  /\ writer = "open" /\ Len(written) < MaxWritten /\ Len(pipe) < PipeSize
  /\ pipe' = Append(pipe, b) /\ written' = Append(written, b)
  /\ UNCHANGED << log, writer, turn, printed >>

\* QEMU ends by itself, or is killed and reaped: every writer is gone.
QemuGone ==
  /\ writer = "open" /\ writer' = "gone"
  /\ UNCHANGED << log, pipe, turn, written, printed >>
-----------------------------------------------------------------------------
(* The launcher. *)

\* The relay found the log readable and calls log_drain.
Readable ==
  /\ turn = Relaying /\ log.open /\ (pipe # << >> \/ writer = "gone")
  /\ turn' = [at |-> "drain", reads |-> Reads, rounds |-> 0]
  /\ UNCHANGED << log, pipe, writer, written, printed >>

\* The session is over and QEMU reaped: the last calls.
LastDrain ==
  /\ turn = Relaying /\ writer = "gone"
  /\ turn' = [at |-> "last", reads |-> Reads, rounds |-> Rounds]
  /\ UNCHANGED << log, pipe, writer, written, printed >>

Draining == turn.at \in {"drain", "last"} /\ log.open /\ turn.reads > 0

\* A read returns some of the bytes, up to a chunk.
Read ==
  /\ Draining /\ pipe # << >>
  /\ LET n == Least(LogChunk, Len(pipe))
     IN log' = log_keep(log, SubSeq(pipe, 1, n)) /\ pipe' = SubSeq(pipe, n + 1, Len(pipe))
  /\ turn' = [turn EXCEPT !.reads = @ - 1]
  /\ UNCHANGED << writer, written, printed >>

\* A signal interrupts the read (the handlers are gone for the last calls).
ReadInterrupted ==
  /\ Draining /\ turn.at = "drain"
  /\ turn' = [turn EXCEPT !.reads = @ - 1]
  /\ UNCHANGED << log, pipe, writer, written, printed >>

\* Nothing to read: EAGAIN returns, end of file closes the log.
ReadNothing ==
  /\ Draining /\ pipe = << >>
  /\ log' = [log EXCEPT !.open = writer = "open"]
  /\ turn' = [turn EXCEPT !.reads = 0]
  /\ UNCHANGED << pipe, writer, written, printed >>

\* log_drain returns.
Drained ==
  /\ turn.at \in {"drain", "last"} /\ ~Draining
  /\ turn' = IF turn.at = "drain" THEN Relaying
             ELSE IF log.open /\ turn.rounds > 1
               THEN [turn EXCEPT !.reads = Reads, !.rounds = @ - 1]
             ELSE [at |-> "print", reads |-> 0, rounds |-> 0]
  /\ UNCHANGED << log, pipe, writer, written, printed >>

\* A log still open is closed; a failed session prints it.
Finish ==
  /\ turn.at = "print"
  /\ log' = [log EXCEPT !.open = FALSE] /\ printed' = log_print(log)
  /\ turn' = [at |-> "end", reads |-> 0, rounds |-> 0]
  /\ UNCHANGED << pipe, writer, written >>

LogEnded == turn.at = "end" /\ UNCHANGED logVars

LogNext == \/ (\E b \in LogByte : Write(b)) \/ QemuGone \/ Readable \/ LastDrain
           \/ Read \/ ReadInterrupted \/ ReadNothing \/ Drained \/ Finish \/ LogEnded
LogSpec == LogInit /\ [][LogNext]_logVars
-----------------------------------------------------------------------------
(* Properties. *)

LastOf(s) == IF Len(s) <= SB_LOG_TAIL THEN s ELSE SubSeq(s, Len(s) - SB_LOG_TAIL + 1, Len(s))

\* However the ring wraps and however the reads fall, what log_print would write
\* now and what is still in the pipe end with the last bytes QEMU wrote, oldest
\* first; and what a failed session prints is the end of everything, because the
\* last log_drain calls reach the end of the pipe, as the comment before them says.
LastWords ==
  /\ LastOf(log_print(log) \o pipe) = LastOf(written)
  /\ turn.at = "end" => printed = LastOf(written)
=============================================================================
