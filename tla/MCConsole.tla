----------------------------- MODULE MCConsole -----------------------------
(* Small sessions: a few bytes per stream, chunks and queues of a few cells, *)
(* so that frames are split, queues fill up and the gates close.             *)
EXTENDS Console

Pipes(in, out, err, faults) ==
  [terminal |-> FALSE, input |-> in, output |-> out, errors |-> err, resizes |-> 0,
   faults |-> faults]
Tty(in, out, changes) ==
  [terminal |-> TRUE, input |-> in, output |-> out, errors |-> 0, resizes |-> changes,
   faults |-> {}]

\* Output that fills every stage, both streams, input, faults, a terminal.
SafetySessions ==
  {Pipes(0, 5, 0, {}), Pipes(0, 1, 1, {"early_off"}), Pipes(3, 0, 0, {"stdin_closed"}),
   Pipes(0, 2, 0, {"interrupt", "timeout", "stdout"}), Tty(1, 0, 1)}
LiveSessions == {Pipes(0, 1, 0, {"stdout", "early_off"}), Tty(0, 0, 1)}
ResizedSession == {Tty(0, 0, 1)}
=============================================================================
