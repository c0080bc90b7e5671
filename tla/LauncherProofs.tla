--------------------------- MODULE LauncherProofs ---------------------------
(***************************************************************************)
(* What Launcher takes back, for any number of signals and resizes.        *)
(*                                                                         *)
(* The terminal is the delicate part: that no stop and no death finds it   *)
(* raw holds because it is raw only between the last handler installed and *)
(* the first one restored, which RawInv says of every step.                *)
(***************************************************************************)
EXTENDS Launcher, TLAPS

\* The steps at which every handler is installed.
Handled == {"share", "private", "open", "extract", "args", "tty", "start",
            "relay", "suspend", "giveback", "stop", "resume", "continue", "regain", "window",
            "measure", "measured", "poll"}
\* The part of the type invariant that the argument uses.
Typed == pc \in Pc /\ caught \subseteq Class /\ raw \in BOOLEAN /\ stopped \in BOOLEAN
\* A raw terminal is owned, by a launcher that runs and catches every signal.
RawInv ==
  raw => /\ caught = Class /\ foreground /\ ~stopped
         /\ pc \in (Handled \ {"stop"}) \cup {"kill", "restore", "killed"}
HandledInv == pc \in Handled => caught = Class
DirInv == /\ pc = "rmdir" => dir \in {"none", "made"}
          /\ dir \in {"none", "made", "filled"}
IInv == Typed /\ RawInv /\ HandledInv /\ DirInv /\ FilesRemoved /\ QemuReaped

LEMMA InitInv == Init => IInv
BY Zenon DEF Init, IInv, Typed, Pc, RawInv, HandledInv, Handled, DirInv, FilesRemoved, QemuReaped

\* A step that moves the launcher on and touches nothing else.
LEMMA MoveInv ==
  ASSUME IInv, pc' \in Pc, pc' \notin {"stop", "rmdir", "end", "dead"},
         pc' \in Handled \cup {"kill", "killed"} \/ pc' = pc \/ ~raw,
         pc' \in Handled => pc \in Handled,
         pc' \in {"restore", "handlers", "remove"} => child = "none",
         UNCHANGED << caught, raw, stopped, foreground, dir, child >>
  PROVE  IInv'
BY DEF IInv, Typed, RawInv, HandledInv, Handled, DirInv, FilesRemoved, QemuReaped

LEMMA SameInv ==
  ASSUME IInv, UNCHANGED << pc, caught, raw, stopped, foreground, dir, child >>
  PROVE  IInv'
BY DEF IInv, Typed, RawInv, HandledInv, DirInv, FilesRemoved, QemuReaped

LEMMA StartupInv == ASSUME IInv, Startup PROVE IInv'
<1>1. CASE Privileges
  BY <1>1 DEF Privileges, At, Goes, files, linux, IInv, Typed, Pc, RawInv, HandledInv, Handled, DirInv,
     FilesRemoved, QemuReaped
<1>2. ASSUME NEW c \in Class, install_handlers(c) PROVE IInv'
  <2>1. /\ pc = "install" /\ ~raw /\ ~raw' /\ pc' \in {"install", "share", "kill"}
        /\ caught' \subseteq Class /\ dir' = dir /\ stopped' = stopped /\ raw' = raw
    BY <1>2 DEF install_handlers, At, Goes, files, linux, IInv, Typed, RawInv, Handled
  <2>2. ASSUME pc' = "share" PROVE caught' = Class
    <3>1. c = "cont" /\ caught' = caught \cup {c}
      BY <1>2, <2>2 DEF install_handlers, Goes
    <3>2. \A d \in Class : d # "cont" => d \in caught
      BY <1>2, <3>1 DEF install_handlers, Order, Class
    <3> QED BY Zenon, <3>1, <3>2, <2>1
  <2> QED BY <2>1, <2>2 DEF IInv, Typed, Pc, RawInv, HandledInv, Handled, DirInv, FilesRemoved, QemuReaped
<1>3. CASE Share
  BY <1>3 DEF Share, At, Goes, files, linux, IInv, Typed, Pc, RawInv, HandledInv, Handled, DirInv,
     FilesRemoved, QemuReaped
<1>4. CASE private_directory
  BY <1>4 DEF private_directory, At, Goes, linux, IInv, Typed, Pc, RawInv, HandledInv, Handled, DirInv,
     FilesRemoved, QemuReaped
<1>5. CASE OpenRoot
  BY <1>5 DEF OpenRoot, At, Goes, files, linux, IInv, Typed, Pc, RawInv, HandledInv, Handled, DirInv,
     FilesRemoved, QemuReaped
<1>6. CASE extract_bundle
  BY <1>6 DEF extract_bundle, At, Goes, linux, IInv, Typed, Pc, RawInv, HandledInv, Handled, DirInv,
     FilesRemoved, QemuReaped
<1>7. CASE configure_guest
  BY <1>7 DEF configure_guest, At, Goes, files, linux, IInv, Typed, Pc, RawInv, HandledInv, Handled, DirInv,
     FilesRemoved, QemuReaped
<1>8. CASE terminal_raw
  BY <1>8 DEF terminal_raw, At, Goes, linux, IInv, Typed, Pc, RawInv, HandledInv, Handled, DirInv,
     FilesRemoved, QemuReaped
<1>9. CASE Start
  BY <1>9 DEF Start, At, Goes, linux, IInv, Typed, Pc, RawInv, HandledInv, Handled, DirInv,
     FilesRemoved, QemuReaped
<1> QED BY <1>1, <1>2, <1>3, <1>4, <1>5, <1>6, <1>7, <1>8, <1>9 DEF Startup

LEMMA HeadInv == ASSUME IInv, Head PROVE IInv'
<1>1. CASE CheckInterrupted
  BY <1>1, MoveInv DEF CheckInterrupted, At, files, linux, Pc, Handled
<1>2. CASE CheckSuspended
  BY <1>2, MoveInv DEF CheckSuspended, At, files, linux, Pc, Handled
<1>3. CASE GiveBack
  BY Zenon, <1>3 DEF GiveBack, At, linux, IInv, Typed, Pc, RawInv, HandledInv, Handled, DirInv, FilesRemoved,
     QemuReaped
<1>4. CASE Stop
  BY <1>4 DEF Stop, At, files, IInv, Typed, Pc, RawInv, HandledInv, Handled, DirInv, FilesRemoved,
     QemuReaped
<1>5. CASE Resume
  BY <1>5, MoveInv DEF Resume, At, files, linux, Pc, Handled
<1>6. CASE CheckContinued
  BY <1>6, MoveInv DEF CheckContinued, At, files, linux, Pc, Handled
<1>7. CASE Regain
  BY <1>7 DEF Regain, At, linux, IInv, Typed, Pc, RawInv, HandledInv, Handled, DirInv, FilesRemoved,
     QemuReaped
<1>8. CASE CheckResized
  BY <1>8, MoveInv DEF CheckResized, At, files, linux, Pc, Handled
<1>9. CASE Measure
  BY <1>9, MoveInv DEF Measure, At, files, linux, Pc, Handled
<1>10. CASE Measured
  BY <1>10, MoveInv DEF Measured, At, files, linux, Pc, Handled
<1>11. CASE Poll
  BY <1>11, MoveInv DEF Poll, At, files, linux, Pc, Handled
<1> QED BY <1>1, <1>2, <1>3, <1>4, <1>5, <1>6, <1>7, <1>8, <1>9, <1>10, <1>11 DEF Head

LEMMA CleanupInv == ASSUME IInv, Cleanup PROVE IInv'
<1>1. CASE Reap
  BY <1>1 DEF Reap, At, linux, IInv, Typed, Pc, RawInv, HandledInv, Handled, DirInv, FilesRemoved, QemuReaped
<1>2. CASE terminal_restore
  BY Zenon, <1>2 DEF terminal_restore, At, linux, IInv, Typed, Pc, RawInv, HandledInv, Handled, DirInv,
     FilesRemoved, QemuReaped
<1>3. CASE restore_handlers
  <2>1. /\ pc = "handlers" /\ pc' \in {"handlers", "remove"} /\ caught' \subseteq Class
        /\ UNCHANGED << raw, stopped, dir, child >>
    BY <1>3 DEF restore_handlers, At, files, linux, IInv, Typed
  <2> QED BY <2>1 DEF IInv, Typed, Pc, RawInv, HandledInv, Handled, DirInv, FilesRemoved, QemuReaped
<1>4. CASE remove_contents
  BY <1>4 DEF remove_contents, At, linux, IInv, Typed, Pc, RawInv, HandledInv, Handled, DirInv,
     FilesRemoved, QemuReaped
<1>5. CASE Rmdir
  BY <1>5 DEF Rmdir, At, linux, IInv, Typed, Pc, RawInv, HandledInv, Handled, DirInv, FilesRemoved, QemuReaped
<1> QED BY <1>1, <1>2, <1>3, <1>4, <1>5 DEF Cleanup

LEMMA OthersInv ==
  ASSUME IInv, Qemu \/ Environment \/ (\E c \in Class : Deliver(c)) \/ Ended PROVE IInv'
<1>1. CASE Qemu
  <2>1. child # "none" /\ UNCHANGED << pc, caught, raw, stopped, foreground, dir >>
    BY <1>1 DEF Qemu, Arm, Exec, QemuEnds, linux
  <2> QED BY <2>1 DEF IInv, Typed, RawInv, HandledInv, DirInv, FilesRemoved, QemuReaped
<1>2. ASSUME NEW c \in Class, Send(c) PROVE IInv'
  <2>1. UNCHANGED << pc, caught, raw, stopped, foreground, dir, child >>
    BY <1>2 DEF Send, Signal, files, IInv, Typed
  <2> QED BY <2>1, SameInv
<1>3. ASSUME NEW fg \in BOOLEAN, Job(fg) PROVE IInv'
  <2>1. /\ UNCHANGED << pc, caught, raw, dir, child >> /\ stopped' = FALSE
        /\ foreground => foreground'
    BY Zenon, <1>3 DEF Job, Signal, files, IInv, Typed
  <2> QED BY Zenon, <2>1 DEF IInv, Typed, RawInv, HandledInv, DirInv, FilesRemoved, QemuReaped
<1>4. CASE TakeTerminal
  BY <1>4 DEF TakeTerminal, files, IInv, Typed, RawInv, HandledInv, DirInv, FilesRemoved, QemuReaped
<1>5. CASE Resize
  <2>1. UNCHANGED << pc, caught, raw, stopped, foreground, dir, child >>
    BY <1>5 DEF Resize, Signal, files, IInv, Typed
  <2> QED BY <2>1, SameInv
<1>6. CASE Kill
  BY <1>6 DEF Kill, Alive, linux, IInv, Typed, Pc, RawInv, HandledInv, Handled, DirInv, FilesRemoved, QemuReaped
<1>7. ASSUME NEW c \in Class, Deliver(c) PROVE IInv'
  <2>1. /\ UNCHANGED << caught, raw, foreground, dir >> /\ Alive
        /\ stopped' = (c \notin caught /\ c = "tstp")
        /\ IF c \notin caught /\ c = "term" THEN pc' = "dead" ELSE UNCHANGED << pc, child >>
    BY <1>7 DEF Deliver
  <2>2. CASE caught = Class
    <3>1. UNCHANGED << pc, child >> /\ stopped' = FALSE
      BY Zenon, <2>1, <2>2
    <3> QED BY <2>1, <3>1 DEF IInv, Typed, RawInv, HandledInv, DirInv, FilesRemoved, QemuReaped
  <2>3. CASE caught # Class
    <3>1. ~raw /\ pc \notin Handled /\ stopped' \in BOOLEAN
      BY <2>1, <2>3 DEF IInv, RawInv, HandledInv
    <3> QED BY <2>1, <3>1 DEF IInv, Typed, Pc, RawInv, HandledInv, Handled, DirInv, FilesRemoved, QemuReaped
  <2> QED BY <2>2, <2>3
<1>8. CASE Ended
  BY <1>8, SameInv DEF Ended, vars, files, linux
<1> QED BY <1>1, <1>2, <1>3, <1>4, <1>5, <1>6, <1>7, <1>8 DEF Environment

LEMMA AlwaysInv == Spec => []IInv
<1>1. IInv /\ [Next]_vars => IInv'
  <2> SUFFICES ASSUME IInv, [Next]_vars PROVE IInv' OBVIOUS
  <2>1. CASE UNCHANGED vars
    BY <2>1, SameInv DEF vars, files, linux
  <2> QED BY <2>1, StartupInv, HeadInv, CleanupInv, OthersInv DEF Next, Run
<1> QED BY InitInv, <1>1, PTL DEF Spec

\* What IInv leaves of the type invariant.
Flags == /\ interrupted \in BOOLEAN /\ suspended \in BOOLEAN /\ continued \in BOOLEAN
         /\ resized \in BOOLEAN /\ active \in BOOLEAN /\ foreground \in BOOLEAN
Qemus == child \in {"none", "forked", "armed", "running", "zombie"}
Counts == /\ told \in 0 .. window /\ window \in 0 .. MaxResizes /\ sends \in 0 .. MaxSignals
          /\ pending \subseteq Class
Rest == Flags /\ Qemus /\ Counts

LEMMA StartupRest == ASSUME Rest, Startup PROVE Rest'
<1>1. UNCHANGED << flags, active, linux >>
  BY DEF Startup, Privileges, install_handlers, Share, private_directory, OpenRoot, extract_bundle,
         configure_guest, terminal_raw, Start
<1>2. child' \in {child, "forked"} /\ told' \in {told, window}
  BY DEF Startup, Privileges, install_handlers, Share, private_directory, OpenRoot, extract_bundle,
         configure_guest, terminal_raw, Start, files
<1>3. Flags'
  BY <1>1 DEF Rest, Flags, flags, linux
<1>4. Qemus'
  BY <1>2 DEF Rest, Qemus
<1>5. Counts'
  BY <1>1, <1>2, LauncherAssumption DEF Rest, Counts, linux
<1> QED BY <1>3, <1>4, <1>5 DEF Rest

LEMMA HeadRest == ASSUME Rest, Head PROVE Rest'
<1>1. /\ UNCHANGED << interrupted, active, foreground, window, sends, child >>
      /\ suspended' \in {suspended, FALSE} /\ continued' \in {continued, TRUE, FALSE}
      /\ pending' \subseteq pending /\ told' \in {told, window}
  BY Zenon DEF Head, CheckInterrupted, CheckSuspended, GiveBack, Stop, Resume, CheckContinued, Regain,
         CheckResized, Measure, Measured, Poll, flags, files, linux
<1>2. resized' \in {resized, FALSE, (resized \/ (active /\ foreground))}
  BY Zenon DEF Head, CheckInterrupted, CheckSuspended, GiveBack, Stop, Resume, CheckContinued, Regain,
         CheckResized, Measure, Measured, Poll, flags
<1>3. Flags'
  BY Zenon, <1>1, <1>2 DEF Rest, Flags
<1>4. Qemus' /\ Counts'
  BY <1>1, LauncherAssumption DEF Rest, Qemus, Counts
<1> QED BY <1>3, <1>4 DEF Rest

LEMMA OtherRest ==
  ASSUME Rest, Cleanup \/ Qemu \/ Kill \/ TakeTerminal \/ UNCHANGED vars PROVE Rest'
<1>1. /\ UNCHANGED << flags, active, told, pending, window, sends >>
      /\ foreground' \in {foreground, FALSE}
  BY Zenon DEF Cleanup, Reap, terminal_restore, restore_handlers, remove_contents, Rmdir, Qemu, Arm, Exec,
         QemuEnds, Kill, TakeTerminal, vars, flags, linux
<1>2. child' \in {child, "none", "armed", "running", "zombie", "forked"}
  BY DEF Cleanup, Reap, terminal_restore, restore_handlers, remove_contents, Rmdir, Qemu, Arm, Exec,
         QemuEnds, Kill, TakeTerminal, WithParent, vars, files
<1>3. Flags'
  BY Zenon, <1>1 DEF Rest, Flags, flags
<1>4. Qemus' /\ Counts'
  BY <1>1, <1>2 DEF Rest, Qemus, Counts
<1> QED BY <1>3, <1>4 DEF Rest

LEMMA SignalRest ==
  ASSUME Rest, NEW c \in Class, NEW fg \in BOOLEAN, Send(c) \/ Job(fg) \/ Resize \/ Deliver(c)
  PROVE  Rest'
<1>1. UNCHANGED << active, told >> /\ window' \in {window, window + 1} /\ sends' \in {sends, sends + 1}
  BY DEF Send, Job, Resize, Deliver
<1>2. /\ window' # window => window < MaxResizes
      /\ sends' # sends => sends < MaxSignals
  BY DEF Send, Job, Resize, Deliver
<1>3. pending' \subseteq Class
  BY Zenon DEF Send, Job, Resize, Deliver, Signal, Rest, Counts, Class
<1>4. child' \in {child, "none", "forked"}
  BY DEF Send, Job, Resize, Deliver, WithParent, files
<1>5. Counts'
  BY <1>1, <1>2, <1>3, LauncherAssumption DEF Rest, Counts
<1>6. Qemus'
  BY <1>4 DEF Rest, Qemus
<1>7. Flags'
  BY Zenon DEF Send, Job, Resize, Deliver, flags, Rest, Flags
<1> QED BY <1>5, <1>6, <1>7 DEF Rest

LEMMA AlwaysTyped == Spec => []TypeOK
<1>1. Init => Rest
  <2> SUFFICES ASSUME Init PROVE Rest
    OBVIOUS
  <2>1. Flags
    BY Zenon DEF Init, Flags
  <2>2. Qemus
    BY DEF Init, Qemus
  <2>3. Counts
    BY LauncherAssumption DEF Init, Counts
  <2> QED BY <2>1, <2>2, <2>3 DEF Rest
<1>2. Rest /\ [Next]_vars => Rest'
  <2> SUFFICES ASSUME Rest, [Next]_vars PROVE Rest'
    OBVIOUS
  <2>1. CASE Startup
    BY <2>1, StartupRest
  <2>2. CASE Head
    BY <2>2, HeadRest
  <2>3. CASE Cleanup \/ Qemu \/ Kill \/ TakeTerminal \/ UNCHANGED vars
    BY <2>3, OtherRest
  <2>4. CASE \E c \in Class : Send(c) \/ Deliver(c)
    BY Zenon, <2>4, SignalRest
  <2>5. CASE Resize \/ \E fg \in BOOLEAN : Job(fg)
    <3>1. PICK c \in Class : TRUE
      BY DEF Class
    <3> QED BY Zenon, <2>5, <3>1, SignalRest
  <2> QED BY <2>1, <2>2, <2>3, <2>4, <2>5 DEF Next, Run, Environment, Ended
<1>3. IInv /\ Rest => TypeOK
  BY DEF IInv, Typed, DirInv, Rest, Flags, Qemus, Counts, TypeOK
<1> QED BY <1>1, <1>2, <1>3, AlwaysInv, PTL DEF Spec

\* A launcher that returns has removed its private directory and reaped QEMU, which was
\* gone before its files were, whatever failed and whatever signals came.
THEOREM EverythingTakenBack == Spec => []TakenBack
<1>1. IInv /\ TypeOK => TakenBack
  BY DEF IInv, TakenBack
<1> QED BY <1>1, AlwaysInv, AlwaysTyped, PTL

\* A stopped launcher, one that has returned and one killed by a signal it does not catch
\* leave the terminal as they found it, and only a terminal that its group owns is raw.
THEOREM TerminalIsKept == Spec => []TerminalKept
<1>1. IInv => TerminalKept
  BY DEF IInv, RawInv, Handled, TerminalKept, TerminalReturned, RawOnlyInForeground
<1> QED BY AlwaysInv, <1>1, PTL
=============================================================================
