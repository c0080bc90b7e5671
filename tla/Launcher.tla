------------------------------ MODULE Launcher ------------------------------
(***************************************************************************)
(* The sandbox launcher as a process: sandbox_run and the head of the loop *)
(* of console_relay (sandbox_host.c), against Linux signals and job        *)
(* control.                                                                *)
(*                                                                         *)
(* What the launcher puts into the world and must take back: a private     *)
(* directory, the raw mode of the terminal, a QEMU process.  Signal        *)
(* handlers only set flags; a signal may come between any two steps.       *)
(* Console models the rest of the loop.                                    *)
(***************************************************************************)
EXTENDS Naturals

CONSTANTS MaxSignals,  \* bound on the signals sent
          MaxResizes   \* bound on the changes of the window size

ASSUME LauncherAssumption == MaxSignals \in Nat /\ MaxResizes \in Nat

\* The handled signals, by what caught_signal does: those that end the launcher, and the
\* three others, in the order in which their handlers are installed.
Class == {"term", "winch", "tstp", "cont"}
Order == [c \in Class |-> IF c = "term" THEN 0 ELSE IF c = "winch" THEN 1
                          ELSE IF c = "tstp" THEN 2 ELSE 3]

VARIABLES
  pc,
  caught,       \* the classes whose handler is installed
  interrupted, suspended, continued, resized,   \* set by caught_signal
  dir,          \* the private directory: "none", "made" or "filled"
  raw,          \* the terminal is in raw mode
  active,       \* all three standard streams are the terminal
  child,        \* QEMU: "none", "forked", "armed", "running" or "zombie"
  told,         \* the window size last put into the queue for the guest
  \* Linux and the caller's shell
  pending,      \* signals sent, not delivered
  stopped,
  foreground,   \* the launcher's group owns the terminal
  window,       \* the size of the terminal
  sends

flags == << interrupted, suspended, continued, resized >>
files == << dir, raw, child >>
linux == << pending, stopped, foreground, window, sends >>
vars == << pc, caught, flags, files, active, told, linux >>

Init ==
  /\ pc = "privileges" /\ caught = {}
  /\ interrupted = FALSE /\ suspended = FALSE /\ continued = FALSE /\ resized = FALSE
  /\ dir = "none" /\ raw = FALSE /\ active \in BOOLEAN /\ child = "none" /\ told = 0
  /\ pending = {} /\ stopped = FALSE /\ foreground \in BOOLEAN /\ window = 0 /\ sends = 0
-----------------------------------------------------------------------------
(* Linux. *)

Alive == pc \notin {"dead", "killed", "end"}
\* QEMU dies with the launcher once it has asked to.
WithParent == IF child = "forked" THEN "forked" ELSE "none"

\* Sending a stop signal discards a pending SIGCONT; SIGCONT discards pending stop
\* signals and resumes the process at once, whoever handles it.
Signal(c) ==
  /\ pending' = (pending \cup {c}) \ (IF c = "tstp" THEN {"cont"}
                                      ELSE IF c = "cont" THEN {"tstp"} ELSE {})
  /\ stopped' = (stopped /\ c # "cont")

Send(c) ==
  /\ Alive /\ c \in {"term", "tstp"} /\ sends < MaxSignals /\ sends' = sends + 1
  /\ Signal(c)
  /\ UNCHANGED << pc, caught, flags, files, active, told, foreground, window >>
\* The shell continues the job, in the background or in the foreground.
Job(fg) ==
  /\ Alive /\ sends < MaxSignals /\ sends' = sends + 1
  /\ foreground' = (foreground \/ fg) /\ Signal("cont")
  /\ UNCHANGED << pc, caught, flags, files, active, told, window >>
\* The shell takes the terminal when it sees the job stop.
TakeTerminal ==
  /\ Alive /\ stopped /\ foreground /\ foreground' = FALSE
  /\ UNCHANGED << pc, caught, flags, files, active, told, pending, stopped, window, sends >>
\* The window changes; the foreground group is told.
Resize ==
  /\ Alive /\ window < MaxResizes /\ window' = window + 1
  /\ IF foreground THEN Signal("winch") ELSE UNCHANGED << pending, stopped >>
  /\ UNCHANGED << pc, caught, flags, files, active, told, foreground, sends >>

\* caught_signal, or the default action.
Deliver(c) ==
  /\ Alive /\ ~stopped /\ c \in pending /\ pending' = pending \ {c}
  /\ interrupted' = (interrupted \/ (c \in caught /\ c = "term"))
  /\ suspended' = (suspended \/ (c \in caught /\ c = "tstp"))
  /\ continued' = (continued \/ (c \in caught /\ c = "cont"))
  /\ resized' = (resized \/ (c \in caught /\ c = "winch"))
  /\ stopped' = (c \notin caught /\ c = "tstp")
  /\ IF c \notin caught /\ c = "term"
       THEN pc' = "dead" /\ child' = WithParent
       ELSE UNCHANGED << pc, child >>
  /\ UNCHANGED << caught, dir, raw, active, told, foreground, window, sends >>
\* SIGKILL, which cannot be caught.
Kill ==
  /\ Alive /\ pc' = "killed" /\ child' = WithParent
  /\ UNCHANGED << caught, flags, dir, raw, active, told, linux >>
-----------------------------------------------------------------------------
(* sandbox_run: the way up.  A failure leads to the cleanup, at "kill".    *)

At(p) == pc = p /\ ~stopped
\* A step of the launcher goes on, or fails.
Goes(next) == pc' \in {next, "kill"}

\* drop_sudo, capabilities, KVM, Landlock: before the handlers.
Privileges ==
  /\ At("privileges") /\ Goes("install")
  /\ UNCHANGED << caught, flags, files, active, told, linux >>
\* install_handlers: one signal after the other.
install_handlers(c) ==
  /\ At("install") /\ c \notin caught /\ \A d \in Class : Order[d] < Order[c] => d \in caught
  /\ Goes(IF c = "cont" THEN "share" ELSE "install")
  /\ caught' = IF pc' = "kill" THEN caught ELSE caught \cup {c}
  /\ UNCHANGED << flags, files, active, told, linux >>
Share ==
  /\ At("share") /\ Goes("private")
  /\ UNCHANGED << caught, flags, files, active, told, linux >>
\* private_directory: a directory that turns out not to be usable is removed again.
private_directory ==
  /\ At("private") /\ Goes("open") /\ (interrupted => pc' = "kill")
  /\ dir' = IF pc' = "open" THEN "made" ELSE dir
  /\ UNCHANGED << caught, flags, raw, child, active, told, linux >>
OpenRoot ==
  /\ At("open") /\ Goes("extract")
  /\ UNCHANGED << caught, flags, files, active, told, linux >>
\* extract_bundle may fail after some files have been written.
extract_bundle ==
  /\ At("extract") /\ Goes("args") /\ (interrupted => pc' = "kill")
  /\ dir' = IF interrupted THEN dir ELSE "filled"
  /\ UNCHANGED << caught, flags, raw, child, active, told, linux >>
\* The guest's configuration, with the size of the window, and the channels.
configure_guest ==
  /\ At("args") /\ Goes("tty") /\ (interrupted => pc' = "kill")
  /\ told' = IF pc' = "tty" THEN window ELSE told
  /\ UNCHANGED << caught, flags, files, active, linux >>
terminal_raw ==
  /\ At("tty") /\ Goes("start")
  /\ raw' = (pc' = "start" /\ active /\ foreground)
  /\ UNCHANGED << caught, flags, dir, child, active, told, linux >>
Start ==
  /\ At("start") /\ Goes("relay") /\ (interrupted => pc' = "kill")
  /\ child' = IF pc' = "relay" THEN "forked" ELSE child
  /\ UNCHANGED << caught, flags, dir, raw, active, told, linux >>
-----------------------------------------------------------------------------
(* launch_qemu, in the child.                                              *)

\* Mutant: the child does not look whether its parent is still there.
MutArm ==
  /\ child = "forked" /\ child' = "armed"
  /\ UNCHANGED << pc, caught, flags, dir, raw, active, told, linux >>
\* prctl(PR_SET_PDEATHSIG, SIGKILL) and then getppid() != parent.
Arm ==
  /\ child = "forked" /\ child' = IF pc = "killed" THEN "none" ELSE "armed"
  /\ UNCHANGED << pc, caught, flags, dir, raw, active, told, linux >>
Exec ==
  /\ child = "armed" /\ child' = "running"
  /\ UNCHANGED << pc, caught, flags, dir, raw, active, told, linux >>
\* It ends: the guest powers off, or something fails.
QemuEnds ==
  /\ child \in {"forked", "armed", "running"}
  /\ child' = IF pc = "killed" THEN "none" ELSE "zombie"
  /\ UNCHANGED << pc, caught, flags, dir, raw, active, told, linux >>
-----------------------------------------------------------------------------
(* console_relay: the head of the loop.                                    *)

\* Mutant: the flag is looked at only during the start.
MutCheckInterrupted ==
  /\ At("relay") /\ pc' = "suspend"
  /\ UNCHANGED << caught, flags, files, active, told, linux >>
CheckInterrupted ==
  /\ At("relay") /\ pc' = IF interrupted THEN "kill" ELSE "suspend"
  /\ UNCHANGED << caught, flags, files, active, told, linux >>
CheckSuspended ==
  /\ At("suspend") /\ pc' = IF suspended THEN "giveback" ELSE "continue"
  /\ suspended' = FALSE
  /\ UNCHANGED << caught, interrupted, continued, resized, files, active, told, linux >>
GiveBack ==
  /\ At("giveback") /\ pc' = "stop" /\ raw' = FALSE
  /\ UNCHANGED << caught, flags, dir, child, active, told, linux >>
\* raise(SIGSTOP), which also discards a pending SIGCONT.
Stop ==
  /\ At("stop") /\ pc' = "resume" /\ stopped' = TRUE /\ pending' = pending \ {"cont"}
  /\ UNCHANGED << caught, flags, files, active, told, foreground, window, sends >>
Resume ==
  /\ At("resume") /\ pc' = "continue" /\ continued' = TRUE
  /\ UNCHANGED << caught, interrupted, suspended, resized, files, active, told, linux >>
CheckContinued ==
  /\ At("continue") /\ pc' = IF continued THEN "regain" ELSE "window"
  /\ continued' = FALSE
  /\ UNCHANGED << caught, interrupted, suspended, resized, files, active, told, linux >>
\* Mutant: the terminal is taken from whoever has it.
MutRegain ==
  /\ At("regain") /\ pc' = "window"
  /\ raw' = (raw \/ active) /\ resized' = (resized \/ active)
  /\ UNCHANGED << caught, interrupted, suspended, continued, dir, child, active, told, linux >>
\* Mutant: the guest is told the size, and the mode is not set again.
MutRegainCooked ==
  /\ At("regain") /\ pc' = "window" /\ resized' = (resized \/ (active /\ foreground))
  /\ UNCHANGED << caught, interrupted, suspended, continued, files, active, told, linux >>
\* terminal_foreground, terminal_raw.
Regain ==
  /\ At("regain") /\ pc' = "window"
  /\ raw' = (raw \/ (active /\ foreground)) /\ resized' = (resized \/ (active /\ foreground))
  /\ UNCHANGED << caught, interrupted, suspended, continued, dir, child, active, told, linux >>
\* There may be no room in the queue for the frame.
CheckResized ==
  /\ At("window") /\ pc' \in (IF resized /\ active THEN {"measure", "poll"} ELSE {"poll"})
  /\ UNCHANGED << caught, flags, files, active, told, linux >>
Measure ==
  /\ At("measure") /\ pc' = "measured" /\ told' = window
  /\ UNCHANGED << caught, flags, files, active, linux >>
Measured ==
  /\ At("measured") /\ pc' = "poll" /\ resized' = FALSE
  /\ UNCHANGED << caught, interrupted, suspended, continued, files, active, told, linux >>
\* The rest of the loop, which may leave it: the guest's exit status, an error, a timeout.
Poll ==
  /\ At("poll") /\ pc' \in {"relay", "kill"}
  /\ UNCHANGED << caught, flags, files, active, told, linux >>
-----------------------------------------------------------------------------
(* sandbox_run: the way down.                                              *)

\* SIGTERM, a second's patience, SIGKILL, and wait.
Reap ==
  /\ At("kill") /\ pc' = "restore" /\ child' = "none"
  /\ UNCHANGED << caught, flags, dir, raw, active, told, linux >>
terminal_restore ==
  /\ At("restore") /\ pc' = "handlers" /\ raw' = FALSE
  /\ UNCHANGED << caught, flags, dir, child, active, told, linux >>
\* restore_handlers: the old actions come back, in the order of installation.
restore_handlers ==
  \/ /\ At("handlers") /\ caught = {} /\ pc' = "remove"
     /\ UNCHANGED << caught, flags, files, active, told, linux >>
  \/ /\ At("handlers")
     /\ \E c \in caught : /\ \A d \in caught : Order[c] <= Order[d]
                         /\ caught' = caught \ {c}
     /\ UNCHANGED << pc, flags, files, active, told, linux >>
\* Mutant: the contents are left.
MutRemove ==
  /\ At("remove") /\ pc' = "rmdir"
  /\ UNCHANGED << caught, flags, files, active, told, linux >>
remove_contents ==
  /\ At("remove") /\ pc' = "rmdir" /\ dir' = IF dir = "filled" THEN "made" ELSE dir
  /\ UNCHANGED << caught, flags, raw, child, active, told, linux >>
\* rmdir removes an empty directory only.
Rmdir ==
  /\ At("rmdir") /\ pc' = "end" /\ dir' = IF dir = "made" THEN "none" ELSE dir
  /\ UNCHANGED << caught, flags, raw, child, active, told, linux >>

Startup == \/ Privileges \/ (\E c \in Class : install_handlers(c)) \/ Share \/ private_directory \/ OpenRoot
           \/ extract_bundle \/ configure_guest \/ terminal_raw \/ Start
Head == \/ CheckInterrupted \/ CheckSuspended \/ GiveBack \/ Stop \/ Resume \/ CheckContinued
        \/ Regain \/ CheckResized \/ Measure \/ Measured \/ Poll
Cleanup == Reap \/ terminal_restore \/ restore_handlers \/ remove_contents \/ Rmdir
Run == Startup \/ Head \/ Cleanup
Qemu == Arm \/ Exec \/ QemuEnds
Environment == \/ \E c \in Class : Send(c)
               \/ \E fg \in BOOLEAN : Job(fg)
               \/ TakeTerminal \/ Resize \/ Kill
Ended == ~Alive /\ child # "forked" /\ UNCHANGED vars

Next == Run \/ Qemu \/ Environment \/ (\E c \in Class : Deliver(c)) \/ Ended
Spec == Init /\ [][Next]_vars
\* Linux schedules both processes and delivers signals.  The relay is left only for the
\* reasons that Console models; nothing is assumed of them here.
FairSpec == Spec /\ WF_vars(Run) /\ WF_vars(Arm) /\ \A c \in Class : WF_vars(Deliver(c))
-----------------------------------------------------------------------------
(* Properties. *)

Pc == {"privileges", "install", "share", "private", "open", "extract", "args", "tty", "start",
       "relay", "suspend", "giveback", "stop", "resume", "continue", "regain", "window",
       "measure", "measured", "poll", "kill", "restore", "handlers", "remove", "rmdir",
       "end", "dead", "killed"}
\* Type correctness; a size the guest is told is one that the terminal had.
TypeOK ==
  /\ pc \in Pc /\ caught \subseteq Class
  /\ interrupted \in BOOLEAN /\ suspended \in BOOLEAN /\ continued \in BOOLEAN
  /\ resized \in BOOLEAN
  /\ dir \in {"none", "made", "filled"} /\ raw \in BOOLEAN /\ active \in BOOLEAN
  /\ child \in {"none", "forked", "armed", "running", "zombie"}
  /\ told \in 0 .. window /\ window \in 0 .. MaxResizes
  /\ pending \subseteq Class /\ stopped \in BOOLEAN /\ foreground \in BOOLEAN
  /\ sends \in 0 .. MaxSignals

\* "Private runtime files are removed on normal exit": however far the start got, and
\* whatever interrupted it, nothing is left when sandbox_run returns.
FilesRemoved == pc = "end" => dir = "none"

\* "SIGTSTP returns the terminal while the launcher is stopped", and it has the
\* caller's mode again when the launcher ends or is killed by a signal it has not caught.
TerminalReturned == stopped \/ pc \in {"end", "dead"} => ~raw

\* The terminal is raw only while the launcher's group owns it: one that is started or
\* continued in the background leaves the mode to the shell.
RawOnlyInForeground == raw => foreground

\* QEMU is gone before its files are removed and before the launcher returns.
QemuReaped == pc \in {"restore", "handlers", "remove", "rmdir", "end"} => child = "none"

\* Whatever failed and whatever signals came, a launcher that returns has taken back what
\* it put into the world: its files and QEMU ...
TakenBack == TypeOK /\ FilesRemoved /\ QemuReaped
\* ... and the mode of the terminal, also while it is stopped or in the background.
TerminalKept == TerminalReturned /\ RawOnlyInForeground

\* A launcher that has noted a termination signal ends, unless it is stopped.
InterruptEnds == (interrupted /\ ~stopped) ~> (~Alive \/ stopped)

\* No QEMU outlives a killed launcher, even one killed just after the fork.
NoOrphan == pc = "killed" ~> child = "none"

\* "SIGCONT restores raw mode": continued in the foreground, a relay gets back to it.
RawAgain ==
  (pc = "resume" /\ ~stopped /\ foreground /\ active)
  ~> (raw \/ stopped \/ ~foreground \/ pc \in {"kill", "restore", "handlers", "end", "dead", "killed"})

\* "Private runtime files are removed ... on handled termination signals".
RemovedWhenKilled == pc = "dead" => dir = "none"
=============================================================================
