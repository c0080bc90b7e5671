------------------------------- MODULE Start -------------------------------
(***************************************************************************)
(* From the command line to Bash: the option parsing of main in host.c,    *)
(* the choice between running here and running in the bundled machine, the *)
(* launch configuration that sandbox_host.c writes and sandbox_init.c      *)
(* reads, the restrictions the forked child puts on itself before it       *)
(* executes QEMU, the boot of the guest, and the start of the loader there *)
(* (the same code, parsing the arguments the launcher passed).             *)
(*                                                                         *)
(* Signals during the launch and the removal of its files are in Launcher, *)
(* the choice of the private directory in RuntimeDirectory, the console    *)
(* once the shell runs in Console, the loader's descriptors in FdTable.    *)
(***************************************************************************)
EXTENDS SocketFilter, FiniteSets

CONSTANTS Args,        \* the arguments a command line may have
          MaxArgs,     \* bound: arguments of a command line
          MaxConfig,   \* 1 << 20: the largest configuration
          MaxArgc,     \* 4096
          TermSize,    \* 64: the TERM field
          Terms,       \* lengths of the caller's TERM; Unset when there is none
          MemoryRange, CpuRange,   \* << smallest, largest >> values of the options
          Releases,    \* what may be found as an os-release file
          Identities,  \* the credentials and sudo variables of the caller
          Groups,      \* the primary group of each known user
          Inherited,   \* which low descriptors the caller leaves open
          Modules      \* the guest's module list

Unset == -1
Xterm == 1000          \* TERM names that the code supplies
Dumb == 1001

ASSUME StartAssumption ==
  /\ MaxArgs \in Nat /\ MaxConfig \in Nat /\ MaxArgc \in Nat /\ TermSize \in Nat \ {0}
  /\ Terms \subseteq Nat \cup {Unset}
  /\ \A a \in Args : a.text \in Seq(0 .. 10)

\* The arguments that matter to the loader: a name, and the text behind the
\* equals sign.  A digit is its value and 10 any other character; user is
\* << 1 >> and none << 0 >>.
Arg(name) == [name |-> name, text |-> << >>]
Bytes(a) == (IF a.name = "word" THEN 1 ELSE 2) + Len(a.text)

VARIABLES at,        \* where the start is
          level,     \* "host", or "guest" for the loader inside the machine
          argv,      \* the arguments not parsed yet, without the program name
          asked,     \* ghost: what the command line asks for
          options,   \* struct sandbox_options, and the other flags of main
          os,        \* ghost: whose system the os-release files say this is, once read
          who,       \* credentials of the launcher
          env,       \* TERM, HOME and the rest of the environment
          caller,    \* the caller's TERM, whether its streams are a terminal, its window
          config,    \* run/config of the guest, once it is written
          fds,       \* descriptors of the forked child: what, and close-on-exec
          layers,    \* the restrictions in force in the child
          rules,     \* what Landlock lets it use
          filter,    \* its seccomp program
          machine,   \* the arguments of QEMU
          vm,        \* what the guest has set up
          bash,      \* what Bash was started with
          status     \* exit status of the loader; Unset while it runs

child == << fds, layers, rules, filter, machine >>
startVars == << at, level, argv, asked, options, os, who, env, caller, config, child, vm, bash, status >>
-----------------------------------------------------------------------------
(* Options. *)

\* The value, or Unset: empty, not a number or out of range.  The test against
\* a tenth of the maximum comes before the multiplication.
sandbox_number(text, range) ==
  LET n[i \in 0 .. Len(text)] ==
        IF i = 0 THEN 0
        ELSE IF n[i - 1] = Unset \/ text[i] > 9 \/ n[i - 1] > range[2] \div 10 THEN Unset
        ELSE IF n[i - 1] * 10 + text[i] > range[2] THEN Unset
        ELSE n[i - 1] * 10 + text[i]
  IN IF text = << >> \/ n[Len(text)] < range[1] THEN Unset ELSE n[Len(text)]

Defaults == [mode |-> 0, memory |-> 4096, cpus |-> 2, network |-> TRUE, stats |-> FALSE,
             mount |-> FALSE, tuning |-> FALSE]

\* One option: what it makes of the options, or the status main returns.
Value(a) == sandbox_number(a.text, IF a.name = "memory" THEN MemoryRange ELSE CpuRange)
Refuses(a) ==
  \/ a.name \in {"--sandbox", "--host"}
     /\ options.mode = (IF a.name = "--sandbox" THEN -1 ELSE 1)
  \/ a.name \in {"memory", "cpus"} /\ Value(a) = Unset
  \/ a.name = "network" /\ a.text \notin {<< 0 >>, << 1 >>}
Sets(a) ==
  [options EXCEPT
     !.stats = @ \/ a.name = "--stats",
     !.mount = @ \/ a.name = "--mount-cwd",
     !.mode = IF a.name = "--sandbox" THEN 1 ELSE IF a.name = "--host" THEN -1 ELSE @,
     !.memory = IF a.name = "memory" THEN Value(a) ELSE @,
     !.cpus = IF a.name = "cpus" THEN Value(a) ELSE @,
     !.network = IF a.name = "network" THEN a.text = << 1 >> ELSE @,
     !.tuning = @ \/ a.name \in {"memory", "cpus", "network"}]
Settings == {"--stats", "--mount-cwd", "--sandbox", "--host", "memory", "cpus", "network"}
Answers == {"--version", "--help"}

Returns(n) == at' = "ended" /\ status' = n
Continues(p) == at' = p /\ UNCHANGED status

ParseOption ==
  /\ at = "options" /\ argv # << >> /\ Head(argv).name \in Settings
  /\ IF Refuses(Head(argv)) THEN Returns(2) /\ UNCHANGED << argv, options >>
     ELSE argv' = Tail(argv) /\ options' = Sets(Head(argv)) /\ Continues("options")
  /\ UNCHANGED << level, asked, os, who, env, caller, config, child, vm, bash >>

Announce ==
  /\ at = "options" /\ argv # << >> /\ Head(argv).name \in Answers
  /\ Returns(0)
  /\ UNCHANGED << level, argv, asked, options, os, who, env, caller, config, child, vm, bash >>

\* A double dash ends the options and is dropped; any other argument stays.
EndOfOptions == IF argv # << >> /\ Head(argv).name = "--" THEN Tail(argv) ELSE argv

\* os_identity: one ID line, this system's, and no line that fgets cuts.
os_identity(lines) ==
  /\ \A i \in DOMAIN lines : lines[i] # "cut"
  /\ Cardinality({i \in DOMAIN lines : lines[i] \in {"ours", "other"}}) <= 1
  /\ \E i \in DOMAIN lines : lines[i] = "ours"
\* The first of the two files that can be opened decides.
sandbox_installed_os(files) ==
  LET found == {i \in DOMAIN files : files[i].there}
  IN /\ found # {}
     /\ LET f == files[CHOOSE i \in found : \A j \in found : i <= j]
        IN f.trusted /\ os_identity(f.lines)

\* The file that counts names this system once, in whole lines, and cannot have
\* been written by a user.
Ours(a, b) ==
  LET f == IF a.there THEN a ELSE b
  IN /\ f.there /\ f.trusted
     /\ SelectSeq(f.lines, LAMBDA l : l # "plain") = << "ours" >>

Here == IF options.mount THEN "mount" ELSE "load"

\* Bound: the surroundings of the launch take all their values for the command
\* lines that leave Bash no arguments, and usual ones for the others.
Among(S, usual) ==
  IF asked.rest = << >> /\ ~asked.stats /\ ~asked.mount THEN S ELSE {usual}

\* The rest of main's decisions.  In the guest the release files are not read.
Choose ==
  /\ at = "options" /\ (argv # << >> => Head(argv).name \in {"--", "word"})
  /\ argv' = EndOfOptions
  /\ IF options.tuning /\ options.mode = -1 THEN Returns(2) /\ UNCHANGED << os, env, caller >>
     ELSE /\ IF options.mode = 0 /\ ~options.tuning
               THEN \E a \in Releases, b \in Releases :
                      /\ os' = IF Ours(a, b) THEN "ours" ELSE "other"
                      /\ Continues(IF ~sandbox_installed_os(<< a, b >>) THEN "privileges" ELSE Here)
               ELSE /\ UNCHANGED os
                    /\ Continues(IF options.mode = 1 \/ options.tuning THEN "privileges" ELSE Here)
          /\ IF level = "host"
               THEN \E t \in Among(Terms, 3) : /\ caller' = [caller EXCEPT !.term = t]
                                     /\ env' = [env EXCEPT !.term = t]
               ELSE UNCHANGED << caller, env >>
  /\ UNCHANGED << level, asked, options, who, config, child, vm, bash >>
-----------------------------------------------------------------------------
(* The launcher. *)

Fails == Returns(125)

\* drop_sudo and the capability calls behind it.
drop_sudo(id) ==
  IF id.euid # 0 THEN [uid |-> id.uid, euid |-> id.euid, gid |-> id.gid, egid |-> id.egid]
  ELSE [uid |-> id.sudo_uid, euid |-> id.sudo_uid, gid |-> id.sudo_gid, egid |-> id.sudo_gid]
MayDrop(id) ==
  IF id.euid # 0 THEN id.uid = id.euid /\ id.gid = id.egid
  ELSE /\ id.sudo_uid \in DOMAIN Groups /\ id.sudo_uid > 0
       /\ id.sudo_gid > 0 /\ Groups[id.sudo_uid] = id.sudo_gid

Privileges ==
  /\ at = "privileges"
  /\ \E id \in Identities :
       \/ MayDrop(id) /\ who' = drop_sudo(id) /\ Continues("prepare")
       \/ UNCHANGED who /\ Fails
  /\ UNCHANGED << level, argv, asked, options, os, env, caller, config, child, vm, bash >>

\* KVM, Landlock, the launch directory (never the host's root), the private
\* directory and the bundle: any of them may fail.  Then the terminal is looked
\* at, and the window's size is asked for whether there is a terminal or not.
Prepare ==
  /\ at = "prepare"
  /\ \/ Fails /\ UNCHANGED caller
     \/ Continues("configure")
        /\ \E b \in Among(BOOLEAN, TRUE), w \in Among({Unset, 1}, 1) :
             caller' = [caller EXCEPT !.terminal = b, !.window = w]
  /\ UNCHANGED << level, argv, asked, options, os, who, env, config, child, vm, bash >>

HeaderSize == 4
DefaultWindow == 0     \* 24 rows, 80 columns
TotalBytes(s) == LET n[i \in 0 .. Len(s)] == IF i = 0 THEN 0 ELSE n[i - 1] + Bytes(s[i]) IN n[Len(s)]

\* Mutant: no double dash before the caller's arguments.
MutPassed == << Arg("program"), Arg("--host") >> \o
  (IF options.stats THEN << Arg("--stats") >> ELSE << >>) \o argv
\* The strings written behind the header.
Passed == << Arg("program"), Arg("--host") >> \o
  (IF options.stats THEN << Arg("--stats") >> ELSE << >>) \o << Arg("--") >> \o argv

Argc == Len(argv) + 1 + 2 + (IF options.stats THEN 1 ELSE 0)
ConfigSize ==
  HeaderSize + Bytes(Arg("program")) + Bytes(Arg("--host")) + Bytes(Arg("--"))
  + (IF options.stats THEN Bytes(Arg("--stats")) ELSE 0) + TotalBytes(argv)

\* snprintf keeps what fits with its NUL.
Cut(term) == IF term = Unset THEN Xterm ELSE IF term < TermSize THEN term ELSE TermSize - 1

TooBig == ConfigSize > MaxConfig \/ Argc > MaxArgc

NoConfig == [size |-> 0]
configure_guest ==
  /\ at = "configure"
  /\ \/ Fails /\ UNCHANGED config      \* too big, no memory, or the file fails
     \/ ~TooBig
        /\ config' = [size |-> ConfigSize, argc |-> Argc, terminal |-> caller.terminal,
                      network |-> options.network, term |-> Cut(env.term),
                      window |-> IF caller.window = Unset THEN DefaultWindow ELSE caller.window,
                      strings |-> Passed]
        /\ Continues("fork")
  /\ UNCHANGED << level, argv, asked, options, os, who, env, caller, child, vm, bash >>

\* The descriptors the launcher has opened, each at the lowest free number, on
\* top of the ones its caller left open (KVM's is closed again by then).
Open(table, what, from) ==
  LET free == {n \in from .. from + 20 : n \notin DOMAIN table}
      n == CHOOSE i \in free : \A j \in free : i <= j
  IN [m \in DOMAIN table \cup {n} |-> IF m = n THEN [what |-> what, cloexec |-> TRUE] ELSE table[m]]
Opens(table, whats) ==
  LET t[i \in 0 .. Len(whats)] == IF i = 0 THEN table ELSE Open(t[i - 1], whats[i], 0)
  IN t[Len(whats)]
LauncherFds(inherited) ==
  Opens([n \in inherited |-> [what |-> "caller", cloexec |-> FALSE]],
        << "share", "root", "console", "channel", "relay", "serial", "diagnostics", "errors" >>)
Number(table, what) == CHOOSE n \in DOMAIN table : table[n].what = what

Fork ==
  /\ at = "fork"
  /\ \/ Fails /\ UNCHANGED fds
     \/ \E inherited \in Among(Inherited, {0, 1, 2}) : fds' = LauncherFds(inherited) /\ Continues("reserve")
  /\ UNCHANGED << level, argv, asked, options, os, who, env, caller, config, layers, rules, filter,
                  machine, vm, bash >>

\* dup2 leaves close-on-exec clear, except onto the descriptor itself.
Dup2(table, from, to) ==
  IF from = to THEN table
  ELSE [n \in DOMAIN table \cup {to} |->
          IF n = to THEN [what |-> table[from].what, cloexec |-> FALSE] ELSE table[n]]

Kept == << "share", "channel", "serial", "errors" >>
Wanted == << 3, 4, 5, 2 >>
\* Mutant: the four are put in place from where they happen to be.
MutReserved(table) ==
  LET t[i \in 0 .. 4] == IF i = 0 THEN table
                         ELSE Dup2(t[i - 1], Number(table, Kept[i]), Wanted[i])
  IN t[4]
\* The four are copied above the numbers they are wanted at, then put there.
Reserved(table) ==
  LET originals == [i \in 1 .. 4 |-> Number(table, Kept[i])]
      kept[i \in 0 .. 4] ==
        IF i = 0 THEN table ELSE Open(kept[i - 1], kept[i - 1][originals[i]].what, 10)
      copy == [i \in 1 .. 4 |-> CHOOSE n \in DOMAIN kept[i] : n \notin DOMAIN kept[i - 1]]
      put[i \in 0 .. 4] == IF i = 0 THEN kept[4] ELSE Dup2(put[i - 1], copy[i], Wanted[i])
  IN put[4]

\* A failed step of the child reports and exits; the launcher then ends with 125.
Reserve ==
  /\ at = "reserve"
  /\ \/ Fails /\ UNCHANGED fds
     \/ fds' = Open(Reserved(fds), "root", 0) /\ Continues("limit")
  /\ UNCHANGED << level, argv, asked, options, os, who, env, caller, config, layers, rules, filter,
                  machine, vm, bash >>

Limit ==
  /\ at = "limit"
  /\ \/ Fails /\ UNCHANGED layers
     \/ layers' = {"dies with the launcher", "no core", "memory limit"} /\ Continues("restrict")
  /\ UNCHANGED << level, argv, asked, options, os, who, env, caller, config, fds, rules, filter,
                  machine, vm, bash >>

Rights == [read |-> {"read file", "read directory"},
           write |-> {"write file", "change directory"},
           device |-> {"read file", "write file", "ioctl"}]
Grants ==
  [root |-> Rights.read \cup {"execute"}, share |-> Rights.read \cup Rights.write,
   kvm |-> Rights.device, null |-> {"read file", "write file"},
   random |-> {"read file"}, urandom |-> {"read file"},
   self |-> Rights.read, cpuinfo |-> {"read file"}, meminfo |-> {"read file"}, cpu |-> Rights.read]
\* Files that may be absent, of which only reading as a file is granted.
OptionalGrants == {"node", "resolv.conf", "hosts", "nsswitch.conf", "gai.conf", "localtime"}
allow_path(name) == IF name = "node" THEN Rights.read ELSE {"read file"}

install_socket_filter(x86, network) == [x86 |-> x86, program |-> socket_filter(x86, network)]

\* restrict_qemu: every call must succeed; a newer kernel also refuses to
\* resolve the names of local sockets, an older one is asked again without.
restrict_qemu ==
  /\ at = "restrict"
  /\ \/ Fails /\ UNCHANGED << layers, rules, filter >>
     \/ /\ \E present \in Among({{}, OptionalGrants}, OptionalGrants) :
             rules' = [p \in DOMAIN Grants \cup present |->
                         IF p \in DOMAIN Grants THEN Grants[p] ELSE allow_path(p)]
        /\ \E newer \in Among(BOOLEAN, FALSE) :
             layers' = layers \cup {"no new privileges", "files", "scope"}
                       \cup (IF options.network THEN {} ELSE {"tcp"})
                       \cup (IF newer THEN {"socket names"} ELSE {})
        /\ \E x86 \in Among(BOOLEAN, TRUE) : filter' = install_socket_filter(x86, options.network)
        /\ Continues("close")
  /\ UNCHANGED << level, argv, asked, options, os, who, env, caller, config, fds, machine, vm, bash >>

Without(table, gone) == [n \in DOMAIN table \ gone |-> table[n]]
CloseRest(table) == Without(table, {n \in DOMAIN table : n >= 6})

\* The numbers above are closed and the null device becomes input and output.
Close ==
  /\ at = "close"
  /\ \/ Fails /\ UNCHANGED fds
     \/ /\ LET open == Open(CloseRest(fds), "null", 0)
               null == CHOOSE n \in DOMAIN open : n \notin DOMAIN CloseRest(fds)
           IN fds' = Without(Dup2(Dup2(open, null, 0), null, 1), {null})
        /\ Continues("exec")
  /\ UNCHANGED << level, argv, asked, options, os, who, env, caller, config, layers, rules, filter,
                  machine, vm, bash >>

\* QEMU's arguments; execve closes what is marked.
launch_qemu ==
  /\ at = "exec"
  /\ \/ Fails /\ UNCHANGED << fds, machine >>
     \/ /\ machine' = [memory |-> options.memory, cpus |-> options.cpus,
                       card |-> options.network, export |-> fds[3].what,
                       port |-> fds[4].what, console |-> fds[5].what]
        /\ fds' = Without(fds, {n \in DOMAIN fds : fds[n].cloexec})
        /\ Continues("mounts")
  /\ UNCHANGED << level, argv, asked, options, os, who, env, caller, config, layers, rules, filter,
                  vm, bash >>
-----------------------------------------------------------------------------
(* The guest.  Whatever fails there turns the machine off: the launcher loses *)
(* the console and ends with 125.                                             *)

power_down == Fails

Systems == << "proc", "sys", "dev", "shm", "mqueue", "pts" >>
mount_fs ==
  /\ at = "mounts"
  /\ \/ power_down /\ UNCHANGED vm
     \/ /\ vm' = [vm EXCEPT !.mounted = Append(@, Systems[Len(@) + 1])]
        /\ Continues(IF Len(vm.mounted) + 1 = Len(Systems) THEN "modules" ELSE "mounts")
  /\ UNCHANGED << level, argv, asked, options, os, who, env, caller, config, child, bash >>

modules ==
  /\ at = "modules"
  /\ \/ power_down /\ UNCHANGED vm
     \/ vm' = [vm EXCEPT !.loaded = Modules] /\ Continues("channel")
  /\ UNCHANGED << level, argv, asked, options, os, who, env, caller, config, child, bash >>

\* The port with the launcher's name, wherever it is listed.
console_channel ==
  /\ at = "channel"
  /\ \/ power_down /\ UNCHANGED vm
     \/ vm' = [vm EXCEPT !.channel = machine.port] /\ Continues("read")
  /\ UNCHANGED << level, argv, asked, options, os, who, env, caller, config, child, bash >>

\* The arguments found in the configuration: argc strings that end inside the
\* file, the last one at its end.
Valid(c) ==
  /\ c.size >= HeaderSize /\ c.size <= MaxConfig
  /\ c.argc <= MaxArgc /\ c.argc # 0 /\ c.argc <= Len(c.strings)
  /\ HeaderSize + TotalBytes(SubSeq(c.strings, 1, c.argc)) = c.size

\* Reading the file may fail; a configuration the launcher wrote is not refused.
ReadConfig ==
  /\ at = "read"
  /\ IF Valid(config)
       THEN \/ power_down /\ UNCHANGED vm
            \/ /\ vm' = [vm EXCEPT !.args = SubSeq(config.strings, 1, config.argc)]
               /\ Continues("network")
       ELSE vm' = [vm EXCEPT !.refused = TRUE] /\ power_down
  /\ UNCHANGED << level, argv, asked, options, os, who, env, caller, config, child, bash >>

\* The loopback interface, and the card with its address and route.
network ==
  /\ at = "network"
  /\ \/ power_down /\ UNCHANGED vm
     \/ /\ config.network => machine.card
        /\ vm' = [vm EXCEPT !.up = {"lo"} \cup (IF config.network THEN {"eth0"} ELSE {})]
        /\ Continues("home")
  /\ UNCHANGED << level, argv, asked, options, os, who, env, caller, config, child, bash >>

\* The shared folder, and an environment made from nothing.
Home ==
  /\ at = "home"
  /\ \/ power_down /\ UNCHANGED << vm, env >>
     \/ /\ vm' = [vm EXCEPT !.home = machine.export]
        /\ env' = [term |-> IF config.term = 0 THEN Xterm ELSE config.term,
                   home |-> "/home", oldpwd |-> FALSE, locale |-> "C", prompt |-> "none"]
        /\ Continues("streams")
  /\ UNCHANGED << level, argv, asked, options, os, who, caller, config, child, bash >>

\* A pseudo-terminal of the window's size, or three pipes.
Streams ==
  /\ at = "streams"
  /\ \/ power_down /\ UNCHANGED vm
     \/ /\ vm' = [vm EXCEPT !.streams = IF config.terminal THEN "terminal" ELSE "pipes",
                             !.window = IF config.terminal THEN config.window ELSE Unset]
        /\ Continues("shell")
  /\ UNCHANGED << level, argv, asked, options, os, who, env, caller, config, child, bash >>

\* The forked shell process takes its session, terminal and descriptors and
\* executes the loader; the first string is its name.
Shell ==
  /\ at = "shell"
  /\ \/ power_down /\ UNCHANGED << level, argv, options >>
     \/ /\ level' = "guest" /\ argv' = Tail(vm.args) /\ options' = Defaults
        /\ Continues("options")
  /\ UNCHANGED << asked, os, who, env, caller, config, child, vm, bash >>
-----------------------------------------------------------------------------
(* The loader where Bash is going to run. *)

\* A private mount namespace with the working directory bound at /home.
mount_working_directory_as_home ==
  /\ at = "mount"
  /\ \/ Returns(1) /\ UNCHANGED env
     \/ env' = [env EXCEPT !.home = "/home", !.oldpwd = FALSE] /\ Continues("load")
  /\ UNCHANGED << level, argv, asked, options, os, who, caller, config, child, vm, bash >>

Fixed == << Arg("program"), Arg("--noprofile"), Arg("--norc") >>
Environment ==
  [env EXCEPT !.locale = "C", !.prompt = "kernel-bash",
              !.term = IF @ = Unset THEN Dumb ELSE @]

\* Loading the program and building the guest's arguments and environment.
LoadBash ==
  /\ at = "load"
  /\ \/ Returns(1) /\ UNCHANGED bash
     \/ /\ bash' = [started |-> TRUE, args |-> Fixed \o argv, env |-> Environment,
                    stats |-> options.stats]
        /\ Continues("bash")
  /\ UNCHANGED << level, argv, asked, options, os, who, env, caller, config, child, vm >>

\* Bash runs to its end; its status is the Console's and the Services' matter.
Done == at \in {"bash", "ended"} /\ UNCHANGED startVars

-----------------------------------------------------------------------------
(* What a command line asks for, read as a whole. *)

Least(S) == CHOOSE i \in S : \A j \in S : i <= j
Greatest(S) == CHOOSE i \in S : \A j \in S : i >= j

\* A decimal number within the range.
Proper(text, range) ==
  LET place[i \in 0 .. Len(text)] == IF i = 0 THEN 0 ELSE 10 * place[i - 1] + text[i]
  IN /\ Len(text) \in 1 .. 6 /\ \A i \in DOMAIN text : text[i] \in 0 .. 9
     /\ place[Len(text)] \in range[1] .. range[2]
Decimal(text) ==
  LET place[i \in 0 .. Len(text)] == IF i = 0 THEN 0 ELSE 10 * place[i - 1] + text[i]
  IN place[Len(text)]

\* The options are the longest prefix of settings.  A contradiction or a bad
\* value in them is an error; the last value of a setting counts.
Reading(line) ==
  LET stop == Least({Len(line) + 1} \cup {i \in DOMAIN line : line[i].name \notin Settings})
      given(name) == {i \in 1 .. stop - 1 : line[i].name = name}
      last(name) == line[Greatest(given(name))].text
      bad == \/ given("--host") # {} /\ given("--sandbox") # {}
             \/ \E i \in given("memory") : ~Proper(line[i].text, MemoryRange)
             \/ \E i \in given("cpus") : ~Proper(line[i].text, CpuRange)
             \/ \E i \in given("network") : line[i].text \notin {<< 0 >>, << 1 >>}
      tuned == \E name \in {"memory", "cpus", "network"} : given(name) # {}
      ending == IF stop <= Len(line) THEN line[stop].name ELSE "none"
  IN [ends |-> IF bad THEN 2 ELSE IF ending \in {"--version", "--help"} THEN 0
               ELSE IF tuned /\ given("--host") # {} THEN 2 ELSE Unset,
      rest |-> SubSeq(line, IF ending = "--" THEN stop + 1 ELSE stop, Len(line)),
      mode |-> IF given("--host") # {} THEN "host"
               ELSE IF given("--sandbox") # {} \/ tuned THEN "sandbox" ELSE "default",
      stats |-> given("--stats") # {}, mount |-> given("--mount-cwd") # {},
      memory |-> IF given("memory") = {} THEN 4096 ELSE Decimal(last("memory")),
      cpus |-> IF given("cpus") = {} THEN 2 ELSE Decimal(last("cpus")),
      network |-> given("network") = {} \/ last("network") = << 1 >>]

StartInit ==
  /\ at = "options" /\ level = "host" /\ options = Defaults
  /\ \E n \in 0 .. MaxArgs : argv \in [1 .. n -> Args]
  /\ asked = Reading(argv)
  /\ os = "unread" /\ who = [uid |-> Unset]
  /\ env = [term |-> Unset, home |-> "caller's", oldpwd |-> TRUE, locale |-> "caller's",
            prompt |-> "caller's"]
  /\ caller = [term |-> Unset, terminal |-> FALSE, window |-> Unset]
  /\ config = NoConfig
  /\ fds = << >> /\ layers = {} /\ rules = << >> /\ filter = [x86 |-> FALSE] /\ machine = [memory |-> 0]
  /\ vm = [mounted |-> << >>, loaded |-> {}, channel |-> "none", args |-> << >>, refused |-> FALSE,
           up |-> {}, home |-> "none", streams |-> "none", window |-> Unset]
  /\ bash = [started |-> FALSE]
  /\ status = Unset

Launch == \/ Privileges \/ Prepare \/ configure_guest \/ Fork
          \/ Reserve \/ Limit \/ restrict_qemu \/ Close \/ launch_qemu
Boot == \/ mount_fs \/ modules \/ console_channel \/ ReadConfig \/ network \/ Home \/ Streams \/ Shell
StartNext == \/ ParseOption \/ Announce \/ Choose \/ Launch \/ Boot
             \/ mount_working_directory_as_home \/ LoadBash \/ Done
-----------------------------------------------------------------------------
(* Properties. *)

\* Whether Bash belongs in the machine: it was asked for, or nothing was and
\* this is not an installed system.
InMachine ==
  \/ asked.mode = "sandbox"
  \/ asked.mode = "default" /\ os = "other"

\* Bash runs only where the command line asked for it and as it asked, however
\* many programs the request went through (main, configure_guest, init, main
\* again): its arguments, none parsed twice and none lost, statistics, TERM,
\* the terminal and its window, the network, the folder and the size of the
\* machine.  A launch that cannot give all of that ends with a failure, a
\* mistaken command line with 2, and the guest never refuses a configuration
\* the launcher accepted.
AsAsked ==
  /\ at = "bash" =>
       /\ asked.ends = Unset
       /\ bash.args = Fixed \o asked.rest /\ bash.stats = asked.stats
       /\ level = IF InMachine THEN "guest" ELSE "host"
       /\ level = "guest" =>
            /\ machine.memory = asked.memory /\ machine.cpus = asked.cpus
            /\ vm.home = "share" /\ bash.env.home = "/home" /\ vm.channel = "channel"
            /\ ("eth0" \in vm.up) = asked.network
            /\ vm.streams = (IF caller.terminal THEN "terminal" ELSE "pipes")
            /\ caller.terminal /\ caller.window # Unset => vm.window = caller.window
            /\ bash.env.term = (IF caller.term \in {Unset, 0} THEN Xterm
                               ELSE IF caller.term < TermSize THEN caller.term ELSE TermSize - 1)
       /\ level = "host" =>
            /\ asked.mount => bash.env.home = "/home" /\ ~bash.env.oldpwd
            /\ bash.env.term = (IF caller.term = Unset THEN Dumb ELSE caller.term)
  /\ at = "ended" => IF asked.ends # Unset THEN status = asked.ends ELSE status \in {1, 125}
  /\ ~vm.refused

\* The programs socket_filter builds that enforce the policy.
Enforcing == [x86 \in BOOLEAN, n \in BOOLEAN |->
  {f \in {socket_filter(x86, TRUE), socket_filter(x86, FALSE)} : Enforces(f, x86, n)}]

=============================================================================
