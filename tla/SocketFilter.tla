---------------------------- MODULE SocketFilter ----------------------------
(***************************************************************************)
(* The seccomp program that sandbox_host.c installs before it executes     *)
(* QEMU, as the instructions the kernel interprets, next to the policy its *)
(* comment states.  Jumps are relative and counted by hand in the source,  *)
(* and one architecture has two instructions more than the others.         *)
(*                                                                         *)
(* A word the program loads is the set of the fields that are set in it: a *)
(* number and possibly the x32 bit, a family, a type and its flags.        *)
(***************************************************************************)
EXTENDS Integers, Sequences

Flags == {"CLOEXEC", "NONBLOCK"}
Families == {"UNIX", "INET", "INET6", "NETLINK"}
SocketKinds == {"STREAM", "SEQPACKET", "DGRAM"}

\* struct seccomp_data, as far as the program and the policy look.
SeccompData ==
  [arch : {{"own"}, {"foreign"}},
   nr   : {{"socket"}, {"socketpair"}, {"io_uring_setup"}, {"read"}, {"socket", "x32"}},
   family : {{f} : f \in Families},
   type : {{k} \cup fl : k \in SocketKinds, fl \in SUBSET Flags}]

Word(field) == [op |-> "load", field |-> field]
And(clear) == [op |-> "clear", flags |-> clear]
Jump(word, yes, no) == [op |-> "jeq", word |-> word, yes |-> yes, no |-> no]
JumpX32(yes, no) == [op |-> "jge", yes |-> yes, no |-> no]
Allow == [op |-> "ret", value |-> "allow"]
SB_DENY(error) == [op |-> "ret", value |-> error]

PairBranch == Jump({"socketpair"}, 6, 0)

\* x86 is whether the build is for x86_64.
socket_filter(x86, network) ==
  << Word("arch"), Jump({"own"}, 1, 0), SB_DENY("ENOSYS"), Word("nr") >>
  \o (IF x86 THEN << JumpX32(0, 1), SB_DENY("ENOSYS") >> ELSE << >>)
  \o << Jump({"io_uring_setup"}, 0, 1), SB_DENY("ENOSYS"),
        Jump({"socket"}, 2, 0), PairBranch, Allow,
        Word("family"), Jump({"INET"}, 2, 0), Jump({"INET6"}, 1, 0), SB_DENY("EAFNOSUPPORT"),
        IF network THEN Allow ELSE SB_DENY("EAFNOSUPPORT"),
        Word("family"), Jump({"UNIX"}, 1, 0), SB_DENY("EAFNOSUPPORT"),
        Word("type"), And(Flags), Jump({"STREAM"}, 1, 0), Jump({"SEQPACKET"}, 0, 1),
        Allow, SB_DENY("ESOCKTNOSUPPORT") >>

\* The kernel's interpreter: the verdict of the program from instruction i on,
\* with accumulator a.  Jumps only go forward.
Verdict(program, data) ==
  LET words == {data.arch, data.nr, data.family, data.type, {}}
              \cup {data.type \ Flags}
      run[i \in 1 .. Len(program), a \in words] ==
        LET c == program[i]
            to(n) == run[i + 1 + n, a]
        IN IF c.op = "ret" THEN c.value
           ELSE IF c.op = "load" THEN run[i + 1, data[c.field]]
           ELSE IF c.op = "clear" THEN run[i + 1, a \ c.flags]
           ELSE IF c.op = "jge" THEN to(IF "x32" \in a THEN c.yes ELSE c.no)
           ELSE to(IF a = c.word THEN c.yes ELSE c.no)
  IN run[1, {}]

\* The policy: calls of another system call table and io_uring do not exist;
\* a socket is an Internet one, and only with networking; a pair is a local
\* connection-mode one; nothing else is refused.
Policy(x86, network, data) ==
  IF data.arch # {"own"} \/ (x86 /\ "x32" \in data.nr) \/ data.nr = {"io_uring_setup"}
    THEN "ENOSYS"
  ELSE IF data.nr = {"socket"}
    THEN IF network /\ data.family \in {{"INET"}, {"INET6"}} THEN "allow" ELSE "EAFNOSUPPORT"
  ELSE IF data.nr = {"socketpair"}
    THEN IF data.family # {"UNIX"} THEN "EAFNOSUPPORT"
         ELSE IF data.type \ Flags \in {{"STREAM"}, {"SEQPACKET"}} THEN "allow"
         ELSE "ESOCKTNOSUPPORT"
  ELSE "allow"

Enforces(program, x86, network) ==
  \A data \in SeccompData : Verdict(program, data) = Policy(x86, network, data)
=============================================================================
