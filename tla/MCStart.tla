------------------------------ MODULE MCStart ------------------------------
(* Start next to RuntimeDirectory for TLC.  The two share no state: each     *)
(* runs while the other stays as it began, so one run covers both.           *)
EXTENDS RuntimeDirectory, Start

SharesAll == {p \in Paths : Len(p) <= 1}
BasesTwo == << << "t" >>, << "v", "t" >> >>

Option(name, text) == [name |-> name, text |-> text]
ArgsAll ==
  {Arg(n) : n \in {"--", "--stats", "--mount-cwd", "--sandbox", "--host", "--version"}}
  \cup {Option("memory", << 9, 9 >>), Option("memory", << 1, 0, 0 >>),
        Option("cpus", << 0, 4 >>), Option("cpus", << 10 >>), Option("network", << 0 >>),
        Option("network", << 1 >>), Option("word", << >>), Option("word", << 7, 7 >>)}
TermsAll == {Unset, 0, 3, 4}
MemoryAll == << 10, 99 >>
CpuAll == << 1, 64 >>
ReleasesAll ==
  {[there |-> FALSE]}
  \cup {[there |-> TRUE, trusted |-> t, lines |-> l] :
          t \in BOOLEAN, l \in {<< "ours" >>, << "ours", "other" >>, << "plain", "ours", "cut" >>}}
IdentitiesAll ==
  {[uid |-> u, euid |-> e, gid |-> g, egid |-> g, sudo_uid |-> s, sudo_gid |-> 1] :
     u \in {0, 1}, e \in {0, 1}, g \in {1}, s \in {Unset, 0, 1, 2}}
GroupsAll == << 1, 3 >>
InheritedAll == {{}, {0, 1, 2}, {1, 2}, {0, 2}, {0, 1}, {0, 1, 2, 3, 5}}

\* Each is idle in one of its initial states while the other runs.
StartIdle == StartInit /\ argv = << >>
RuntimeIdle == Init /\ share = Resolve(mounts, << >>)
BothInit == \/ Init /\ StartIdle
            \/ RuntimeIdle /\ StartInit
BothNext == \/ StartIdle /\ Next /\ UNCHANGED startVars
            \/ RuntimeIdle /\ StartNext /\ UNCHANGED vars
Both == BothInit /\ [][BothNext]_<< vars, startVars >>
=============================================================================
