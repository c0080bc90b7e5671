------------------------------ MODULE MCSpawn ------------------------------
(* Spawn for TLC: six descriptors, the last three for the report. *)
EXTENDS Spawn

OpenFiles(t) == [i \in Fd |-> IF i \in DOMAIN t THEN t[i] ELSE None]
A == [file |-> "a", cloexec |-> FALSE]
B == [file |-> "b", cloexec |-> TRUE]
\* The first report descriptors are taken; none is left; there is none for the pipe.
TablesSmall == {OpenFiles(0 :> A @@ 3 :> B @@ 4 :> B), OpenFiles(3 :> A @@ 4 :> A @@ 5 :> B),
                [i \in Fd |-> IF i = 2 THEN None ELSE A]}

Act(t, f, o) == [type |-> t, fd |-> f, other |-> o]
ActionsSmall ==
  {Act("dup2", 3, 3), Act("dup2", 0, 2), Act("dup2", 5, 0), Act("dup2", 0, 6),
   Act("open", 3, 0), Act("close", 5, 0), Act("closefrom", 1, 0)}
AttributesSmall == {{"setpgroup", "sigmask"}}
=============================================================================
