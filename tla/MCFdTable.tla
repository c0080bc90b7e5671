------------------------------ MODULE MCFdTable ------------------------------
(* FdTable for TLC. *)
EXTENDS FdTable

\* Room to spare; a soft limit below the guest's range; no headroom at all.
LimitsAll == {[soft |-> 4, hard |-> 5], [soft |-> 1, hard |-> 5], [soft |-> 4, hard |-> 4],
              [soft |-> 2, hard |-> 2], [soft |-> 1, hard |-> 1]}
=============================================================================
