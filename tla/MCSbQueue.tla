----------------------------- MODULE MCSbQueue -----------------------------
(* Small instances of SbQueue and SbLog: storages of a few cells make every *)
(* pattern of wrapping, compaction and refusal happen.  The two buffers are *)
(* independent, and each is used while the other is as it began.            *)
EXTENDS SbQueue, SbLog

BothInit == Init /\ LogInit
BothNext == \/ LogInit /\ Next /\ UNCHANGED logVars
            \/ Init /\ LogNext /\ UNCHANGED q
Both == BothInit /\ [][BothNext]_<< q, logVars >>
=============================================================================
