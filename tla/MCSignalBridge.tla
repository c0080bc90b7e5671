--------------------------- MODULE MCSignalBridge ---------------------------
(* Instances of SignalBridge for TLC. *)
EXTENDS SignalBridge

Plain == [h |-> "fn", reset |-> FALSE, nodefer |-> FALSE, mask |-> {}]
Both == [h |-> "fn", reset |-> FALSE, nodefer |-> FALSE, mask |-> Sig]
Defer == [h |-> "fn", reset |-> FALSE, nodefer |-> TRUE, mask |-> {}]
Reset == [h |-> "fn", reset |-> TRUE, nodefer |-> FALSE, mask |-> {}]
Ignore == [h |-> "ign", reset |-> FALSE, nodefer |-> FALSE, mask |-> {}]

ActionsAll == {Plain, Both, Defer, Reset, Ignore, Default}
MasksTwo == {{}, {1}}
=============================================================================
