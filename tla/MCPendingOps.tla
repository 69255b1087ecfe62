---------------------------- MODULE MCPendingOps ----------------------------
(* Instances of PendingOps for TLC. *)
EXTENDS PendingOps

CONSTANT inbox

TwoMsgs   == {1, 2}
Inbox     == {inbox}
Selection == {{1}, {1, 2}}
Toggles == {[add |-> {inbox}, remove |-> {}], [add |-> {}, remove |-> {inbox}]}
=============================================================================
