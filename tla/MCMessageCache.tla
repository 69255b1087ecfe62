--------------------------- MODULE MCMessageCache ---------------------------
(* Instances of MessageCache for TLC. *)
EXTENDS MessageCache

TwoMessages == 1 .. 2
=============================================================================
