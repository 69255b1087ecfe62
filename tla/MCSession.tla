------------------------------ MODULE MCSession ------------------------------
(* Instances of Session for TLC. *)
EXTENDS Session

TwoRequests == {"q1", "q2"}
OnePost == {"q2"}
=============================================================================
