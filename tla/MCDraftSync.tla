---------------------------- MODULE MCDraftSync ----------------------------
(* Instances of DraftSync for TLC. *)
EXTENDS DraftSync

CONSTANTS alice, bob, compose
TwoAccounts == {alice, bob}
OneWindow   == {compose}
=============================================================================
