--------------------------- MODULE MCOutboxWorker ---------------------------
(* Instances of OutboxWorker for TLC. *)
EXTENDS OutboxWorker

CONSTANTS alice, bob
TwoAccounts == {alice, bob}
=============================================================================
