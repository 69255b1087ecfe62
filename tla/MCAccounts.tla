----------------------------- MODULE MCAccounts -----------------------------
(* Instances of Accounts for TLC. *)
EXTENDS Accounts

TwoEmails == {"ann", "bob"}
=============================================================================
