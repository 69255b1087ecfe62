------------------------------ MODULE MCReader ------------------------------
(* Instances of Reader with Attachments for TLC. *)
EXTENDS Attachments

TwoAccounts ==
    <<[account |-> "ann", thread |-> "plans"], [account |-> "bob", thread |-> "offer"],
      [account |-> "ann", thread |-> "lunch"], [account |-> "ann", thread |-> "plans"]>>
AllUnread == [m \in Ids |-> IF m = 4 THEN {} ELSE {"INBOX", "UNREAD"}]
TwoScans == <<[msg |-> 1, name |-> "scan"], [msg |-> 1, name |-> "scan"]>>
=============================================================================
