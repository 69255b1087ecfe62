---------------------------- MODULE OutgoingMail ----------------------------
(***************************************************************************)
(* What the outbox promises about the mails a user sends, with no batches, *)
(* calls, attempts or accounts: a written mail is kept until the program   *)
(* knows that Gmail has it or the user purges it, and Gmail is handed a    *)
(* second copy only when the answer to the one before was never heard.     *)
(* OutboxWorker implements it.                                             *)
(***************************************************************************)
EXTENDS Integers

CONSTANT Mails

VARIABLES
    where,      \* "unwritten", "kept" or "gone"
    copies,     \* how many copies of each mail Gmail has
    unheard,    \* how many of them the program never heard of
    purges      \* how often the user threw data away

mailVars == <<where, copies, unheard, purges>>

Init ==
    /\ where = [m \in Mails |-> "unwritten"]
    /\ copies = [m \in Mails |-> 0] /\ unheard = [m \in Mails |-> 0]
    /\ purges = 0

Kept == {m \in Mails : where[m] = "kept"}

Write(m) ==
    /\ where[m] = "unwritten"
    /\ where' = [where EXCEPT ![m] = "kept"]
    /\ UNCHANGED <<copies, unheard, purges>>

\* A mail that was purged can still be on the wire.
Deliver(m) ==
    /\ where[m] # "unwritten"
    /\ copies[m] = unheard[m]
    /\ copies' = [copies EXCEPT ![m] = @ + 1]
    /\ UNCHANGED <<where, unheard, purges>>

\* The answers about the mails of M do not arrive.
LoseSight(M) ==
    /\ \A m \in M : unheard[m] < copies[m]
    /\ unheard' = [m \in Mails |-> IF m \in M THEN unheard[m] + 1 ELSE unheard[m]]
    /\ UNCHANGED <<where, copies, purges>>

Forget(m) ==
    /\ m \in Kept
    /\ unheard[m] < copies[m]
    /\ where' = [where EXCEPT ![m] = "gone"]
    /\ UNCHANGED <<copies, unheard, purges>>

Purge(M) ==
    /\ M \subseteq Kept
    /\ where' = [m \in Mails |-> IF m \in M THEN "gone" ELSE where[m]]
    /\ purges' = purges + 1
    /\ UNCHANGED <<copies, unheard>>

Next ==
    \/ \E m \in Mails : Write(m) \/ Deliver(m) \/ Forget(m)
    \/ \E M \in SUBSET Mails : LoseSight(M) \/ Purge(M)

Spec == Init /\ [][Next]_mailVars
=============================================================================
