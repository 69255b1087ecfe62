---------------------------- MODULE OutboxWorker ----------------------------
(***************************************************************************)
(* fc::sync::OutboxWorker and the outbox table: mail the user has sent is  *)
(* a row, and the worker drains the rows of all accounts in batches.  A    *)
(* batch (`busy', `remaining') is over when every callback of it has run.  *)
(*                                                                         *)
(* Each row is posted to the GmailClient of its account, which belongs to  *)
(* the account's context; a context that goes away takes the calls posted  *)
(* to it along, callbacks and all.  Gmail itself is external: it accepts a *)
(* message or not, and the answer to a message it accepted can be lost.    *)
(***************************************************************************)
EXTENDS Integers, FiniteSets

CONSTANTS
    Accounts,
    MaxRows,        \* bound: rows ever enqueued
    kMaxAttempts,
    MaxFaults,      \* bound: requests that fail or are sent again, replies that are lost
    MaxSignOuts,    \* bound
    MaxRemovals,    \* bound
    MaxCrashes      \* bound

ASSUME OutboxAssumption ==
    /\ MaxRows \in Nat /\ kMaxAttempts \in Nat \ {0}
    /\ MaxFaults \in Nat /\ MaxSignOuts \in Nat
    /\ MaxRemovals \in Nat /\ MaxCrashes \in Nat

Ids == 1 .. MaxRows

VARIABLES
    accounts,   \* rows of the accounts table, each with its AccountContext
    doomed,     \* accounts removed whose context still waits for deleteLater
    signedIn,   \* accounts whose OAuthClient has tokens
    outbox,     \* the rows: a function on the ids present
    lastId,     \* AUTOINCREMENT
    busy, remaining,
    calls,      \* sendRaw calls posted or in flight
    accepted,   \* how many copies of each mail Gmail has accepted
    lost,       \* how many of those the program never heard of
    faults, signOuts, removals, crashes

accountVars == <<accounts, doomed, signedIn>>
tableVars   == <<outbox, lastId>>
batchVars   == <<busy, remaining, calls>>
gmailVars   == <<accepted, lost>>
boundVars   == <<faults, signOuts, removals, crashes>>
vars == <<accountVars, tableVars, batchVars, gmailVars, boundVars>>

\* next_retry_at and send_at: only whether they lie in the future, and why.
Waits == {"due", "backoff", "parked", "scheduled"}
Row   == [account : Accounts, state : {"queued", "sending", "failed"},
          attempts : 0 .. kMaxAttempts, wait : Waits]

\* posted: in the event loop; sent: on the wire; accepted: Gmail has it.
Call  == [id : Ids, account : Accounts, attempt : 1 .. kMaxAttempts,
          at : {"posted", "sent", "accepted"}]

Init ==
    /\ accounts = Accounts /\ doomed = {} /\ signedIn = Accounts
    /\ outbox = [i \in {} |-> {}] /\ lastId = 0
    /\ busy = FALSE /\ remaining = 0 /\ calls = {}
    /\ accepted = [i \in Ids |-> 0] /\ lost = [i \in Ids |-> 0]
    /\ faults = 0 /\ signOuts = 0 /\ removals = 0 /\ crashes = 0

Rows == DOMAIN outbox
Fault == faults < MaxFaults /\ faults' = faults + 1 /\ UNCHANGED <<signOuts, removals, crashes>>

-----------------------------------------------------------------------------
(* OutboxRepository.                                                       *)

WithRow(i, r)    == [j \in Rows \cup {i} |-> IF j = i THEN r ELSE outbox[j]]
WithoutRows(I)   == [j \in Rows \ I |-> outbox[j]]

\* An attempt count only matters up to kMaxAttempts.
Count(n) == IF n > kMaxAttempts THEN kMaxAttempts ELSE n

dueForSendAllAccounts(table) ==
    {i \in DOMAIN table : table[i].state \in {"queued", "failed"} /\ table[i].wait = "due"}

\* Mutant of markSending: only the attempt is counted.
markSendingCountsOnly(table, I) ==
    [j \in DOMAIN table |-> IF j \in I THEN [table[j] EXCEPT !.attempts = Count(@ + 1)]
                            ELSE table[j]]

markSending(table, I) ==
    [j \in DOMAIN table |-> IF j \in I
                            THEN [table[j] EXCEPT !.state = "sending", !.attempts = Count(@ + 1)]
                            ELSE table[j]]

markSent(i) == outbox' = WithoutRows({i})

\* Mutant of markFailed: the worker gives up after kMaxAttempts.
markFailedGivesUp(i, wait) ==
    outbox' = IF i \notin Rows THEN outbox
              ELSE IF wait = "parked" THEN WithoutRows({i})
              ELSE [outbox EXCEPT ![i].state = "failed", ![i].wait = wait]

\* Mutant of markFailed: the row still says 'sending'.
markFailedKeepsState(i, wait) ==
    outbox' = IF i \in Rows THEN [outbox EXCEPT ![i].wait = wait] ELSE outbox

\* A row that is gone stays gone: the UPDATE matches nothing.
markFailed(i, wait) ==
    outbox' = IF i \in Rows
              THEN [outbox EXCEPT ![i].state = "failed", ![i].wait = wait]
              ELSE outbox

-----------------------------------------------------------------------------
(* The worker's batch.                                                     *)

\* Row i of the table, on its way to Gmail.
NewCall(table, i) ==
    [id |-> i, account |-> table[i].account,
     attempt |-> Count(table[i].attempts + 1), at |-> "posted"]

\* flush(), on the table as its caller leaves it.
flush(table) ==
    LET items == dueForSendAllAccounts(table)
    IN  IF busy \/ items = {}
        THEN outbox' = table /\ UNCHANGED batchVars
        ELSE /\ busy' = TRUE
             /\ remaining' = Cardinality(items)
             /\ outbox' = markSending(table, items)
             /\ calls' = calls \cup {NewCall(table, i) : i \in items}

Tick ==
    /\ ~ busy /\ dueForSendAllAccounts(outbox) # {}
    /\ flush(outbox)
    /\ UNCHANGED <<accountVars, lastId, gmailVars, boundVars>>

-----------------------------------------------------------------------------
(* The user: composeReady, sign-out and sign-in, removal of data.           *)

enqueue(a, wait) ==
    WithRow(lastId + 1, [account |-> a, state |-> "queued", attempts |-> 0, wait |-> wait])

\* A mail to be sent at once pokes the worker, one for later waits for the timer.
composeReady(a) ==
    /\ lastId < MaxRows /\ a \in accounts
    /\ lastId' = lastId + 1
    /\ \/ flush(enqueue(a, "due"))
       \/ outbox' = enqueue(a, "scheduled") /\ UNCHANGED batchVars
    /\ UNCHANGED <<accountVars, gmailVars, boundVars>>

\* Time passes next_retry_at, or send_at.
Elapse(i) ==
    /\ i \in Rows /\ outbox[i].wait # "due"
    /\ outbox' = [outbox EXCEPT ![i].wait = "due"]
    /\ UNCHANGED <<accountVars, lastId, batchVars, gmailVars, boundVars>>

signOut(a) ==
    /\ signOuts < MaxSignOuts /\ signOuts' = signOuts + 1
    /\ a \in signedIn
    /\ signedIn' = signedIn \ {a}
    /\ UNCHANGED <<accounts, doomed, tableVars, batchVars, gmailVars, faults, removals, crashes>>

signIn(a) ==
    /\ a \in accounts \ signedIn
    /\ signedIn' = signedIn \cup {a}
    /\ UNCHANGED <<accounts, doomed, tableVars, batchVars, gmailVars, boundVars>>

RowsOf(a) == {i \in Rows : outbox[i].account = a}

\* AccountManager::dropCache: the user throws an account's local data away.
dropCache(a) ==
    /\ removals < MaxRemovals /\ removals' = removals + 1
    /\ a \in accounts
    /\ outbox' = WithoutRows(RowsOf(a))
    /\ UNCHANGED <<accountVars, lastId, batchVars, gmailVars, faults, signOuts, crashes>>

\* AccountManager::remove, which the cache dialog calls for accounts that are
\* signed out: the row and, by cascade, its outbox rows.  The context goes with
\* the next turn of the event loop.  (The last account comes back from the
\* settings mirror; that is not modelled here.)
removeAccount(a) ==
    /\ removals < MaxRemovals /\ removals' = removals + 1
    /\ a \in accounts \ signedIn /\ accounts # {a}
    /\ accounts' = accounts \ {a} /\ doomed' = doomed \cup {a}
    /\ outbox' = WithoutRows(RowsOf(a))
    /\ UNCHANGED <<signedIn, lastId, batchVars, gmailVars, faults, signOuts, crashes>>

\* Replies Gmail gave to calls nobody waits for any more.
Unheard(C) == [i \in Ids |-> lost[i] + Cardinality({c \in C : c.id = i /\ c.at = "accepted"})]

\* ~AccountContext: what was posted before the deleteLater has run by now, so
\* these calls are on the wire; no callback of theirs will run.
destroyContext(a) ==
    LET dropped == {c \in calls : c.account = a}
    IN  /\ a \in doomed
        /\ \A c \in dropped : c.at # "posted"
        /\ doomed' = doomed \ {a}
        /\ calls' = calls \ dropped
        /\ lost' = Unheard(dropped)
        /\ UNCHANGED <<accounts, signedIn, tableVars, busy, remaining, accepted, boundVars>>

-----------------------------------------------------------------------------
(* A call and its callback.                                                *)

\* The callback's last act.
onDone(c) ==
    /\ calls' = calls \ {c}
    /\ remaining' = remaining - 1
    /\ busy' = (remaining' > 0)

\* client->sendRaw, in the client's turn of the event loop.
sendRaw(c) ==
    /\ c.at = "posted"
    /\ c.account \in signedIn
    /\ calls' = (calls \ {c}) \cup {[c EXCEPT !.at = "sent"]}
    /\ UNCHANGED <<accountVars, tableVars, busy, remaining, gmailVars, boundVars>>

Accept(c) ==
    /\ c.at = "sent"
    /\ calls' = (calls \ {c}) \cup {[c EXCEPT !.at = "accepted"]}
    /\ accepted' = [accepted EXCEPT ![c.id] = @ + 1]
    /\ UNCHANGED <<accountVars, tableVars, busy, remaining, lost, boundVars>>

\* The connection drops before a byte of the answer has come, and the network stack of
\* Qt 6.4 sends the POST again by itself (RestClient.cpp:134): the program hears of
\* nothing, and goes on waiting for one answer.
Resent(c) ==
    /\ c.at = "accepted"
    /\ Fault
    /\ calls' = (calls \ {c}) \cup {[c EXCEPT !.at = "sent"]}
    /\ lost' = [lost EXCEPT ![c.id] = @ + 1]
    /\ UNCHANGED <<accountVars, tableVars, busy, remaining, accepted>>

itemSent(c) ==
    /\ c.at = "accepted"
    /\ markSent(c.id)
    /\ onDone(c)
    /\ UNCHANGED <<accountVars, lastId, gmailVars, boundVars>>

itemFailed(c) ==
    /\ markFailed(c.id, IF c.attempt >= kMaxAttempts THEN "parked" ELSE "backoff")
    /\ onDone(c)
    /\ UNCHANGED <<accountVars, lastId, accepted>>

\* No token: sendRaw answers at once with an Auth error.
NoToken(c) ==
    /\ c.at = "posted" /\ c.account \notin signedIn
    /\ itemFailed(c)
    /\ UNCHANGED <<lost, boundVars>>

Refused(c) ==
    /\ c.at = "sent"
    /\ Fault
    /\ itemFailed(c)
    /\ UNCHANGED lost

\* The message went out and the reply did not come back.  A POST is not
\* retried by RestClient, but the row is.
ReplyLost(c) ==
    /\ c.at = "accepted"
    /\ Fault
    /\ itemFailed(c)
    /\ lost' = [lost EXCEPT ![c.id] = @ + 1]

Callback(c) == itemSent(c) \/ NoToken(c) \/ Refused(c) \/ ReplyLost(c)

\* The process dies and starts again: AccountManager builds a context for
\* every account, and nothing resets a row that says 'sending'.
Crash ==
    /\ crashes < MaxCrashes /\ crashes' = crashes + 1
    /\ doomed' = {}
    /\ busy' = FALSE /\ remaining' = 0 /\ calls' = {}
    /\ lost' = Unheard(calls)
    /\ UNCHANGED <<accounts, signedIn, tableVars, accepted, faults, signOuts, removals>>

-----------------------------------------------------------------------------
User ==
    \E a \in Accounts :
        \/ composeReady(a) \/ signOut(a) \/ signIn(a)
        \/ dropCache(a) \/ removeAccount(a)

Next ==
    \/ User
    \/ \E i \in Ids : Elapse(i)
    \/ \E a \in Accounts : destroyContext(a)
    \/ Tick
    \/ \E c \in calls : sendRaw(c) \/ Accept(c) \/ Resent(c) \/ Callback(c)
    \/ Crash

Spec == Init /\ [][Next]_vars

\* The worker's timer fires, time passes, requests are answered, and an
\* account that still exists is signed in again in the end.
Fairness ==
    /\ WF_vars(Tick)
    /\ \A i \in Ids : /\ WF_vars(Elapse(i))
                      /\ WF_vars(\E c \in calls : c.id = i /\ (sendRaw(c) \/ Callback(c)))
    /\ \A i \in Ids : WF_vars(\E c \in calls : c.id = i /\ (Accept(c) \/ Refused(c)))
    /\ \A a \in Accounts : WF_vars(signIn(a)) /\ WF_vars(destroyContext(a))

FairSpec == Spec /\ Fairness

-----------------------------------------------------------------------------
TypeOK ==
    /\ accounts \subseteq Accounts /\ doomed \subseteq Accounts /\ signedIn \subseteq accounts
    /\ Rows \subseteq Ids /\ outbox \in [Rows -> Row] /\ lastId \in 0 .. MaxRows
    /\ busy \in BOOLEAN /\ remaining \in Nat /\ calls \subseteq Call
    /\ accepted \in [Ids -> Nat] /\ lost \in [Ids -> Nat]
    /\ faults \in Nat /\ signOuts \in Nat /\ removals \in Nat /\ crashes \in Nat

\* Two calls never carry the same mail, and while a call carries one its row, if
\* it still exists, says 'sending': that is all that keeps the next batch from
\* picking the row up again.
OneCallPerRow ==
    /\ \A c, d \in calls : c.id = d.id => c = d
    /\ \A c \in calls : c.id \in Rows => outbox[c.id].state = "sending"

\* A mail goes out a second time only when the program did not hear of the
\* first: every copy Gmail has but one is a lost reply.
NoBlindResend == \A i \in Ids : accepted[i] <= lost[i] + 1

\* A batch is over exactly when its last callback has run.  Only the removal of
\* an account may leave callbacks that never run.
BatchCounted ==
    /\ busy <=> remaining > 0
    /\ remaining >= Cardinality(calls)
    /\ accounts = Accounts => remaining = Cardinality(calls)

\* Mail leaves the outbox when Gmail has it, or when the user removes the
\* account or its local data.
NoMailDropped ==
    [][\A i \in Rows : i \notin DOMAIN outbox' =>
          accepted[i] > 0 \/ removals' > removals]_vars

\* Where the mail of each row is, for a reader who only knows OutgoingMail.
Whereabouts ==
    [i \in Ids |-> IF i > lastId THEN "unwritten" ELSE IF i \in Rows THEN "kept" ELSE "gone"]

Mail == INSTANCE OutgoingMail WITH
            Mails <- Ids, where <- Whereabouts, copies <- accepted, unheard <- lost,
            purges <- removals

\* The worker, its table and Gmail, with all their batches, attempts and
\* faults, do nothing that OutgoingMail does not: the row of a mail goes only
\* with an answer about it or by the user's hand, and a mail is on offer again
\* only when every copy Gmail has of it went unheard.
ImplementsOutgoingMail == Mail!Spec

\* Mail of an account that stays is sent in the end, unless the process died
\* under it or another account was removed.
MailGoesOut ==
    \A i \in Ids : i \in Rows ~> i \notin Rows \/ crashes > 0 \/ accounts # Accounts

\* OutboxWorker.h:12-13: "On each tick, pulls items whose next_retry_at <= now,
\* dispatches them".  After an account was removed in mid-batch there is no tick
\* any more that does.
DueIsDispatched ==
    \A i \in Ids : i \in dueForSendAllAccounts(outbox) ~> i \notin dueForSendAllAccounts(outbox)
=============================================================================
