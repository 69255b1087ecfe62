----------------------------- MODULE PendingOps -----------------------------
(***************************************************************************)
(* fc::sync::PendingOpsWorker and the pending_ops table: a label change    *)
(* the user makes is shown by the cache at once and queued, and the worker *)
(* replays the queue against Gmail.  The incremental sync brings back what *)
(* Gmail's history says of the labels.                                     *)
(*                                                                         *)
(* All operations of a batch are posted together and Gmail takes them in   *)
(* any order.  An operation leaves the queue when Gmail has taken it, has  *)
(* refused it for good, or has failed kGiveUpAttempts times.               *)
(*                                                                         *)
(* A history of more than one page and an expired one are SyncService's.   *)
(***************************************************************************)
EXTENDS Integers, FiniteSets

CONSTANTS
    Msgs,               \* messages of one account, numbered
    Labels,
    Threads,            \* sets of messages that are changed together
    Edits,              \* the label changes of the UI
    MaxOps,             \* bound: operations ever queued
    kGiveUpAttempts,
    MaxOthers,          \* bound: changes made by other Gmail clients
    MaxFaults,          \* bound: requests that fail or are sent again, replies that are lost
    MaxCrashes          \* bound

ASSUME PendingAssumption ==
    /\ Msgs \subseteq Nat /\ Threads \subseteq SUBSET Msgs
    /\ IsFiniteSet(Msgs)
    /\ Edits \subseteq [add : SUBSET Labels, remove : SUBSET Labels]
    /\ \A e \in Edits : e.add \cap e.remove = {}
    /\ MaxOps \in Nat /\ kGiveUpAttempts \in Nat \ {0}
    /\ MaxOthers \in Nat /\ MaxFaults \in Nat /\ MaxCrashes \in Nat

VARIABLES
    cache,      \* label edges of the rows in the cache
    ops,        \* the rows of pending_ops: a function on the ids present
    lastId,     \* AUTOINCREMENT
    busy, remaining,
    calls,      \* modifyMessage calls in flight
    server,     \* labels of the messages in the mailbox
    touched,    \* labels with history entries that no sync has been told of
    delta,      \* label changes in an answer the sync has yet to apply
    intent,     \* the labels the user last chose
    contested,  \* labels where Gmail need not end as the user chose
    dropped,    \* labels whose operation was given up or never queued, or of
                \* which the news was lost
    others, faults, crashes

tableVars  == <<ops, lastId>>
batchVars  == <<busy, remaining, calls>>
gmailVars  == <<server, touched>>
intentVars == <<intent, contested, dropped>>
boundVars  == <<others, faults, crashes>>
vars == <<cache, tableVars, batchVars, gmailVars, delta, intentVars, boundVars>>

Ids  == 1 .. MaxOps
Op   == [msg : Msgs, add : SUBSET Labels, remove : SUBSET Labels,
         attempts : 0 .. kGiveUpAttempts - 1]
Call == [id : Ids, op : Op, at : {"sent", "applied"}]

\* A label change reads the same on an edit and on an operation.
Touches(e)   == e.add \cup e.remove
After(S, e)  == (S \cup e.add) \ e.remove
NoDelta      == [m \in Msgs |-> [on |-> {}, off |-> {}]]
Pairs(m, L)  == {<<m, l>> : l \in L}

Init ==
    /\ server \in [Msgs -> SUBSET Labels]
    /\ cache = server /\ intent = server
    /\ ops = [i \in {} |-> {}] /\ lastId = 0
    /\ busy = FALSE /\ remaining = 0 /\ calls = {}
    /\ touched = [m \in Msgs |-> {}] /\ delta = NoDelta
    /\ contested = {} /\ dropped = {}
    /\ others = 0 /\ faults = 0 /\ crashes = 0

Fault == faults < MaxFaults /\ faults' = faults + 1 /\ UNCHANGED <<others, crashes>>

-----------------------------------------------------------------------------
(* PendingOpsRepository.                                                   *)

dueAllAccounts(table) == DOMAIN table

\* The operations that still wait to change label l of message m.
Waiting(table, m, l) == {i \in DOMAIN table : table[i].msg = m /\ l \in Touches(table[i])}

\* The id of the operation on m, when one is queued for each message of T.
IdFor(T, m) == lastId + Cardinality({n \in T : n <= m})

\* The table with one more row for each message of T.
enqueueModify(T, e) ==
    [i \in DOMAIN ops \cup {IdFor(T, m) : m \in T} |->
        IF i \in DOMAIN ops THEN ops[i]
        ELSE [msg |-> CHOOSE m \in T : IdFor(T, m) = i,
              add |-> e.add, remove |-> e.remove, attempts |-> 0]]

\* Mutant of markAttempt: the row goes.
markAttemptRemoves(i) == ops' = [j \in DOMAIN ops \ {i} |-> ops[j]]

markAttempt(i) == ops' = [ops EXCEPT ![i].attempts = @ + 1]

remove(i) == ops' = [j \in DOMAIN ops \ {i} |-> ops[j]]

-----------------------------------------------------------------------------
(* The worker's batch.                                                     *)

\* flush(), on the table as its caller leaves it.
flush(table) ==
    /\ ops' = table
    /\ LET due == dueAllAccounts(table)
       IN  IF busy \/ due = {}
           THEN UNCHANGED batchVars
           ELSE /\ busy' = TRUE
                /\ remaining' = Cardinality(due)
                /\ calls' = calls \cup {[id |-> i, op |-> table[i], at |-> "sent"] : i \in due}

Tick ==
    /\ ~ busy /\ DOMAIN ops # {}
    /\ flush(ops)
    /\ UNCHANGED <<cache, lastId, gmailVars, delta, intentVars, boundVars>>

\* The callback's last act.
onDone(c) ==
    /\ calls' = calls \ {c}
    /\ remaining' = remaining - 1
    /\ busy' = (remaining' > 0)

-----------------------------------------------------------------------------
(* The user changes labels.                                                *)

\* What an edit makes of the user's wish: it is queued for the messages of T,
\* and shown but not queued for those of `unqueued'.  A change of a label that no
\* operation waits for is settled by its own operation alone.
Wished(T, unqueued, e) ==
    LET changed == UNION {Pairs(m, Touches(e)) : m \in T}
        orphans == UNION {Pairs(m, Touches(e)) : m \in unqueued}
    IN  /\ intent' = [m \in Msgs |-> IF m \in T THEN After(intent[m], e) ELSE intent[m]]
        /\ contested' = (contested \ changed)
                           \cup {p \in changed : Waiting(ops, p[1], p[2]) # {}} \cup orphans
        /\ dropped' = (dropped \ changed) \cup orphans

\* applyLabelDiff: the cache shows the change.
applyLabelDiff(T, e) ==
    cache' = [m \in Msgs |-> IF m \in T THEN After(cache[m], e) ELSE cache[m]]

\* applyLabelDiff, then enqueueModify, for each message; one flush at the end.
applyLabelDiffToThread(T, e) ==
    /\ lastId + Cardinality(T) <= MaxOps
    /\ lastId' = lastId + Cardinality(T)
    /\ applyLabelDiff(T, e)
    /\ flush(enqueueModify(T, e))
    /\ Wished(T, {}, e)
    /\ UNCHANGED <<gmailVars, delta, boundVars>>

-----------------------------------------------------------------------------
(* A call: Gmail takes it or not, and its callback.                        *)

\* Label entries of the history, for what a change really changes.
Change(m, L) ==
    /\ server' = [server EXCEPT ![m] = L]
    /\ touched' = [touched EXCEPT ![m] = @ \cup (server[m] \ L) \cup (L \ server[m])]

Apply(c) ==
    /\ c.at = "sent"
    /\ calls' = (calls \ {c}) \cup {[c EXCEPT !.at = "applied"]}
    /\ Change(c.op.msg, After(server[c.op.msg], c.op))
    /\ UNCHANGED <<cache, tableVars, busy, remaining, delta, intentVars, boundVars>>

OtherClient(m, l) ==
    /\ others < MaxOthers /\ others' = others + 1
    /\ Change(m, IF l \in server[m] THEN server[m] \ {l} ELSE server[m] \cup {l})
    /\ contested' = contested \cup {<<m, l>>}
    /\ UNCHANGED <<cache, tableVars, batchVars, delta, intent, dropped, faults, crashes>>

\* The connection drops before a byte of the answer has come, and the network stack of
\* Qt 6.4 sends the POST again by itself (RestClient.cpp:134).
Resent(c) ==
    /\ c.at = "applied"
    /\ Fault
    /\ calls' = (calls \ {c}) \cup {[c EXCEPT !.at = "sent"]}
    /\ UNCHANGED <<cache, tableVars, busy, remaining, gmailVars, delta, intentVars>>

itemReconciled(c) ==
    /\ c.at = "applied"
    /\ remove(c.id)
    /\ onDone(c)
    /\ UNCHANGED <<cache, lastId, gmailVars, delta, intentVars, boundVars>>

\* The operation is given up; the cache is not told.
itemDropped(c) ==
    LET pairs == Pairs(c.op.msg, Touches(c.op))
    IN  /\ remove(c.id)
        /\ contested' = contested \cup pairs
        /\ dropped' = dropped \cup pairs
        /\ UNCHANGED intent

\* Mutant of itemFailed: the retry branch does not call onDone.
itemFailedForgetsBatch(c) ==
    /\ \/ c.op.attempts + 1 >= kGiveUpAttempts /\ itemDropped(c) /\ onDone(c)
       \/ /\ c.op.attempts + 1 < kGiveUpAttempts /\ markAttempt(c.id) /\ UNCHANGED intentVars
          /\ calls' = calls \ {c} /\ UNCHANGED <<busy, remaining>>
    /\ UNCHANGED <<cache, lastId, gmailVars, delta>>

\* Any error that is not permanent: no network, no token, a server error.
itemFailed(c) ==
    /\ \/ c.op.attempts + 1 >= kGiveUpAttempts /\ itemDropped(c)
       \/ c.op.attempts + 1 < kGiveUpAttempts /\ markAttempt(c.id) /\ UNCHANGED intentVars
    /\ onDone(c)
    /\ UNCHANGED <<cache, lastId, gmailVars, delta>>

\* The request failed, or (at = "applied") its reply did.
CallFails(c) == Fault /\ itemFailed(c)

\* BadRequest or NotFound.
CallRejected(c) ==
    /\ c.at = "sent"
    /\ Fault
    /\ itemDropped(c)
    /\ onDone(c)
    /\ UNCHANGED <<cache, lastId, gmailVars, delta>>

Callback(c) == itemReconciled(c) \/ CallFails(c) \/ CallRejected(c)

-----------------------------------------------------------------------------
(* The incremental sync, as far as labels go.                              *)

\* Gmail answers with the label changes since the recorded history id.
HistoryAnswered ==
    /\ delta = NoDelta /\ \E m \in Msgs : touched[m] # {}
    /\ delta' = [m \in Msgs |-> [on |-> touched[m] \cap server[m],
                                 off |-> touched[m] \ server[m]]]
    /\ touched' = [m \in Msgs |-> {}]
    /\ UNCHANGED <<cache, tableVars, batchVars, server, intentVars, boundVars>>

\* Mutant of ApplyDeltas: a label change is skipped while an operation of the
\* message waits in the queue.
ApplyDeltasUnlessQueued ==
    /\ delta # NoDelta
    /\ cache' = [m \in Msgs |-> IF \E i \in DOMAIN ops : ops[i].msg = m THEN cache[m]
                                ELSE (cache[m] \cup delta[m].on) \ delta[m].off]
    /\ delta' = NoDelta
    /\ UNCHANGED <<tableVars, batchVars, gmailVars, intentVars, boundVars>>

ApplyDeltas ==
    /\ delta # NoDelta
    /\ cache' = [m \in Msgs |-> (cache[m] \cup delta[m].on) \ delta[m].off]
    /\ delta' = NoDelta
    /\ UNCHANGED <<tableVars, batchVars, gmailVars, intentVars, boundVars>>

-----------------------------------------------------------------------------
(* The process dies.  Calls and a history answer are forgotten; while the  *)
(* answer is unread, the next sync asks from the same history id again.    *)

ProcessEnds ==
    /\ crashes < MaxCrashes /\ crashes' = crashes + 1 /\ UNCHANGED <<others, faults>>
    /\ busy' = FALSE /\ remaining' = 0 /\ calls' = {}
    /\ delta' = NoDelta
    /\ UNCHANGED server

Dies ==
    /\ ProcessEnds
    /\ touched' = [m \in Msgs |-> touched[m] \cup delta[m].on \cup delta[m].off]

Crash == Dies /\ UNCHANGED <<cache, tableVars, intentVars>>

\* It dies inside applyLabelDiffToThread: the messages of S are done, and of m
\* the cache's transaction is, but not the INSERT into the queue.
CrashInEdit(S, m, e) ==
    /\ lastId + Cardinality(S) <= MaxOps
    /\ lastId' = lastId + Cardinality(S)
    /\ applyLabelDiff(S \cup {m}, e)
    /\ ops' = enqueueModify(S, e)
    /\ Wished(S, {m}, e)
    /\ Dies

\* It dies inside ApplyDeltas: the new history id is on disk, and the labels the
\* page speaks of stand as some of its entries, one transaction each, left them.
CrashInSync(shown) ==
    /\ delta # NoDelta
    /\ ProcessEnds
    /\ \A m \in Msgs, l \in Labels :
          l \notin delta[m].on \cup delta[m].off => (l \in shown[m] <=> l \in cache[m])
    /\ cache' = shown
    /\ dropped' = dropped \cup
          UNION {Pairs(m, (delta[m].on \ shown[m]) \cup (delta[m].off \cap shown[m])) :
                    m \in Msgs}
    /\ UNCHANGED <<tableVars, touched, intent, contested>>

-----------------------------------------------------------------------------
Next ==
    \/ \E T \in Threads, e \in Edits : applyLabelDiffToThread(T, e)
    \/ Tick
    \/ \E c \in calls : Apply(c) \/ Resent(c) \/ Callback(c)
    \/ \E m \in Msgs, l \in Labels : OtherClient(m, l)
    \/ HistoryAnswered \/ ApplyDeltas
    \/ Crash
    \/ \E T \in Threads, m \in Msgs, e \in Edits :
          m \in T /\ \E S \in SUBSET (T \ {m}) : CrashInEdit(S, m, e)
    \/ \E shown \in [Msgs -> SUBSET Labels] : CrashInSync(shown)

Spec == Init /\ [][Next]_vars

\* The worker's and the sync's timers fire and requests are answered.
Fairness ==
    /\ WF_vars(Tick)
    /\ \A i \in Ids : WF_vars(\E c \in calls : c.id = i /\ (Apply(c) \/ Callback(c)))
    /\ WF_vars(HistoryAnswered) /\ WF_vars(ApplyDeltas)

FairSpec == Spec /\ Fairness

-----------------------------------------------------------------------------
TypeOK ==
    /\ cache \in [Msgs -> SUBSET Labels] /\ server \in [Msgs -> SUBSET Labels]
    /\ DOMAIN ops \subseteq Ids /\ ops \in [DOMAIN ops -> Op] /\ lastId \in 0 .. MaxOps
    /\ busy \in BOOLEAN /\ remaining \in Nat /\ calls \subseteq Call
    /\ touched \in [Msgs -> SUBSET Labels]
    /\ delta \in [Msgs -> [on : SUBSET Labels, off : SUBSET Labels]]
    /\ intent \in [Msgs -> SUBSET Labels]
    /\ contested \subseteq Msgs \X Labels /\ dropped \subseteq Msgs \X Labels
    /\ others \in Nat /\ faults \in Nat /\ crashes \in Nat

Diverges(m, l) == (l \in cache[m]) # (l \in server[m])

\* The sync has been told, or will be told, of label l of message m.
NewsOf(m, l) == l \in touched[m] \cup delta[m].on \cup delta[m].off

\* The cache shows another label than the mailbox only while something is
\* under way that settles it: an operation in the queue or a history entry the
\* sync has not applied, in whatever order edits, replays, retries, other
\* clients and syncs come.  Only an operation that was given up and a crash in the
\* middle of an edit or of a sync leave a difference nobody works on.
DivergenceIsOwed ==
    \A m \in Msgs, l \in Labels :
        Diverges(m, l) => \/ Waiting(ops, m, l) # {}
                          \/ NewsOf(m, l)
                          \/ <<m, l>> \in dropped

\* A label change made while no earlier change of that label was waiting ends
\* in the mailbox as the user made it, through retries of requests whose reply
\* was lost and through crashes, unless its operation was given up or another
\* client changed the label too.
LastEditReaches ==
    \A m \in Msgs, l \in Labels :
        Waiting(ops, m, l) = {} /\ <<m, l>> \notin contested =>
            (l \in server[m]) = (l \in intent[m])

\* Every operation is settled: the queue drains, whatever fails.
QueueDrains == \A i \in Ids : i \in DOMAIN ops ~> i \notin DOMAIN ops
=============================================================================
