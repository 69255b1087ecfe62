----------------------------- MODULE DraftSync -----------------------------
(***************************************************************************)
(* Drafts: a compose window saves its text into a row of the drafts table  *)
(* under a local id, fc::sync::DraftSync creates a Gmail draft from every  *)
(* dirty row, and the answer re-keys the row to Gmail's id and marks it    *)
(* clean.  The window knows nothing of that: it goes on saving under the   *)
(* local id it was given with its first save.                              *)
(*                                                                         *)
(* Nothing opens a stored draft, so a row with Gmail's id is never edited  *)
(* and the branch of flush() for such rows never runs; it is left out.     *)
(* Gmail is external: it creates a draft or not, and its answer can be     *)
(* lost.                                                                   *)
(***************************************************************************)
EXTENDS Integers, FiniteSets

CONSTANTS
    Accounts,
    Windows,        \* compose windows ever opened
    MaxSaves,       \* bound: saves
    MaxFaults,      \* bound: failed requests and statements, resends, lost answers
    MaxSignOuts,    \* bound
    MaxRemovals,    \* bound: accounts removed, local data dropped
    MaxCrashes      \* bound

ASSUME DraftAssumption ==
    /\ MaxSaves \in Nat /\ MaxFaults \in Nat /\ MaxSignOuts \in Nat
    /\ MaxRemovals \in Nat /\ MaxCrashes \in Nat

VARIABLES
    accounts, doomed, signedIn,     \* as in OutboxWorker
    window,     \* what each compose window holds
    drafts,     \* rows under a local id: a function on the keys present
    synced,     \* rows under Gmail's id
    busy, remaining,
    calls,      \* createDraft calls posted or in flight
    gmail,      \* the drafts Gmail has
    told,       \* the text each window last reported as saved, by key; 0: none
    missing,    \* keys whose last save is not on disk: it failed, or was purged
    unheard,    \* creations by key that the table never learned of
    revived,    \* saves by key that inserted anew a row that had gone out before
    saves, faults, signOuts, removals, crashes

accountVars == <<accounts, doomed, signedIn>>
tableVars   == <<drafts, synced>>
batchVars   == <<busy, remaining, calls>>
saveVars    == <<told, missing, revived>>
boundVars   == <<saves, faults, signOuts, removals, crashes>>
vars == <<accountVars, window, tableVars, batchVars, gmail, saveVars, unheard, boundVars>>

\* The local id of a draft is made for its window; a row is one account's.
Keys  == Accounts \X Windows

\* Text 1 is what the window opens with; each edit between two saves is a new one.
Texts == 1 .. (MaxSaves + 1)

\* choices: the accounts that were signed in when it was opened.
Window == [open : BOOLEAN, from : Accounts, choices : SUBSET Accounts, text : Texts,
           dirty : BOOLEAN]
Closed == [open : {FALSE}, from : Accounts, choices : {{}}, text : {1}, dirty : {FALSE}]
Row    == [text : Texts, dirty : BOOLEAN]
Copy   == [id : Nat, key : Keys, text : Texts]

\* overtaken: the row was saved again while the call was out.
Call   == [key : Keys, text : Texts, at : {"posted", "sent", "created"}, id : Nat,
           overtaken : BOOLEAN]
Synced == [id : Nat, key : Keys, text : Texts, overtaken : BOOLEAN]

Init ==
    /\ accounts = Accounts /\ doomed = {} /\ signedIn = Accounts
    /\ window \in [Windows -> Closed]
    /\ drafts = [k \in {} |-> {}] /\ synced = {}
    /\ busy = FALSE /\ remaining = 0 /\ calls = {} /\ gmail = {}
    /\ told = [k \in Keys |-> 0] /\ missing = {}
    /\ unheard = [k \in Keys |-> 0] /\ revived = [k \in Keys |-> 0]
    /\ saves = 0 /\ faults = 0 /\ signOuts = 0 /\ removals = 0 /\ crashes = 0

Fault == faults < MaxFaults /\ faults' = faults + 1 /\ UNCHANGED <<saves, signOuts, removals, crashes>>

Rows == DOMAIN drafts

-----------------------------------------------------------------------------
(* DraftRepository, and the worker's batch.                                *)

Upserted(k, text) ==
    [j \in Rows \cup {k} |-> IF j = k THEN [text |-> text, dirty |-> TRUE] ELSE drafts[j]]

dirtyDraftsAllAccounts(table) == {k \in DOMAIN table : table[k].dirty}

\* Mutant of RekeyedRow: what was pushed, instead of what the row holds.
RekeyedRowOfCall(c) == [id |-> c.id, key |-> c.key, text |-> c.text, overtaken |-> FALSE]

RekeyedRow(c) ==
    [id |-> c.id, key |-> c.key, text |-> drafts[c.key].text, overtaken |-> c.overtaken]

\* Mutant of markSynced: the row is marked clean and keeps its local id.
markSyncedInPlace(c) ==
    /\ drafts' = IF c.key \in Rows THEN [drafts EXCEPT ![c.key].dirty = FALSE] ELSE drafts
    /\ UNCHANGED synced

\* The UPDATE gives the row Gmail's id and clears dirty, whatever its text is
\* by now; it matches nothing when the row is gone.
markSynced(c) ==
    /\ drafts' = [k \in Rows \ {c.key} |-> drafts[k]]
    /\ synced' = IF c.key \in Rows THEN synced \cup {RekeyedRow(c)} ELSE synced

NewCall(table, k) ==
    [key |-> k, text |-> table[k].text, at |-> "posted", id |-> 0, overtaken |-> FALSE]

NewCalls(table, items) == {NewCall(table, k) : k \in items}

\* flush(), on the table and the calls as its caller leaves them.
flush(table, out) ==
    LET items == dirtyDraftsAllAccounts(table)
    IN  IF busy \/ items = {}
        THEN UNCHANGED <<busy, remaining>> /\ calls' = out
        ELSE /\ busy' = TRUE
             /\ remaining' = Cardinality(items)
             /\ calls' = out \cup NewCalls(table, items)

Tick ==
    /\ ~ busy /\ dirtyDraftsAllAccounts(drafts) # {}
    /\ flush(drafts, calls)
    /\ UNCHANGED <<accountVars, window, tableVars, gmail, saveVars, unheard, boundVars>>

-----------------------------------------------------------------------------
(* The compose window.                                                     *)

prefillFrom(a) == [open |-> TRUE, from |-> a, choices |-> signedIn, text |-> 1, dirty |-> FALSE]

\* The account is the one of the mail that is answered, the one last sent from or
\* the current one.  A window that never saved is as good as a new one.
openComposeWindow(w, a) ==
    /\ ~ window[w].open /\ a \in signedIn
    /\ \A b \in Accounts : told[<<b, w>>] = 0
    /\ window' = [window EXCEPT ![w] = prefillFrom(a)]
    /\ UNCHANGED <<accountVars, tableVars, batchVars, gmail, saveVars, unheard, boundVars>>

Type(w) ==
    /\ window[w].open /\ saves < MaxSaves
    /\ window[w].text # saves + 2
    /\ window' = [window EXCEPT ![w].text = saves + 2, ![w].dirty = TRUE]
    /\ UNCHANGED <<accountVars, tableVars, batchVars, gmail, saveVars, unheard, boundVars>>

ChooseFrom(w, a) ==
    /\ window[w].open /\ a \in window[w].choices \ {window[w].from}
    /\ window' = [window EXCEPT ![w].from = a, ![w].dirty = TRUE]
    /\ UNCHANGED <<accountVars, tableVars, batchVars, gmail, saveVars, unheard, boundVars>>

\* A call that is out for key k has been overtaken.
Overtake(k) == {IF c.key = k THEN [c EXCEPT !.overtaken = TRUE] ELSE c : c \in calls}

\* The row went out under this local id, and may be at Gmail.
Pushed(k) == (\E c \in calls : c.key = k) \/ (\E g \in gmail : g.key = k)

\* The handler of saveDraftRequested: an INSERT, or an UPDATE of the window's
\* row, and a flush.  It fails for an account that is no longer there, and may
\* fail otherwise; upsert returns the id all the same and the window says
\* "Draft saved.".
upsert(w, ok) ==
    LET k == <<window[w].from, w>>
        text == window[w].text
    IN  /\ told' = [told EXCEPT ![k] = text]
        /\ IF ok
           THEN /\ drafts' = Upserted(k, text)
                /\ missing' = missing \ {k}
                /\ revived' = [revived EXCEPT ![k] = IF Pushed(k) /\ k \notin Rows
                                                     THEN @ + 1 ELSE @]
                /\ flush(Upserted(k, text), Overtake(k))
           ELSE /\ missing' = missing \cup {k}
                /\ UNCHANGED <<drafts, revived>>
                /\ flush(drafts, calls)
        /\ UNCHANGED synced

saveDraftRequested(w) ==
    /\ \/ window[w].from \in accounts /\ upsert(w, TRUE) /\ UNCHANGED faults
       \/ window[w].from \in accounts /\ faults < MaxFaults /\ faults' = faults + 1
          /\ upsert(w, FALSE)
       \/ window[w].from \notin accounts /\ upsert(w, FALSE) /\ UNCHANGED faults
    /\ saves < MaxSaves /\ saves' = saves + 1
    /\ UNCHANGED <<accountVars, gmail, unheard, signOuts, removals, crashes>>

onSaveDraft(w) ==
    /\ window[w].open
    /\ saveDraftRequested(w)
    /\ window' = [window EXCEPT ![w].dirty = FALSE]

\* "Save draft?": Save, or Discard, which is also what closing a clean window
\* and sending the mail do; none of them touches the row.
closeEvent(w) ==
    /\ window[w].open
    /\ window' = [window EXCEPT ![w].open = FALSE]
    /\ \/ window[w].dirty /\ saveDraftRequested(w)
       \/ UNCHANGED <<accountVars, tableVars, batchVars, gmail, saveVars, unheard, boundVars>>

-----------------------------------------------------------------------------
(* Accounts.                                                               *)

signOut(a) ==
    /\ signOuts < MaxSignOuts /\ signOuts' = signOuts + 1
    /\ a \in signedIn /\ signedIn' = signedIn \ {a}
    /\ UNCHANGED <<accounts, doomed, window, tableVars, batchVars, gmail, saveVars, unheard,
                   saves, faults, removals, crashes>>

signIn(a) ==
    /\ a \in accounts \ signedIn /\ signedIn' = signedIn \cup {a}
    /\ UNCHANGED <<accounts, doomed, window, tableVars, batchVars, gmail, saveVars, unheard,
                   boundVars>>

\* The drafts of an account go with its local data and with its row.
PurgeDrafts(a) ==
    /\ removals < MaxRemovals /\ removals' = removals + 1
    /\ drafts' = [k \in {j \in Rows : j[1] # a} |-> drafts[k]]
    /\ synced' = {s \in synced : s.key[1] # a}
    /\ missing' = missing \cup {k \in Keys : k[1] = a}
    /\ UNCHANGED <<window, batchVars, gmail, told, revived, unheard,
                   saves, faults, signOuts, crashes>>

dropCache(a) ==
    /\ a \in accounts
    /\ PurgeDrafts(a)
    /\ UNCHANGED accountVars

removeAccount(a) ==
    /\ a \in accounts \ signedIn /\ accounts # {a}
    /\ PurgeDrafts(a)
    /\ accounts' = accounts \ {a} /\ doomed' = doomed \cup {a}
    /\ UNCHANGED signedIn

\* Drafts Gmail made whose answers nobody waits for any more.
Unheard(C) == [k \in Keys |-> unheard[k] + Cardinality({c \in C : c.key = k /\ c.at = "created"})]

\* The context goes with the next turn of the event loop, and with it the
\* callbacks of its calls.
destroyContext(a) ==
    LET dropped == {c \in calls : c.key[1] = a}
    IN  /\ a \in doomed /\ \A c \in dropped : c.at # "posted"
        /\ doomed' = doomed \ {a}
        /\ calls' = calls \ dropped
        /\ unheard' = Unheard(dropped)
        /\ UNCHANGED <<accounts, signedIn, window, tableVars, busy, remaining, gmail, saveVars,
                       boundVars>>

-----------------------------------------------------------------------------
(* A call and its callback.                                                *)

onDone(c) ==
    /\ calls' = calls \ {c}
    /\ remaining' = remaining - 1
    /\ busy' = (remaining' > 0)

createDraft(c) ==
    /\ c.at = "posted" /\ c.key[1] \in signedIn
    /\ calls' = (calls \ {c}) \cup {[c EXCEPT !.at = "sent"]}
    /\ UNCHANGED <<accountVars, window, tableVars, busy, remaining, gmail, saveVars, unheard,
                   boundVars>>

Create(c) ==
    /\ c.at = "sent"
    /\ LET id == Cardinality(gmail) + 1
       IN  /\ calls' = (calls \ {c}) \cup {[c EXCEPT !.at = "created", !.id = id]}
           /\ gmail' = gmail \cup {[id |-> id, key |-> c.key, text |-> c.text]}
    /\ UNCHANGED <<accountVars, window, tableVars, busy, remaining, saveVars, unheard, boundVars>>

\* The connection drops before a byte of the answer has come, and the network stack of
\* Qt 6.4 sends the POST again by itself (RestClient.cpp:134): the next answer is about
\* another draft.
Resent(c) ==
    /\ c.at = "created"
    /\ Fault
    /\ calls' = (calls \ {c}) \cup {[c EXCEPT !.at = "sent", !.id = 0]}
    /\ unheard' = [unheard EXCEPT ![c.key] = @ + 1]
    /\ UNCHANGED <<accountVars, window, tableVars, busy, remaining, gmail, saveVars>>

draftPushed(c) ==
    /\ c.at = "created"
    /\ markSynced(c)
    /\ onDone(c)
    /\ UNCHANGED <<accountVars, window, gmail, saveVars, unheard, boundVars>>

\* Mutant of draftFailed: the error path marks the draft clean.
draftFailedMarksClean(c) ==
    /\ drafts' = IF c.key \in Rows THEN [drafts EXCEPT ![c.key].dirty = FALSE] ELSE drafts
    /\ onDone(c)
    /\ UNCHANGED <<accountVars, window, synced, gmail, saveVars>>

\* Mutant of draftFailed: the error path does not call onDone.
draftFailedForgetsBatch(c) ==
    /\ calls' = calls \ {c}
    /\ UNCHANGED <<busy, remaining>>
    /\ UNCHANGED <<accountVars, window, tableVars, gmail, saveVars>>

\* The row stays dirty and goes out again with the next batch.
draftFailed(c) ==
    /\ onDone(c)
    /\ UNCHANGED <<accountVars, window, tableVars, gmail, saveVars>>

NoToken(c) ==
    /\ c.at = "posted" /\ c.key[1] \notin signedIn
    /\ draftFailed(c)
    /\ UNCHANGED <<unheard, boundVars>>

Refused(c) ==
    /\ c.at = "sent" /\ Fault
    /\ draftFailed(c)
    /\ UNCHANGED unheard

\* The draft was created and the answer did not come back, or the UPDATE of
\* markSynced failed, which nothing looks at.
CreationUnrecorded(c) ==
    /\ c.at = "created" /\ Fault
    /\ draftFailed(c)
    /\ unheard' = [unheard EXCEPT ![c.key] = @ + 1]

Callback(c) == draftPushed(c) \/ NoToken(c) \/ Refused(c) \/ CreationUnrecorded(c)

\* The windows go with the process, saved or not.
Crash ==
    /\ crashes < MaxCrashes /\ crashes' = crashes + 1
    /\ doomed' = {} /\ busy' = FALSE /\ remaining' = 0 /\ calls' = {}
    /\ window' = [w \in Windows |-> [window[w] EXCEPT !.open = FALSE]]
    /\ unheard' = Unheard(calls)
    /\ UNCHANGED <<accounts, signedIn, tableVars, gmail, saveVars,
                   saves, faults, signOuts, removals>>

-----------------------------------------------------------------------------
User ==
    \/ \E w \in Windows :
          \/ Type(w) \/ onSaveDraft(w) \/ closeEvent(w)
          \/ \E a \in Accounts : openComposeWindow(w, a) \/ ChooseFrom(w, a)
    \/ \E a \in Accounts : signOut(a) \/ signIn(a) \/ dropCache(a) \/ removeAccount(a)

Next ==
    \/ User
    \/ \E a \in Accounts : destroyContext(a)
    \/ Tick
    \/ \E c \in calls : createDraft(c) \/ Create(c) \/ Resent(c) \/ Callback(c)
    \/ Crash

Spec == Init /\ [][Next]_vars

\* The timer fires, requests are answered, and an account that stays is signed
\* in again in the end.
Fairness ==
    /\ WF_vars(Tick)
    /\ \A k \in Keys :
          /\ WF_vars(\E c \in calls : c.key = k /\ (createDraft(c) \/ Callback(c)))
          /\ WF_vars(\E c \in calls : c.key = k /\ (Create(c) \/ Refused(c)))
    /\ \A a \in Accounts : WF_vars(signIn(a)) /\ WF_vars(destroyContext(a))

FairSpec == Spec /\ Fairness

-----------------------------------------------------------------------------
TypeOK ==
    /\ accounts \subseteq Accounts /\ doomed \subseteq Accounts /\ signedIn \subseteq accounts
    /\ window \in [Windows -> Window]
    /\ Rows \subseteq Keys /\ drafts \in [Rows -> Row] /\ synced \subseteq Synced
    /\ busy \in BOOLEAN /\ remaining \in Nat /\ calls \subseteq Call /\ gmail \subseteq Copy
    /\ told \in [Keys -> Texts \cup {0}] /\ missing \subseteq Keys
    /\ unheard \in [Keys -> Nat] /\ revived \in [Keys -> Nat]
    /\ saves \in 0 .. MaxSaves
    /\ faults \in Nat /\ signOuts \in Nat /\ removals \in Nat /\ crashes \in Nat

\* The text a window last reported as saved is on disk, under the local id or
\* under Gmail's, unless the statement failed or the user purged it: an answer
\* about an older text re-keys the row and keeps the newer one.
SavedTextKept ==
    \A k \in Keys : told[k] # 0 /\ k \notin missing =>
        \/ k \in Rows /\ drafts[k].text = told[k]
        \/ \E s \in synced : s.key = k /\ s.text = told[k]

\* A row that is clean has a Gmail draft of its own, with its text unless it was
\* saved again while the answer was on its way.
CleanRowsAtGmail ==
    /\ \A k \in Rows : drafts[k].dirty
    /\ \A s \in synced : \E g \in gmail :
          /\ g.id = s.id /\ g.key = s.key
          /\ s.overtaken \/ g.text = s.text

Copies(k) == {g \in gmail : g.key = k}

\* A draft is at Gmail twice only when a creation was not recorded, or the
\* window saved under a local id whose row had been re-keyed.
DuplicatesExplained ==
    \A k \in Keys : Cardinality(Copies(k)) <= 1 + unheard[k] + revived[k]

\* As in OutboxWorker, with `busy' alone to keep a row out of two calls: rows
\* are not marked while they are out.
OneCallPerDraft ==
    /\ \A c, d \in calls : c.key = d.key => c = d
    /\ busy <=> remaining > 0
    /\ remaining >= Cardinality(calls)
    /\ accounts = Accounts => remaining = Cardinality(calls)

\* A row of key k is in the table, under its local id or under Gmail's.
Stored(k) == k \in Rows \/ \E s \in synced : s.key = k

\* The answer to an older text marked text t clean: nothing pushes it any more.
MarkedUnpushed(k, t) == \E s \in synced : s.key = k /\ s.text = t /\ s.overtaken

\* A saved text is at Gmail in the end, through failed requests, lost answers and crashes,
\* unless the row is saved with another text, is purged, or was marked clean by the answer to
\* an older text (DraftSync.cpp:106), or an account was removed, which can leave `busy' set.
\* That a dirty row loses its local id is not enough.
DraftsReachGmail ==
    \A k \in Keys, t \in Texts :
        (k \in Rows /\ drafts[k].text = t) ~>
            \/ \E g \in gmail : g.key = k /\ g.text = t
            \/ k \in Rows /\ drafts[k].text # t
            \/ ~ Stored(k) \/ MarkedUnpushed(k, t)
            \/ accounts # Accounts
=============================================================================
