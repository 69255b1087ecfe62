------------------------------ MODULE Accounts ------------------------------
(***************************************************************************)
(* The accounts of the program: the rows AccountManager keeps in the cache  *)
(* database, their mirror in the settings, the contexts built for them, and *)
(* the account MainWindow shows.  Two copies of "the current account", one  *)
(* in AccountManager and one in MainWindow, are kept together by signals    *)
(* that come from the keychain, from the browser and from dialogs in which  *)
(* the event loop goes on running.                                          *)
(*                                                                         *)
(* Tokens are there or not; Session has them in detail.  Which account was  *)
(* used or viewed last is left out: where the code asks, it may be any.     *)
(***************************************************************************)
EXTENDS Integers, Sequences, FiniteSets

CONSTANTS
    Emails,
    InitialAccounts,    \* bound: accounts from earlier sessions
    MaxIds,             \* bound: ids minted
    MaxVisits,          \* bound: sign-ins and sign-outs
    MaxFaults,          \* bound: statements and keychain jobs that fail
    MaxTurns            \* bound: questions asked, and times the program ends

ASSUME AccountsAssumption ==
    /\ MaxIds \in Nat /\ InitialAccounts \in 0 .. MaxIds /\ IsFiniteSet(Emails)
    /\ InitialAccounts <= Cardinality(Emails)
    /\ MaxVisits \in Nat /\ MaxFaults \in Nat /\ MaxTurns \in Nat

VARIABLES
    emailOf,    \* the address of each id minted so far
    table,      \* the accounts table
    mirror,     \* the list of accounts in QSettings
    slot,       \* ids with tokens in the keychain
    list,       \* AccountManager::accounts_
    contexts,   \* AccountManager::contexts_
    tokens,     \* the contexts whose OAuthClient is authorized
    signIn,     \* what the client of a sign-in under way, pendingAuth_, waits for
    view,       \* AccountManager::currentId_ and MainWindow::currentAccountId_
    applied,    \* MainWindow::startupSelectionApplied_
    posted,     \* calls queued on the OAuthClients of contexts
    jobs,       \* keychain jobs that have not finished
    asked,      \* the stale accounts of an open "Drop orphaned cache" question
    removing,   \* those still to be removed once it was answered
    forgotten,  \* ids whose row could not be put back, or was passed over, or was removed
                \* while they had tokens or these were on their way
    crossed,    \* ids that had tokens when the keychain reported their sign-out, or that
                \* had none and were in the window when an account was removed
    blind,      \* a statement or a keychain job failed since the start
    visits, faults, turns

diskVars   == <<emailOf, table, mirror>>
memoryVars == <<list, contexts, tokens>>
windowVars == <<view, applied>>
eventVars  == <<posted, jobs>>
askVars    == <<asked, removing>>
boundVars  == <<visits, faults, turns>>
vars == <<diskVars, slot, memoryVars, signIn, windowVars, eventVars, askVars, forgotten, crossed,
          blind, boundVars>>

Ids   == 1 .. MaxIds
SignIns == {"nothing", "browser", "tokens", "address"}
None  == 0
Rows  == [ids : SUBSET Ids, default : SUBSET Ids]
NoRows == [ids |-> {}, default |-> {}]

RowsOf(t, S) == [ids |-> t.ids \cap S, default |-> t.default \cap S]

\* accounts() is ordered by sort_order, which a new row gets after all others.
First(S) == CHOOSE a \in S : \A b \in S : a <= b
InOrder(S) ==
    [i \in 1 .. Cardinality(S) |-> CHOOSE a \in S : Cardinality({b \in S : b <= a}) = i]

Job(op, a) == [op |-> op, id |-> a, live |-> TRUE]
Loads(S)   == [i \in 1 .. Cardinality(S) |-> Job("load", InOrder(S)[i])]

View(c, w) == [current |-> c, window |-> w]

\* The row to start with: the default, or the one used last, which may be any.
\* currentAccountChanged puts it into the window.
selectInitialCurrent(t, v) ==
    IF t.ids = {} THEN {View(None, v.window)}
    ELSE {View(a, a) : a \in IF t.default # {} THEN {First(t.default)} ELSE t.ids}

setCurrentAccountId(t, v, a) ==
    IF a = v.current \/ a \notin t.ids THEN v ELSE View(a, a)

clearAccountUiState(v) == [v EXCEPT !.window = None]

\* The gate: no authorized context, no account in the window.
enforceActiveAccountGate(auth, v) == IF auth = {} THEN clearAccountUiState(v) ELSE v

Init ==
    /\ \E n \in 0 .. InitialAccounts : \E e \in [1 .. n -> Emails] :
          /\ \A a, b \in 1 .. n : e[a] = e[b] => a = b
          /\ emailOf = e
          /\ table = [ids |-> 1 .. n, default |-> {1} \cap (1 .. n)]
    /\ mirror = table /\ slot \in SUBSET table.ids
    /\ list = table /\ contexts = table.ids /\ tokens = {} /\ signIn = "nothing"
    /\ view \in selectInitialCurrent(table, View(None, None)) /\ applied = FALSE
    /\ posted = <<>> /\ jobs = Loads(contexts)
    /\ asked = {} /\ removing = {}
    /\ forgotten = {} /\ crossed = {} /\ blind = FALSE
    /\ visits = 0 /\ faults = 0 /\ turns = 0

Fault == faults < MaxFaults /\ faults' = faults + 1
Turn  == turns < MaxTurns /\ turns' = turns + 1
Visit == visits < MaxVisits /\ visits' = visits + 1

-----------------------------------------------------------------------------
(* AccountManager.                                                         *)

Adopted(t) == table' = t /\ list' = t /\ mirror' = t

\* Mutant of selectFails: the mirror follows the list that could not be read.
selectFailsMirrored(t) ==
    /\ table' = t /\ list' = NoRows /\ mirror' = NoRows
    /\ Fault

\* accounts_ has been cleared, and nothing else happens.
selectFails(t) ==
    /\ table' = t /\ list' = NoRows /\ UNCHANGED mirror
    /\ Fault

\* The rows are back, but are not read again, and the mirror takes the empty list.
rereadFails(t) ==
    /\ t.ids = {} /\ mirror.ids # {}
    /\ table' = mirror /\ list' = NoRows /\ mirror' = NoRows
    /\ Fault

\* reload() of a table with content t, which is put back from the mirror if it is
\* empty, row by row.
reload(t, gone) ==
    \/ /\ IF t.ids # {} THEN Adopted(t) ELSE Adopted(mirror)
       /\ forgotten' = forgotten \cup gone
       /\ UNCHANGED faults
    \/ \E a \in mirror.ids :
       /\ t.ids = {} /\ Adopted(RowsOf(mirror, Ids \ {a}))
       /\ forgotten' = forgotten \cup gone \cup {a}
       /\ Fault
    \/ /\ selectFails(t)
       /\ forgotten' = forgotten \cup gone
    \/ /\ rereadFails(t)
       /\ forgotten' = forgotten \cup gone

Noted == blind' = (blind \/ faults' # faults)

\* The INSERT of add(): the first row is the default.
WithRow(t, a) == [ids |-> t.ids \cup {a}, default |-> IF t.ids = {} THEN {a} ELSE t.default]

\* The table was lost and could not be read at the start, so nothing was put back;
\* with a row of its own it never will be.
Overlooked == IF table.ids = {} THEN mirror.ids ELSE {}

\* add() and ensureContext().
AddedTo(a, t) ==
    /\ reload(t, Overlooked) /\ Noted
    /\ contexts' = contexts \cup {a}
    /\ jobs' = IF a \in contexts THEN jobs ELSE Append(jobs, Job("load", a))
    /\ posted' = Append(posted, [op |-> "adopt", id |-> a])
    /\ \E v \in IF a \notin table.ids /\ view.current = None
                THEN selectInitialCurrent(list', view) ELSE {view} :
          view' = setCurrentAccountId(list', v, a)
    /\ UNCHANGED <<slot, tokens, applied, askVars, visits, turns, crossed>>

setDefault(a) ==
    /\ a \in tokens /\ asked = {} /\ table.default # {a}
    /\ reload([table EXCEPT !.default = {a} \cap table.ids], {}) /\ Noted
    /\ UNCHANGED <<emailOf, slot, contexts, tokens, signIn, windowVars, eventVars, askVars,
                   visits, turns, crossed>>

\* The flags have been cleared and the second statement fails.
setDefaultFails(a) ==
    /\ a \in tokens /\ asked = {}
    /\ Adopted([table EXCEPT !.default = {}]) /\ blind' = TRUE
    /\ Fault
    /\ UNCHANGED <<emailOf, slot, contexts, tokens, signIn, windowVars, eventVars, askVars, forgotten,
                   visits, turns, crossed>>

\* The calls queued on the other clients.
postedToOthers(a) ==
    LET kept == InOrder({i \in DOMAIN posted : posted[i].id # a})
    IN  [j \in DOMAIN kept |-> posted[kept[j]]]

\* remove(), by which the client of the account goes; its keychain jobs do not.
remove(a) ==
    LET v == IF view.current = a THEN View(None, None) ELSE view
        left == contexts \ {a}
        busy == blind \/ a \in tokens \/ \E i \in DOMAIN jobs : jobs[i].id = a
    IN  /\ reload(RowsOf(table, Ids \ {a}), IF busy THEN {a} ELSE {}) /\ Noted
        /\ contexts' = left \cup list'.ids
        /\ tokens' = tokens \ {a}
        /\ view' \in IF v.current = None THEN selectInitialCurrent(list', v) ELSE {v}
        /\ crossed' = crossed \cup ({view'.window} \ (tokens' \cup {None}))
        /\ jobs' = [i \in DOMAIN jobs |->
                      IF jobs[i].id = a THEN [jobs[i] EXCEPT !.live = FALSE] ELSE jobs[i]]
                   \o Loads(list'.ids \ left)
        /\ posted' = postedToOthers(a)

\* "Drop orphaned cache" takes for stale what has no tokens at that moment, and
\* asks; tokens may come while the question is open.
dropOrphans ==
    /\ asked = {} /\ list.ids \ tokens # {} /\ Turn
    /\ asked' = list.ids \ tokens
    /\ UNCHANGED <<diskVars, slot, memoryVars, signIn, windowVars, eventVars, removing, forgotten,
                   blind, visits, faults, crossed>>

answer ==
    /\ asked # {}
    /\ asked' = {} /\ removing' \in {{}, asked}
    /\ UNCHANGED <<diskVars, slot, memoryVars, signIn, windowVars, eventVars, forgotten, blind,
                   boundVars, crossed>>

removeNext ==
    /\ removing # {}
    /\ LET a == First(removing)
       IN  /\ removing' = removing \ {a}
           /\ remove(a)
    /\ UNCHANGED <<emailOf, slot, signIn, applied, asked, visits, turns>>

-----------------------------------------------------------------------------
(* MainWindow.                                                             *)

\* A sign-in has a client of its own, without an account, and there is one at a
\* time.  Nothing ends it that the browser never answers: closing its dialog leaves
\* pendingAuth_, and further sign-ins are refused until the next start.
beginAddAccountFlow ==
    /\ signIn = "nothing" /\ asked = {} /\ Visit
    /\ signIn' = "browser"
    /\ UNCHANGED <<diskVars, slot, memoryVars, windowVars, eventVars, askVars, forgotten, blind,
                   faults, turns, crossed>>

Signing(from, to) ==
    /\ signIn = from /\ signIn' = to
    /\ UNCHANGED <<diskVars, slot, memoryVars, windowVars, eventVars, askVars, forgotten, blind,
                   boundVars, crossed>>

\* The loopback handler is asked for a page: the first request with the state and
\* a code is taken, empty ones and later ones are not.
onAuthCodeCallback == Signing("browser", "tokens")

exchangeCodeForTokens == Signing("tokens", "address")

\* An error or a foreign state from the browser, no tokens, no profile, or no row.
failed == \E from \in SignIns \ {"nothing"} : Signing(from, "nothing")

\* The profile has come: an address that has a row keeps its id.
finalizePendingAddAccountFlow(e) ==
    LET known == {a \in table.ids : emailOf[a] = e}
    IN  /\ signIn = "address" /\ signIn' = "nothing"
        /\ \/ \E a \in known : AddedTo(a, table) /\ UNCHANGED emailOf
           \/ /\ known = {} /\ Len(emailOf) < MaxIds
              /\ emailOf' = Append(emailOf, e)
              /\ AddedTo(Len(emailOf'), WithRow(table, Len(emailOf')))

\* The account menu, and the sidebar.
switchAccount(a) ==
    /\ a \in tokens /\ asked = {}
    /\ view' = setCurrentAccountId(list, view, a)
    /\ UNCHANGED <<diskVars, slot, memoryVars, signIn, applied, eventVars, askVars, forgotten, blind,
                   boundVars, crossed>>

\* The account in the window gives way to the first other one.
onSignOutAccount(a) ==
    /\ a \in tokens /\ asked = {}
    /\ Visit
    /\ posted' = Append(posted, [op |-> "signOut", id |-> a])
    /\ LET others == list.ids \ {a}
       IN  view' = IF a # view.window THEN view
                   ELSE IF others = {} THEN clearAccountUiState(view)
                   ELSE setCurrentAccountId(list, view, First(others))
    /\ UNCHANGED <<diskVars, slot, memoryVars, signIn, applied, jobs, askVars, forgotten, blind,
                   faults, turns, crossed>>

\* The selection of the last session is an account, all of them, or nothing that
\* is left; then it is the first authorized one.
Selections(auth, v) ==
    {v} \cup {setCurrentAccountId(list, v, a) :
                a \in list.ids \cup IF auth \cap list.ids = {} THEN {} ELSE {First(auth \cap list.ids)}}

restoreStartupSelection(auth, v) ==
    IF applied THEN {[view |-> v, applied |-> TRUE]}
    ELSE {[view |-> w, applied |-> TRUE] : w \in Selections(auth, v)}

\* Mutant of Promoted: the first account with tokens takes the window.
PromotedFirst(a, v) == {View(v.current, a)}

\* An empty window takes the account if it is the one AccountManager has chosen,
\* or if that has none.
Promoted(a, v) ==
    IF v.current \in {None, a} THEN {View(a, a)} ELSE {}

\* tokensLoaded of a, with auth for the authorized contexts.
onTokensLoaded(a, auth) ==
    LET v == enforceActiveAccountGate(auth, view)
        shown == IF v.window # None THEN {v} ELSE Promoted(a, v)
    IN  IF a \notin auth \/ shown = {}
        THEN view' = v /\ UNCHANGED applied
        ELSE \E w \in shown : \E r \in restoreStartupSelection(auth, w) :
                view' = r.view /\ applied' = r.applied

\* Mutant of onAccountSignedOut: the gate is not run.
onAccountSignedOutOpen(a) ==
    LET others == (list.ids \ {a}) \cap tokens
    IN  view' = IF a = view.window /\ others # {}
                THEN setCurrentAccountId(list, view, First(others)) ELSE view

\* The keychain entry is gone: the window changes to an account with tokens.
onAccountSignedOut(a) ==
    LET others == (list.ids \ {a}) \cap tokens
        v == IF a # view.window THEN view
             ELSE IF others = {} THEN clearAccountUiState(view)
             ELSE setCurrentAccountId(list, view, First(others))
    IN  view' = enforceActiveAccountGate(tokens, v)

-----------------------------------------------------------------------------
(* Queued calls, and the keychain, which works off its jobs in order.       *)

\* A second save, with the address.
setAccountEmail(a, out) == Append(out, Job("save", a))

adoptTokens ==
    LET a == Head(posted).id
    IN  /\ posted # <<>> /\ Head(posted).op = "adopt"
        /\ posted' = Tail(posted)
        /\ tokens' = tokens \cup {a}
        /\ jobs' = setAccountEmail(a, Append(jobs, Job("save", a)))
        /\ onTokensLoaded(a, tokens')
        /\ UNCHANGED <<diskVars, slot, list, contexts, signIn, askVars, forgotten, blind, boundVars, crossed>>

signOut ==
    LET a == Head(posted).id
    IN  /\ posted # <<>> /\ Head(posted).op = "signOut"
        /\ posted' = Tail(posted)
        /\ tokens' = tokens \ {a}
        /\ jobs' = Append(jobs, Job("erase", a))
        /\ UNCHANGED <<diskVars, slot, list, contexts, signIn, windowVars, askVars, forgotten, blind,
                       boundVars, crossed>>

NextJob(op) == jobs # <<>> /\ Head(jobs).op = op /\ jobs' = Tail(jobs)

\* A load that fails ends like one that finds nothing.
loaded ==
    LET a == Head(jobs).id
    IN  /\ NextJob("load") /\ Head(jobs).live
        /\ \/ /\ tokens' = IF a \in slot THEN tokens \cup {a} ELSE tokens
              /\ UNCHANGED <<blind, faults>>
           \/ UNCHANGED tokens /\ blind' = TRUE /\ Fault
        /\ onTokensLoaded(a, tokens')
        /\ UNCHANGED <<diskVars, slot, list, contexts, signIn, posted, askVars, forgotten,
                       visits, turns, crossed>>

saved ==
    /\ NextJob("save")
    /\ \/ slot' = slot \cup {Head(jobs).id} /\ UNCHANGED <<blind, faults>>
       \/ UNCHANGED slot /\ blind' = TRUE /\ Fault
    /\ UNCHANGED <<diskVars, memoryVars, signIn, windowVars, posted, askVars, forgotten,
                   visits, turns, crossed>>

erased ==
    LET a == Head(jobs).id
    IN  /\ NextJob("erase")
        /\ \/ slot' = slot \ {a} /\ UNCHANGED <<blind, faults>>
           \/ UNCHANGED slot /\ blind' = TRUE /\ Fault
        /\ IF Head(jobs).live
           THEN onAccountSignedOut(a) /\ crossed' = crossed \cup ({a} \cap tokens)
           ELSE UNCHANGED <<view, crossed>>
        /\ UNCHANGED <<diskVars, memoryVars, signIn, applied, posted, askVars, forgotten,
                       visits, turns>>

\* A load calls back into a client that has been deleted: nothing, or a crash.
loadedGone ==
    /\ NextJob("load") /\ ~ Head(jobs).live
    /\ UNCHANGED <<diskVars, slot, memoryVars, signIn, windowVars, posted, askVars, forgotten, blind,
                   boundVars, crossed>>

\* The program ends, and starts again; in between reset-db may have deleted the
\* database.
Restart ==
    /\ Turn
    /\ \/ reload(table, {})
       \/ reload(NoRows, table.ids \ mirror.ids)
    /\ blind' = (faults' # faults)
    /\ contexts' = list'.ids /\ tokens' = {} /\ signIn' = "nothing"
    /\ view' \in selectInitialCurrent(list', View(None, None)) /\ applied' = FALSE
    /\ posted' = <<>> /\ jobs' = Loads(list'.ids)
    /\ asked' = {} /\ removing' = {} /\ crossed' = {}
    /\ UNCHANGED <<emailOf, slot, visits>>

-----------------------------------------------------------------------------
User ==
    \/ dropOrphans \/ answer \/ beginAddAccountFlow
    \/ \E a \in Ids : setDefault(a) \/ setDefaultFails(a) \/ switchAccount(a) \/ onSignOutAccount(a)

SignIn ==
    \/ onAuthCodeCallback \/ exchangeCodeForTokens \/ failed
    \/ \E e \in Emails : finalizePendingAddAccountFlow(e)

Event == adoptTokens \/ signOut \/ loaded \/ saved \/ erased \/ loadedGone

Next == (removing = {} /\ (User \/ SignIn \/ Event)) \/ removeNext \/ Restart

Spec == Init /\ [][Next]_vars

-----------------------------------------------------------------------------
TypeOK ==
    /\ table \in Rows /\ mirror \in Rows /\ list \in Rows
    /\ emailOf \in Seq(Emails) /\ Len(emailOf) <= MaxIds
    /\ slot \cup contexts \cup tokens \cup asked \cup removing \cup forgotten \cup crossed \subseteq Ids
    /\ view \in [current : Ids \cup {None}, window : Ids \cup {None}]
    /\ signIn \in SignIns
    /\ {applied, blind} \subseteq BOOLEAN

\* AccountManager and MainWindow speak of the same accounts: the list, the table,
\* the mirror and the contexts are of the same rows, at most one of them the
\* default, one address has one row, tokens are held by contexts, and the window
\* shows the current account or none; unless a statement failed.
AccountsAgree ==
    ~ blind =>
        /\ list = table /\ mirror = table /\ contexts = table.ids
        /\ Cardinality(table.default) <= 1 /\ table.default \subseteq table.ids
        /\ \A a, b \in table.ids : emailOf[a] = emailOf[b] => a = b
        /\ tokens \subseteq contexts
        /\ (view.current = None) <=> (table.ids = {})
        /\ view.current \in table.ids \cup {None}
        /\ view.window \in {view.current, None}

\* Tokens in the keychain belong to an account the program knows or will know
\* again, however its database was lost: no account is signed out by a reset.
TokensReachable == slot \subseteq table.ids \cup mirror.ids \cup forgotten

\* Nothing is under way any more.
Settled == posted = <<>> /\ jobs = <<>> /\ asked = {} /\ removing = {}

\* In the end the window shows no account if none has tokens, and shows the
\* current account if that has; if it has not, an account with tokens may wait
\* for the user to choose it.  Left out is an account that was signed in again when
\* the keychain reported the sign-out: the window stays empty, and choosing the
\* account changes nothing, as AccountManager has it already.  So is one without
\* tokens that is in the window when an account is removed: nothing takes it out.
WindowSettles ==
    Settled /\ ~ blind =>
        /\ tokens = {} => view.window \in crossed \cup {None}
        /\ view.current \in tokens \ crossed => view.window = view.current
=============================================================================
