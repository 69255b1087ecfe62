---------------------------- MODULE MessageList ----------------------------
(***************************************************************************)
(* The message list of the main window: the rows MessageListModel has       *)
(* loaded of the cache, the conversations opened in it, the footer row, and  *)
(* the handlers of MainWindow that load further rows, ask an account's       *)
(* SyncService for older mail (a top-up) and repaint when it answers.        *)
(*                                                                         *)
(* A row stands for a conversation; with the conversation view off every     *)
(* message is a conversation of its own.  The unread-only filter, the        *)
(* selection and the reader are left out, and so is everything a             *)
(* SyncService does besides taking its slot, storing mail and telling the    *)
(* window; SyncService has the rest.                                         *)
(***************************************************************************)
EXTENDS Integers, Sequences, FiniteSets, Functions

CONSTANTS
    Mail,        \* the messages, from the oldest on: each has an account, a thread and labels
    Fresh,       \* those that reach Gmail while the program runs
    Hits,        \* those the search finds
    Seeded,      \* those in the cache at the start
    Home,        \* the account shown at the start
    PageSize,    \* Preferences::messagePageSize
    MaxPages,    \* kMaxPagesPerTopUp
    MaxChunks,   \* kMaxChunksPerResume
    ViewRows,    \* rows that fit in the list without a scroll bar
    MaxMoves,    \* bound: labels, accounts and searches chosen, caches dropped, syncs and crawls
    MaxPosted,   \* bound: top-ups asked for and not yet taken
    MaxFaults    \* bound: listings that fail, and pages of which messages do

Ids      == DOMAIN Mail
Accounts == {Mail[m].account : m \in Ids}

Nil        == "none"
Inbox      == "INBOX"
AllMail    == "__all_mail"
AllInboxes == "__all_inboxes"
Labels     == {Inbox, AllMail} \cup UNION {Mail[m].labels : m \in Ids}

ASSUME MessageListAssumption ==
    /\ Len(Mail) \in Nat /\ Ids = 1 .. Len(Mail)
    /\ Fresh \subseteq Ids /\ Seeded \subseteq Ids \ Fresh
    /\ Hits \subseteq Ids /\ Home \in Accounts
    /\ \A m, n \in Ids : Mail[m].thread = Mail[n].thread => Mail[m].account = Mail[n].account
    /\ {Nil, AllInboxes} \cap Labels = {} /\ Nil \notin Accounts
    /\ {PageSize, MaxPages, MaxChunks, ViewRows, MaxPosted} \subseteq Nat \ {0}
    /\ {MaxMoves, MaxFaults} \subseteq Nat

VARIABLES
    cached,     \* the messages in the cache
    cursor,     \* account_meta labelTopUp/<label>/pageToken: how much of a label was listed
    slot,       \* SyncService::busy, and of a top-up where it is
    steps,      \* topUpLabelStep calls behind a singleShot(0)
    posted,     \* topUpLabel calls queued on a SyncService
    account,    \* currentAccountId_
    labelId,    \* currentLabelId_
    cross,      \* crossAccountView_
    query,      \* currentSearchQuery_ is not empty
    submitted,  \* a search sent to Gmail has not been answered
    wanted,     \* its messages that are being fetched
    list,       \* the MessageListModel
    footer,     \* its footerState_
    topUps,     \* topUpsInFlight_
    isSyncing,
    exhausted,  \* serverExhaustedByLabel_, with the account whose top-up said so
    memory,     \* labelScrollMemory_: the rows loaded when a label was left
    crossed,    \* what topUps or isSyncing count was begun under another account, or for a
                \* label a search has put aside
    torn,       \* accounts whose cache was dropped under a top-up
    missed,     \* messages a top-up asked for and did not get
    moves, faults

serviceVars == <<cursor, slot, steps>>
placeVars   == <<account, labelId, cross>>
searchVars  == <<query, submitted, wanted>>
barVars     == <<footer, topUps, isSyncing, exhausted>>
ghostVars   == <<crossed, torn, missed>>
listBounds  == <<moves, faults>>
listVars == <<cached, serviceVars, posted, placeVars, searchVars, list, barVars, memory, ghostVars,
              listBounds>>

\* The messages of a set, the newest first.
Rank(S, m) == Cardinality({n \in S : n >= m})
Newest     == [S \in SUBSET Ids |->
                  [i \in 1 .. Cardinality(S) |-> CHOOSE m \in S : Rank(S, m) = i]]

Take(s, n) == SubSeq(s, 1, IF n < Len(s) THEN n ELSE Len(s))
Drop(s, n) == SubSeq(s, n + 1, Len(s))

-----------------------------------------------------------------------------
(* What the repository lists.                                              *)

HasLabel(m, l) == l = AllMail \/ l \in Mail[m].labels

\* The messages of C a source selects, of account a where it has one.
Selected(source, l, a, C) ==
    CASE source \in {"ByLabel", "AllMail"} -> {m \in C : Mail[m].account = a /\ HasLabel(m, l)}
      [] source = "CrossAccountLabel"      -> {m \in C : HasLabel(m, l)}
      [] source = "BySearch"               -> {m \in C : Mail[m].account = a /\ m \in Hits}
      [] source = "None"                   -> {m \in C : m \in Hits}

Together(S, m) == {n \in S : Mail[n].thread = Mail[m].thread}

\* One row for each conversation: its latest message, how many of S it has, and under it the
\* rows of its other messages, none as long as it is shut.
Latest(S) == {m \in S : \A n \in Together(S, m) : n <= m}

Rollup ==
    [S \in SUBSET Ids |->
        LET latest == Newest[Latest(S)]
        IN  [i \in DOMAIN latest |->
                [id |-> latest[i], count |-> Cardinality(Together(S, latest[i])), under |-> <<>>]]]

Listing(L, a, C) == Rollup[Selected(L.source, L.label, a, C)]

-----------------------------------------------------------------------------
(* MessageListModel.  Its rows are one array, in which a conversation is a   *)
(* block: the row that stands for it and the child rows under that.  "skew"  *)
(* is no field of it: the rows are no longer the first of the listing, or    *)
(* the children those of the cache, because a page was fetched behind        *)
(* children or the cache changed and nobody said so.                        *)

Paged(L) == L.source \in {"ByLabel", "CrossAccountLabel", "AllMail"}

\* The rows that stand for conversations, and the places of all rows.
Parents(L) == [i \in DOMAIN L.rows |-> [L.rows[i] EXCEPT !.under = <<>>]]
Places(L)  == {p \in (DOMAIN L.rows) \X (0 .. Len(Mail)) : p[2] <= Len(L.rows[p[1]].under)}

loadFirstPage(source, l, a, C) ==
    LET rows == Take(Rollup[Selected(source, l, a, C)], PageSize)
    IN  [source |-> source, label |-> l, rows |-> rows, expanded |-> {},
         drained |-> source \in {"BySearch", "None"} \/ Len(rows) < PageSize, skew |-> FALSE]

\* The next n rows.  The offset counts every row, children too; the listing has none.
fetched(L, n, a, C) ==
    LET more == Take(Drop(Listing(L, a, C), Cardinality(Places(L))), n)
    IN  [L EXCEPT !.rows = @ \o more, !.drained = Len(more) < n,
                  !.skew = @ \/ \E i \in DOMAIN L.rows : L.rows[i].under # <<>>]

fetchMore(L, a, C) == fetched(L, PageSize, a, C)

\* byThread, newest first, without the message that stands for it.
Children(r, C) == Newest[Together(C, r.id) \ {r.id}]

Expandable(r) == r.count > 1

toggleThreadExpand(L, i, C) ==
    LET t == Mail[L.rows[i].id].thread
    IN  IF t \in L.expanded
        THEN [L EXCEPT !.rows[i].under = <<>>, !.expanded = @ \ {t}]
        ELSE [L EXCEPT !.rows[i].under = Children(L.rows[i], C) \o @, !.expanded = @ \cup {t}]

\* The first rows anew, at least as many conversations as there were, and one more to
\* see whether the cache has it.
Requeried(L, n, a, C) ==
    LET found == Listing(L, a, C)
        limit == IF n > PageSize THEN n ELSE PageSize
    IN  [L EXCEPT !.rows = Take(found, limit), !.expanded = {}, !.skew = FALSE,
                  !.drained = L.source = "BySearch" \/ Len(found) <= limit]

\* Conversations of E opened in rows that are all shut.
Reopened(L, E, C) ==
    LET Open(r) == Expandable(r) /\ Mail[r.id].thread \in E
    IN  [L EXCEPT
            !.rows = [i \in DOMAIN L.rows |->
                [L.rows[i] EXCEPT !.under = IF Open(L.rows[i]) THEN Children(L.rows[i], C) ELSE <<>>]],
            !.expanded = {Mail[L.rows[i].id].thread : i \in {j \in DOMAIN L.rows : Open(L.rows[j])}}]

\* Mutant of refreshFromSource: the children are not looked up again.
refreshFromSourceShut(L, a, C) ==
    [Requeried(L, Len(L.rows), a, C) EXCEPT !.expanded = L.expanded]

refreshFromSource(L, a, C) ==
    Reopened(Requeried(L, Len(L.rows), a, C), L.expanded, C)

expandLoadedRows(L, n, a, C) ==
    IF ~Paged(L) \/ Len(L.rows) >= n THEN L ELSE Requeried(L, n, a, C)

\* Page after page until one is short, or MaxChunks were fetched.
resumeAfterTopUp(L, a, C) ==
    IF L.source \notin {"ByLabel", "AllMail"} THEN L ELSE fetched(L, MaxChunks * PageSize, a, C)

sourceLabelId(L) == IF Paged(L) THEN L.label ELSE Nil

-----------------------------------------------------------------------------
(* MainWindow.                                                             *)

\* The list for a place.  A search over all accounts is put into the model by replaceAll.
reloadCurrentLabel(a, c, l, q, C) ==
    IF c /\ q           THEN loadFirstPage("None", Nil, a, C)
    ELSE IF c           THEN loadFirstPage("CrossAccountLabel", l, a, C)
    ELSE IF l = AllMail THEN loadFirstPage("AllMail", l, a, C)
    ELSE IF ~q          THEN loadFirstPage("ByLabel", l, a, C)
    ELSE loadFirstPage("BySearch", Nil, a, C)

Footer(L, t, s, x) ==
    IF t > 0 \/ s THEN "Loading"
    ELSE IF Paged(L) /\ L.drained /\ x[L.label] # Nil THEN "NoMore" ELSE "None"

RowCount(L, f) == Cardinality(Places(L)) + IF f = "None" THEN 0 ELSE 1

\* A handler that ends in refreshListFooter.  c: what is counted is no longer of this place.
Shown(L, t, s, x, c) ==
    /\ \E M \in {L} : list' = M /\ footer' = Footer(M, t, s, x)
    /\ topUps' = t /\ isSyncing' = s /\ exhausted' = x
    /\ crossed' = ((crossed \/ c) /\ (t > 0 \/ s))

\* The cache changes and the window is not told.
Unannounced(C) ==
    [list EXCEPT !.skew =
        \/ @
        \/ Listing(list, account, C) # Listing(list, account, cached)
        \/ \E i \in DOMAIN list.rows : /\ Mail[list.rows[i].id].thread \in list.expanded
                                       /\ Children(list.rows[i], C) # Children(list.rows[i], cached)]

\* messagesUpdated: only the current account's reach the list, and not one put there by
\* replaceAll.
messagesUpdated(a, C) ==
    IF a = account /\ list.source # "None" THEN refreshFromSource(list, account, C) ELSE Unannounced(C)

\* syncFinished, which follows every Idle.
StillSyncing(a) == isSyncing /\ ~(a = account /\ topUps = 0)

Free == [busy |-> "no", label |-> Nil, pages |-> 0, from |-> 0]

ListInit ==
    /\ cached = Seeded /\ cursor = [a \in Accounts |-> [l \in Labels |-> 0]]
    /\ slot = [a \in Accounts |-> Free] /\ steps = [a \in Accounts |-> <<>>]
    /\ posted = [a \in Accounts |-> <<>>]
    /\ account = Home /\ labelId = Inbox /\ cross = FALSE
    /\ query = FALSE /\ submitted = Nil /\ wanted = {}
    /\ list = reloadCurrentLabel(account, FALSE, Inbox, FALSE, cached)
    /\ footer = "None" /\ topUps = 0 /\ isSyncing = FALSE
    /\ exhausted = [l \in Labels |-> Nil]
    /\ memory = [k \in (Accounts \cup {AllInboxes}) \X Labels |-> 0]
    /\ crossed = FALSE /\ torn = {} /\ missed = {}
    /\ moves = 0 /\ faults = 0

Move == moves < MaxMoves /\ moves' = moves + 1 /\ UNCHANGED faults
Fault == faults < MaxFaults /\ faults' = faults + 1 /\ UNCHANGED moves

(* Places.                                                                 *)

\* currentAccountChanged, from the account menu.
currentAccountChanged(a) ==
    /\ a # account /\ Move
    /\ account' = a /\ labelId' = Inbox
    /\ Shown(reloadCurrentLabel(a, cross, Inbox, query, cached), topUps, isSyncing, exhausted, TRUE)
    /\ UNCHANGED <<cached, serviceVars, posted, cross, searchVars, memory, torn, missed>>

\* The view to leave is remembered under the view to come, which is already in cross.
labelScrollKey(a, l, c) == <<IF c THEN AllInboxes ELSE a, l>>

restoreLabelScrollState(L, f, n, a) ==
    IF n > RowCount(L, f) THEN expandLoadedRows(L, n, a, cached) ELSE L

\* A click on label l of account a, or on All Inboxes.  A label of another account first
\* changes the account, which shows its INBOX: if that was the label, nothing is left to do.
onLabelSelected(a, id) ==
    LET c  == id = AllInboxes
        l  == IF c THEN Inbox ELSE id
        L1 == IF a = account THEN list ELSE reloadCurrentLabel(a, c, Inbox, query, cached)
        l1 == IF a = account THEN labelId ELSE Inbox
        f1 == IF a = account THEN footer ELSE Footer(L1, topUps, isSyncing, exhausted)
        m  == [memory EXCEPT ![labelScrollKey(a, l1, c)] = RowCount(L1, f1)]
        L2 == reloadCurrentLabel(a, c, l, query, cached)
        f2 == Footer(L2, 0, isSyncing, exhausted)
        same == ~cross /\ ~c /\ l = l1
    IN  /\ c => a = account
        /\ ~(same /\ a = account) /\ Move
        /\ account' = a /\ labelId' = l /\ cross' = c
        /\ IF same
           THEN /\ Shown(L1, topUps, isSyncing, exhausted, TRUE)
                /\ UNCHANGED <<memory, posted>>
           ELSE /\ memory' = m
                /\ Shown(restoreLabelScrollState(L2, f2, m[labelScrollKey(a, l, c)], a),
                         0, isSyncing, exhausted, a # account)
                /\ posted' = IF query THEN posted ELSE [posted EXCEPT ![a] = Append(@, id)]
        /\ UNCHANGED <<cached, serviceVars, searchVars, torn, missed>>

\* onSearchChanged: the text becomes a query, or empty.
onSearchChanged ==
    /\ Move /\ query' = ~query
    /\ Shown(reloadCurrentLabel(account, cross, labelId, ~query, cached), topUps, isSyncing,
             exhausted, topUps > 0)
    /\ UNCHANGED <<cached, serviceVars, posted, placeVars, submitted, wanted, memory, torn, missed>>

onSearchSubmit ==
    /\ query /\ submitted = Nil /\ Move
    /\ submitted' = account
    /\ UNCHANGED <<cached, serviceVars, posted, placeVars, query, wanted, list, barVars, memory,
                   ghostVars>>

\* The answer asks for what the cache lacks and makes its text the query again.
SearchAnswered ==
    /\ submitted # Nil
    /\ submitted' = Nil
    /\ \/ /\ Fault /\ UNCHANGED <<query, wanted, placeVars, list, barVars, crossed>>
       \/ /\ query' = TRUE
          /\ wanted' = wanted \cup {m \in Hits \ cached : Mail[m].account = submitted}
          /\ Shown(reloadCurrentLabel(account, cross, labelId, TRUE, cached), topUps, isSyncing,
                   exhausted, topUps > 0)
          /\ UNCHANGED <<placeVars, listBounds>>
    /\ UNCHANGED <<cached, serviceVars, posted, memory, torn, missed>>

\* It is stored, if it came, and nobody is told.
HitArrives(m) ==
    /\ m \in wanted /\ wanted' = wanted \ {m}
    /\ cached' \in {cached, cached \cup {m}}
    /\ list' = Unannounced(cached')
    /\ UNCHANGED <<serviceVars, posted, placeVars, query, submitted, barVars, memory, ghostVars,
                   listBounds>>

(* Rows.                                                                   *)

\* canFetchMore and fetchMore, called by the view; cacheExhausted asks for a top-up.
fetchesFromView ==
    /\ Paged(list) /\ ~list.drained
    /\ \E L \in {fetchMore(list, account, cached)} :
       IF L.drained
       THEN /\ Shown(L, topUps, isSyncing, exhausted, FALSE)
            /\ posted' = IF exhausted[L.label] # Nil THEN posted
                         ELSE [posted EXCEPT ![account] = Append(@, L.label)]
       ELSE list' = L /\ UNCHANGED <<posted, barVars, crossed>>
    /\ UNCHANGED <<cached, serviceVars, placeVars, searchVars, memory, torn, missed, listBounds>>

\* Mutant of scrolledToEnd: the scroll bar asks for nothing.
scrolledToEndIdle == FALSE /\ UNCHANGED listVars

\* The scroll bar nears its end and the cache has been read to its end.
scrolledToEnd ==
    LET l == sourceLabelId(list) IN
    /\ RowCount(list, footer) > ViewRows
    /\ l # Nil /\ list.drained /\ topUps = 0 /\ exhausted[l] = Nil
    /\ Len(posted[account]) < MaxPosted
    /\ posted' = [posted EXCEPT ![account] = Append(@, l)]
    /\ UNCHANGED <<cached, serviceVars, placeVars, searchVars, list, barVars, memory, ghostVars,
                   listBounds>>

\* A click on the chevron.
chevronClicked ==
    /\ \E i \in DOMAIN list.rows :
          Expandable(list.rows[i]) /\ list' = toggleThreadExpand(list, i, cached)
    /\ UNCHANGED <<cached, serviceVars, posted, placeVars, searchVars, barVars, memory, ghostVars,
                   listBounds>>

-----------------------------------------------------------------------------
(* The SyncServices.                                                       *)

\* A timer's sync takes the slot: syncStarted.
SyncBegins(a) ==
    /\ slot[a].busy = "no" /\ Move
    /\ slot' = [slot EXCEPT ![a] = [Free EXCEPT !.busy = "sync"]]
    /\ IF a = account /\ topUps = 0
       THEN Shown(list, topUps, TRUE, exhausted, FALSE)
       ELSE UNCHANGED <<list, barVars, crossed>>
    /\ UNCHANGED <<cached, cursor, steps, posted, placeVars, searchVars, memory, torn, missed>>

\* It may store new mail, or seed an empty cache; then Idle.
SyncEnds(a) ==
    LET own == {m \in Ids : Mail[m].account = a}
        seed == IF own \cap cached = {} THEN Seeded \cap own ELSE {}
    IN  /\ slot[a].busy = "sync"
        /\ slot' = [slot EXCEPT ![a] = Free]
        /\ \E S \in {{}, seed} \cup {{m} : m \in (Fresh \cap own) \ cached} :
              LET L == IF S = {} THEN list ELSE messagesUpdated(a, cached \cup S)
              IN  /\ cached' = cached \cup S
                  /\ IF a = account
                     THEN Shown(L, topUps, StillSyncing(a), exhausted, FALSE)
                     ELSE list' = L /\ UNCHANGED <<barVars, crossed>>
        /\ UNCHANGED <<cursor, steps, posted, placeVars, searchVars, memory, torn, missed, listBounds>>

Listed(a, l, n) ==
    [busy |-> "topUp", label |-> l, pages |-> n,
     from |-> IF l \in Labels THEN cursor[a][l] ELSE 0]

\* topUpStarted, and the listing it sends.
topUpLabel(a, l) ==
    /\ slot' = [slot EXCEPT ![a] = Listed(a, l, 0)]
    /\ IF a = account /\ l = sourceLabelId(list)
       THEN Shown(list, topUps + 1, isSyncing, exhausted, FALSE)
       ELSE UNCHANGED <<list, barVars, crossed>>

\* A queued topUpLabel runs; it is dropped if the slot is taken.
PostRuns(a) ==
    /\ posted[a] # <<>>
    /\ posted' = [posted EXCEPT ![a] = Tail(@)]
    /\ IF slot[a].busy = "no" THEN topUpLabel(a, Head(posted[a]))
       ELSE UNCHANGED <<slot, list, barVars, crossed>>
    /\ UNCHANGED <<cached, cursor, steps, placeVars, searchVars, memory, torn, missed, listBounds>>

tickBackgroundCrawl(a) ==
    /\ slot[a].busy = "no" /\ Move
    /\ \E l \in Labels \ {AllMail} : topUpLabel(a, l)
    /\ UNCHANGED <<cached, cursor, steps, posted, placeVars, searchVars, memory, torn, missed>>

\* Mutant of topUpFinished: what was begun is not counted down.
topUpFinishedUncounted(a, C, L, s, l, n, done) ==
    IF a # account THEN list' = L /\ UNCHANGED <<barVars, crossed>>
    ELSE LET x    == IF l \in Labels THEN [exhausted EXCEPT ![l] = IF done THEN a ELSE Nil]
                     ELSE exhausted
             mine == l = sourceLabelId(L)
         IN  Shown(IF mine /\ n > 0 THEN resumeAfterTopUp(L, a, C) ELSE L, topUps, s, x, FALSE)

\* topUpFinished, with list L and isSyncing s: n rows came, and Gmail had no more if done.
topUpFinished(a, C, L, s, l, n, done) ==
    IF a # account THEN list' = L /\ UNCHANGED <<barVars, crossed>>
    ELSE LET x    == IF l \in Labels THEN [exhausted EXCEPT ![l] = IF done THEN a ELSE Nil]
                     ELSE exhausted
             mine == l = sourceLabelId(L)
         IN  Shown(IF mine /\ n > 0 THEN resumeAfterTopUp(L, a, C) ELSE L,
                   IF mine /\ topUps > 0 THEN topUps - 1 ELSE topUps, s, x, FALSE)

\* What Gmail lists of label l.
AtGmail(a, l) == Newest[{m \in Ids \ Fresh : Mail[m].account = a /\ HasLabel(m, l)}]

\* The listing failed, as it always does for All Inboxes, which is no label of Gmail.
TopUpFails(a) ==
    LET l == slot[a].label IN
    /\ slot[a].busy = "topUp"
    /\ IF l = AllInboxes THEN UNCHANGED <<cursor, listBounds>>
       ELSE Fault /\ cursor' = [cursor EXCEPT ![a][l] = 0]
    /\ slot' = [slot EXCEPT ![a] = Free] /\ UNCHANGED cached
    /\ topUpFinished(a, cached, list, StillSyncing(a), l, 0, FALSE)
    /\ UNCHANGED <<steps, posted, placeVars, searchVars, memory, torn, missed>>

\* A page of ids came.  What the cache lacks is asked for and stored, without the messages
\* that do not come: they count as stored, and the cursor passes them.  If the cache lacks
\* nothing, the next page follows, up to MaxPages.
TopUpAnswered(a) ==
    LET l     == slot[a].label
        all   == AtGmail(a, l)
        page  == Range(Take(Drop(all, slot[a].from), PageSize))
        next  == IF slot[a].from + PageSize >= Len(all) THEN 0 ELSE slot[a].from + PageSize
        found == page \ cached
        pages == slot[a].pages + 1
        goOn  == found = {} /\ next # 0 /\ pages < MaxPages
    IN  /\ slot[a].busy = "topUp" /\ l \in Labels
        /\ \/ cached' = cached \cup found /\ UNCHANGED <<missed, listBounds>>
           \/ \E failed \in SUBSET found \ {{}} :
                 Fault /\ cached' = cached \cup (found \ failed) /\ missed' = missed \cup failed
        /\ cursor' = [cursor EXCEPT ![a][l] = next]
        /\ slot' = [slot EXCEPT ![a] = Free]
        /\ \E L \in {messagesUpdated(a, cached')} :
           IF goOn
           THEN /\ steps' = [steps EXCEPT ![a] = Append(@, [label |-> l, pages |-> pages])]
                /\ IF a = account THEN Shown(L, topUps, StillSyncing(a), exhausted, FALSE)
                   ELSE list' = L /\ UNCHANGED <<barVars, crossed>>
           ELSE /\ topUpFinished(a, cached', L, StillSyncing(a), l, Cardinality(found), next = 0)
                /\ UNCHANGED steps
        /\ UNCHANGED <<posted, placeVars, searchVars, memory, torn>>

\* The next page, unless something else has taken the slot.
topUpLabelStep(a) ==
    LET step == Head(steps[a]) IN
    /\ steps[a] # <<>>
    /\ steps' = [steps EXCEPT ![a] = Tail(@)]
    /\ UNCHANGED cached
    /\ IF slot[a].busy = "no"
       THEN /\ slot' = [slot EXCEPT ![a] = Listed(a, step.label, step.pages)]
            /\ UNCHANGED <<list, barVars, crossed>>
       ELSE /\ topUpFinished(a, cached, list, isSyncing, step.label, 0, FALSE)
            /\ UNCHANGED slot
    /\ UNCHANGED <<cursor, posted, placeVars, searchVars, memory, torn, missed, listBounds>>

\* Mutant of cacheCleared: the labels stay exhausted.
cacheClearedKept(a) ==
    LET C == {m \in cached : Mail[m].account # a} IN
    /\ Move
    /\ cached' = C /\ cursor' = [cursor EXCEPT ![a] = [l \in Labels |-> 0]]
    /\ torn' = IF a # account \/ slot[a].busy = "topUp" \/ steps[a] # <<>> THEN torn \cup {a}
               ELSE torn \ {a}
    /\ missed' = {m \in missed : Mail[m].account # a}
    /\ IF a = account
       THEN Shown(reloadCurrentLabel(a, cross, labelId, query, C), topUps, isSyncing,
                  exhausted, FALSE)
       ELSE list' = Unannounced(C) /\ UNCHANGED <<barVars, crossed>>
    /\ UNCHANGED <<slot, steps, posted, placeVars, searchVars, memory>>

\* dropCache and the window's handler.
cacheCleared(a) ==
    LET C == {m \in cached : Mail[m].account # a} IN
    /\ Move
    /\ cached' = C /\ cursor' = [cursor EXCEPT ![a] = [l \in Labels |-> 0]]
    /\ torn' = IF a # account \/ slot[a].busy = "topUp" \/ steps[a] # <<>> THEN torn \cup {a}
               ELSE torn \ {a}
    /\ missed' = {m \in missed : Mail[m].account # a}
    /\ IF a = account
       THEN Shown(reloadCurrentLabel(a, cross, labelId, query, C), topUps, isSyncing,
                  [l \in Labels |-> Nil], FALSE)
       ELSE list' = Unannounced(C) /\ UNCHANGED <<barVars, crossed>>
    /\ UNCHANGED <<slot, steps, posted, placeVars, searchVars, memory>>

-----------------------------------------------------------------------------
Service(a) ==
    \/ SyncBegins(a) \/ SyncEnds(a)
    \/ PostRuns(a) \/ tickBackgroundCrawl(a)
    \/ TopUpFails(a) \/ TopUpAnswered(a) \/ topUpLabelStep(a)

ListNext ==
    \/ \E a \in Accounts : Service(a)
    \/ \E a \in Accounts : currentAccountChanged(a)
    \/ \E a \in Accounts, id \in Labels \cup {AllInboxes} : onLabelSelected(a, id)
    \/ \E a \in Accounts : cacheCleared(a)
    \/ onSearchChanged \/ onSearchSubmit \/ SearchAnswered
    \/ \E m \in Ids : HitArrives(m)
    \/ fetchesFromView \/ scrolledToEnd \/ chevronClicked

\* A SyncService runs what is queued on it and gives up the slot again.
QueueMoves(a)  == posted[a] # <<>> /\ posted' = [posted EXCEPT ![a] = Tail(@)]
StepsMove(a)   == steps[a] # <<>> /\ steps' = [steps EXCEPT ![a] = Tail(@)]
SlotReturns(a) == slot[a].busy # "no" /\ slot' = [slot EXCEPT ![a] = Free]

\* And the user goes on scrolling.
ListGrows == Paged(list) /\ ~list.drained /\ list' = fetchMore(list, account, cached)

Fairness ==
    /\ \A a \in Accounts :
          WF_posted(QueueMoves(a)) /\ WF_steps(StepsMove(a)) /\ WF_slot(SlotReturns(a))
    /\ WF_list(ListGrows) /\ WF_posted(scrolledToEnd)

ListSpec == ListInit /\ [][ListNext]_listVars /\ Fairness

-----------------------------------------------------------------------------
ListTypeOK ==
    /\ cached \subseteq Ids /\ wanted \subseteq Ids /\ missed \subseteq Ids /\ torn \subseteq Accounts
    /\ cursor \in [Accounts -> [Labels -> Nat]]
    /\ \A a \in Accounts : slot[a].busy \in {"no", "sync", "topUp"}
    /\ account \in Accounts /\ labelId \in Labels
    /\ {cross, query, isSyncing, crossed} \subseteq BOOLEAN
    /\ submitted \in Accounts \cup {Nil}
    /\ footer \in {"None", "Loading", "NoMore"} /\ topUps \in Nat
    /\ exhausted \in [Labels -> Accounts \cup {Nil}]

\* The conversations loaded are the first of the listing, none twice and none passed over,
\* and under each open one are its other messages and nothing else: fetchMore pages by offset
\* through a cache that syncs, top-ups and refreshes move under it (MessageListModel.h:101).
LoadedIsPrefix ==
    ~list.skew =>
        /\ Parents(list) = Take(Listing(list, account, cached), Len(list.rows))
        /\ Reopened(list, list.expanded, cached) = list

\* The older mail of the current account is in the list, but for messages a top-up asked for
\* and did not get.
OldMailLoaded ==
    \A m \in Range(AtGmail(account, list.label)) \ (missed \ cached) :
        \E i \in DOMAIN list.rows : Mail[list.rows[i].id].thread = Mail[m].thread

\* An answer about another account's label of the same name, or about a cache that was
\* dropped meanwhile, is taken for this one's.
Misled == account \in torn \/ exhausted[list.label] \notin {account, Nil}

\* "No more messages" is shown only when all mail of the label is in the list
\* (MainWindow.h:326), but for messages that could not be got: the cursor has passed them, and
\* the label is as exhausted as with them (SyncService.cpp:554).
NoMoreIsTrue ==
    footer = "NoMore" /\ ~list.skew /\ ~Misled =>
        /\ OldMailLoaded
        /\ Parents(list) = Listing(list, account, cached)

\* "Loading more messages" is shown only while the account's service is at work: no way
\* through labels, syncs and chained top-ups leaves it behind (MainWindow.h:334), but for
\* a change of account or a search under a top-up.
LoadingMeansWork ==
    footer = "Loading" /\ ~crossed => slot[account].busy # "no" \/ steps[account] # <<>>

\* Who scrolls on is never left for good with a list that lacks older mail of its label, other
\* than messages that could not be got, unless it fits the view, where there is no scroll bar to
\* ask with.
OldMailReached ==
    []<>(\/ ~Paged(list) \/ list.skew \/ Misled \/ crossed
         \/ list.drained /\ RowCount(list, footer) <= ViewRows
         \/ OldMailLoaded)
=============================================================================
