---------------------------- MODULE SyncService ----------------------------
(***************************************************************************)
(* fc::sync::SyncService: the synchronisation of one account's mailbox     *)
(* into the local SQLite cache.                                            *)
(*                                                                         *)
(* Everything runs on the UI thread.  Impl::busy is a one-place slot: an   *)
(* initial sync, an incremental sync and a label top-up each take it, and  *)
(* then continue as a chain of network callbacks until they give it back.  *)
(* A chain is a record here, whose field `at' names the request it waits   *)
(* for.  Chains are kept in a set, so that nothing but the code's own busy *)
(* checks makes them exclusive.                                            *)
(*                                                                         *)
(* Two handlers write the database in two steps, between which the process *)
(* can die: these are the stages "apply" and "settle", and while a chain   *)
(* is in one of them no other handler of the thread may run.               *)
(***************************************************************************)
EXTENDS Gmail

CONSTANTS
    SeedLabels,         \* seedLabels(): the folders listed by an initial sync
    InitialPerLabelCap, \* kInitialPerLabelCap
    PageSize,           \* topUpPageSize()
    MaxPagesPerTopUp,   \* kMaxPagesPerTopUp
    CrawlEnabled,       \* configureBackgroundCrawl(enabled)
    HistoryPageSize,    \* entries of the first page of history.list
    MaxFaults,          \* bound: requests that fail
    MaxCrashes,         \* bound: crashes of the process
    MaxRequests,        \* bound: user requests
    MaxPosted           \* bound: no top-up starts while this many are posted

ASSUME SyncAssumption ==
    /\ SeedLabels \subseteq Labels
    /\ InitialPerLabelCap \in Nat \ {0}
    /\ PageSize \in Nat \ {0}
    /\ MaxPagesPerTopUp \in Nat \ {0}
    /\ HistoryPageSize \in Nat \ {0}
    /\ CrawlEnabled \in BOOLEAN
    /\ MaxFaults \in Nat /\ MaxCrashes \in Nat
    /\ MaxRequests \in Nat /\ MaxPosted \in Nat

VARIABLES
    \* The account's rows in the database; they survive a crash.
    rows,           \* messages that have a row
    rowLabels,      \* their label edges
    historyId,      \* account_meta.history_id, NoHistory when empty
    pageToken,      \* account_meta labelTopUp/<label>/pageToken
    exhausted,      \* labels whose labelCrawl/<label>/exhausted is "1"
    labelRows,      \* rows of the labels table
    \* SyncService::Impl and the event loop; lost in a crash.
    busy, state,
    chains,         \* callback chains that run under the slot
    posted,         \* continuations posted to the event loop, in order
    walkTarget,     \* cacheLabelTarget, NoLabel when empty
    walkCancel,     \* cacheLabelCancel
    crawlWatch,     \* labels with a one-shot connection of the crawler
    bodyGets,       \* fetchBodyOnDemand requests in flight
    \* What an observer records.
    staleRows,      \* rows whose labels a known gap of the protocol left behind
    unfetched,      \* messages such a gap dropped
    unseeded,       \* messages the last initial sync did not list
    topUpsOpen,     \* topUpStarted minus topUpFinished, per label
    \* Bounds.
    faults, crashes, requests

dbVars    == <<rows, rowLabels, historyId, pageToken, exhausted, labelRows>>
slotVars  == <<busy, state, chains>>
walkVars  == <<posted, walkTarget, walkCancel, crawlWatch>>
gapVars   == <<staleRows, unfetched, unseeded>>
boundVars == <<faults, crashes, requests>>
vars == <<mailVars, dbVars, slotVars, walkVars, bodyGets, gapVars, topUpsOpen, boundVars>>

NoHistory == -1
States    == {"Idle", "InitialSync", "IncrementalSync", "TopUp"}
Stages    == {"profile", "labels", "seed", "history", "apply", "list", "fetch", "settle"}

Chain == [kind  : {"initial", "incremental", "topup"},
          at    : Stages,
          from  : Nat,              \* incremental: startHistoryId
          upto  : Nat,              \* incremental: last history entry on the page
          hid   : Nat,              \* the history id to commit
          lists : SUBSET Labels,    \* initial: seed listings not yet answered
          ids   : SUBSET Msgs,      \* messages this chain set out to fetch
          todo  : SUBSET Msgs,      \* ... those not yet answered
          got   : SUBSET Msgs,      \* ... those answered, waiting for upsertMany
          snap  : [Msgs -> SUBSET Labels],
          label : Labels \cup {NoLabel},   \* topup: the label being walked
          pages : Nat,              \* topup: pagesWalked
          next  : Tokens,           \* topup: nextPageToken
          last  : BOOLEAN]          \* topup: serverExhausted

NewChain(kind, at) ==
    [kind |-> kind, at |-> at, from |-> 0, upto |-> 0, hid |-> 0, lists |-> {},
     ids |-> {}, todo |-> {}, got |-> {}, snap |-> [m \in Msgs |-> {}],
     label |-> NoLabel, pages |-> 0, next |-> Newest, last |-> FALSE]

\* "step": the QTimer::singleShot(0) of topUpLabelStep; "next": the queued
\* invokeMethod of the cacheLabelComplete chain.
Posted  == [kind : {"step", "next"}, label : Labels, pages : Nat]
BodyGet == [msg : Msgs, answered : BOOLEAN, labels : SUBSET Labels, seen : Nat]

Init ==
    /\ MailInit
    /\ rows = {} /\ rowLabels = [m \in Msgs |-> {}]
    /\ historyId = NoHistory
    /\ pageToken = [l \in Labels |-> Newest]
    /\ exhausted = {} /\ labelRows = {}
    /\ busy = FALSE /\ state = "Idle" /\ chains = {}
    /\ posted = <<>> /\ walkTarget = NoLabel /\ walkCancel = FALSE
    /\ crawlWatch = {} /\ bodyGets = {}
    /\ staleRows = {} /\ unfetched = {} /\ unseeded = {}
    /\ topUpsOpen = [l \in Labels |-> 0]
    /\ faults = 0 /\ crashes = 0 /\ requests = 0

-----------------------------------------------------------------------------
(* The slot and what every chain does with it.                             *)

\* A handler of the thread has done half of its writes.
MidHandler == \E c \in chains : c.at \in {"apply", "settle"}

Take(c, s) ==
    /\ busy' = TRUE /\ state' = s
    /\ chains' = chains \cup {c}

Advance(c, d) ==
    /\ chains' = (chains \ {c}) \cup {d}
    /\ UNCHANGED <<busy, state>>

Release(c) ==
    /\ busy' = FALSE /\ state' = "Idle"
    /\ chains' = chains \ {c}

Fault   == faults < MaxFaults /\ faults' = faults + 1 /\ UNCHANGED <<crashes, requests>>
Request == requests < MaxRequests /\ requests' = requests + 1 /\ UNCHANGED <<faults, crashes>>

\* Messages whose coverage depends on a chain that has already committed its
\* history id: those of the page it applies, or those it is fetching.
Owed(c) ==
    IF c.kind # "incremental" THEN {}
    ELSE IF c.at = "apply" THEN {m \in Msgs : TouchedIn(m, c.from + 1, c.upto)}
    ELSE IF c.at = "fetch" THEN c.ids
    ELSE {}

AllOwed == UNION {Owed(c) : c \in chains}

-----------------------------------------------------------------------------
(* runOnce, and the requests that simply end the chain when they fail.     *)

RunOnce ==
    /\ ~ busy
    /\ IF historyId = NoHistory
       THEN Take(NewChain("initial", "profile"), "InitialSync")
       ELSE Take([NewChain("incremental", "history") EXCEPT !.from = historyId],
                 "IncrementalSync")
    /\ UNCHANGED <<mailVars, dbVars, walkVars, bodyGets, gapVars, topUpsOpen, boundVars>>

SyncRequestFails(c) ==
    /\ c.at \in {"profile", "labels", "history"}
    /\ Fault
    /\ Release(c)
    /\ UNCHANGED <<mailVars, dbVars, walkVars, bodyGets, gapVars, topUpsOpen>>

-----------------------------------------------------------------------------
(* topUpFinished is a signal: its slots run inside the emit.  They are the *)
(* cacheLabelComplete chain of the constructor and the crawler's one-shot  *)
(* connection.  `queue' is what is already posted when it is emitted.      *)

EmitTopUpFinished(l, serverExhausted, queue) ==
    /\ topUpsOpen' = [topUpsOpen EXCEPT ![l] = @ - 1]
    /\ IF walkTarget # l
       THEN UNCHANGED <<walkTarget, walkCancel>> /\ posted' = queue
       ELSE IF walkCancel \/ serverExhausted
       THEN walkTarget' = NoLabel /\ walkCancel' = FALSE /\ posted' = queue
       ELSE /\ UNCHANGED <<walkTarget, walkCancel>>
            /\ posted' = Append(queue, [kind |-> "next", label |-> l, pages |-> 0])
    /\ exhausted' = IF l \in crawlWatch /\ serverExhausted
                    THEN exhausted \cup {l} ELSE exhausted
    /\ crawlWatch' = crawlWatch \ {l}

-----------------------------------------------------------------------------
(* doInitialSync.                                                          *)

ProfileReply(c) ==
    /\ c.at = "profile"
    /\ Advance(c, [c EXCEPT !.at = "labels", !.hid = Len(hist)])
    /\ UNCHANGED <<mailVars, dbVars, walkVars, bodyGets, gapVars, topUpsOpen, boundVars>>

LabelsReply(c) ==
    /\ c.at = "labels"
    /\ labelRows' = Labels
    /\ Advance(c, [c EXCEPT !.at = "seed", !.lists = SeedLabels])
    /\ UNCHANGED <<mailVars, rows, rowLabels, historyId, pageToken, exhausted>>
    /\ UNCHANGED <<walkVars, bodyGets, gapVars, topUpsOpen, boundVars>>

\* A message the walk of one of its labels has already gone past.
Walked(m, l) ==
    /\ l \in tags[m]
    /\ \/ l \in exhausted
       \/ pageToken[l] # Newest /\ m >= pageToken[l]

\* Mutant of CommitSeed: the newest history id is recorded instead of the one
\* read before the listing.
CommitSeedNewest(c) ==
    LET unlisted == {m \in live \ (rows \cup c.ids) :
                        ~ Happened("messagesAdded", m, c.hid + 1, Len(hist))}
    IN  /\ historyId' = Len(hist)
        /\ staleRows' = (staleRows \cup rows) \ c.got
        /\ unseeded' = unlisted
        /\ unfetched' = unfetched \cup {m \in unlisted : \E l \in Labels : Walked(m, l)}

\* The initial sync records its history id.  It vouches for what it fetched
\* and for nothing else.
CommitSeed(c) ==
    LET unlisted == {m \in live \ (rows \cup c.ids) :
                        ~ Happened("messagesAdded", m, c.hid + 1, Len(hist))}
    IN  /\ historyId' = c.hid
        /\ staleRows' = (staleRows \cup rows) \ c.got
        /\ unseeded' = unlisted
        /\ unfetched' = unfetched \cup {m \in unlisted : \E l \in Labels : Walked(m, l)}

\* onPage, with the ids of one seed listing.
SeedListed(c, l, found) ==
    LET d == [c EXCEPT !.lists = @ \ {l}, !.ids = @ \cup found]
        cap == InitialPerLabelCap * 2
    IN  \/ /\ d.lists # {}
           /\ Advance(c, d)
           /\ UNCHANGED <<historyId, gapVars>>
        \/ /\ d.lists = {} /\ d.ids = {}
           /\ CommitSeed(d)
           /\ Release(c)
        \/ /\ d.lists = {} /\ d.ids # {}
           /\ \E S \in SUBSET d.ids :
                 /\ Cardinality(S) = IF Cardinality(d.ids) > cap THEN cap
                                     ELSE Cardinality(d.ids)
                 /\ Advance(c, [d EXCEPT !.at = "fetch", !.ids = S, !.todo = S])
           /\ UNCHANGED <<historyId, gapVars>>

SeedPageReply(c, l) ==
    /\ c.at = "seed" /\ l \in c.lists
    /\ SeedListed(c, l, FirstPage(Listing(l, Newest), InitialPerLabelCap))
    /\ UNCHANGED <<mailVars, rows, rowLabels, pageToken, exhausted, labelRows>>
    /\ UNCHANGED <<walkVars, bodyGets, topUpsOpen, boundVars>>

SeedPageFails(c, l) ==
    /\ c.at = "seed" /\ l \in c.lists
    /\ Fault
    /\ SeedListed(c, l, {})
    /\ UNCHANGED <<mailVars, rows, rowLabels, pageToken, exhausted, labelRows>>
    /\ UNCHANGED <<walkVars, bodyGets, topUpsOpen>>

-----------------------------------------------------------------------------
(* doIncrementalSync.                                                      *)

\* Mutant of HistoryTooOld: the answer is taken for an ordinary error.
HistoryTooOldGivesUp(c) ==
    /\ c.at = "history" /\ c.from < horizon
    /\ Release(c)
    /\ UNCHANGED <<mailVars, dbVars>>
    /\ UNCHANGED <<walkVars, bodyGets, gapVars, topUpsOpen, boundVars>>

HistoryTooOld(c) ==
    /\ c.at = "history" /\ c.from < horizon
    /\ historyId' = NoHistory
    /\ busy' = TRUE /\ state' = "InitialSync"
    /\ chains' = (chains \ {c}) \cup {NewChain("initial", "profile")}
    /\ UNCHANGED <<mailVars, rows, rowLabels, pageToken, exhausted, labelRows>>
    /\ UNCHANGED <<walkVars, bodyGets, gapVars, topUpsOpen, boundVars>>

\* The first page of the history, and the commit of page.historyId, which is
\* the mailbox's current history id however short the page is.  What the page
\* leaves out is a gap.
HistoryReply(c) ==
    /\ c.at = "history" /\ c.from >= horizon
    /\ LET full == Len(hist)
           upto == IF full > c.from + HistoryPageSize THEN c.from + HistoryPageSize ELSE full
           cut  == {m \in Msgs : TouchedIn(m, upto + 1, full)}
       IN  /\ historyId' = full
           /\ staleRows' = staleRows \cup (cut \cap rows)
           /\ unfetched' = unfetched \cup (cut \ rows)
           /\ Advance(c, [c EXCEPT !.at = "apply", !.upto = upto, !.hid = full])
    /\ UNCHANGED <<mailVars, rows, rowLabels, pageToken, exhausted, labelRows>>
    /\ UNCHANGED <<walkVars, bodyGets, unseeded, topUpsOpen, boundVars>>

\* Mutant of Relabelled: the additions of the page first, then its removals.
RelabelledOutOfOrder(c, m) ==
    LET On(kind) == {l \in Labels : \E k \in 1 .. Len(hist) :
                        /\ k > c.from /\ k <= c.upto
                        /\ hist[k] = [kind |-> kind, msg |-> m, label |-> l]}
    IN  (rowLabels[m] \cup On("labelsAdded")) \ On("labelsRemoved")

\* The label edges of a row after the label events of a page.
Relabelled(c, m) ==
    {l \in Labels : \/ LastAdds(m, l, c.from + 1, c.upto)
                    \/ l \in rowLabels[m] /\ ~ RelabelledIn(m, l, c.from + 1, c.upto)}

\* The rest of the same handler: removeMany, the label deltas, and the fetch
\* of what the page added.
ApplyPage(c) ==
    LET On(kind)  == {m \in Msgs : Happened(kind, m, c.from + 1, c.upto)}
        deleted   == On("messagesDeleted")
        kept      == rows \ deleted
        added     == (On("messagesAdded") \cup (On("labelsAdded") \ kept)) \ deleted
    IN  /\ c.at = "apply"
        /\ rows' = kept
        /\ rowLabels' = [m \in Msgs |-> IF m \in deleted THEN {}
                                        ELSE IF m \in kept \ added THEN Relabelled(c, m)
                                        ELSE rowLabels[m]]
        /\ IF added = {} THEN Release(c)
           ELSE Advance(c, [c EXCEPT !.at = "fetch", !.ids = added, !.todo = added])
        /\ UNCHANGED <<mailVars, historyId, pageToken, exhausted, labelRows>>
        /\ UNCHANGED <<walkVars, bodyGets, gapVars, topUpsOpen, boundVars>>

-----------------------------------------------------------------------------
(* fetchAndStoreMessages.  The serial path answers one id at a time, the   *)
(* /batch path a chunk of them; a chunk is a run of single answers here.   *)

\* An answer came for id m; `d' is the chain after it and `gap' the messages
\* it leaves unfetched.  The last answer runs upsertMany.
Answered(c, d, gap) ==
    IF d.todo # {}
    THEN /\ Advance(c, d)
         /\ staleRows' = staleRows \cup (gap \cap rows)
         /\ unfetched' = unfetched \cup (gap \ rows)
         /\ UNCHANGED <<rows, rowLabels, unseeded>>
    ELSE /\ rows' = rows \cup d.got
         /\ rowLabels' = [m \in Msgs |-> IF m \in d.got THEN d.snap[m] ELSE rowLabels[m]]
         /\ staleRows' = (staleRows \cup (gap \cap rows)) \ d.got
         /\ unfetched' = (unfetched \cup (gap \ rows)) \ d.got
         /\ unseeded' = unseeded \ d.got
         /\ Advance(c, [d EXCEPT !.at = "settle"])

GetReply(c, m) ==
    /\ c.at = "fetch" /\ m \in c.todo /\ m \in live
    /\ Answered(c, [c EXCEPT !.todo = @ \ {m}, !.got = @ \cup {m},
                             !.snap = [@ EXCEPT ![m] = tags[m]]], {})
    /\ UNCHANGED <<mailVars, historyId, pageToken, exhausted, labelRows>>
    /\ UNCHANGED <<walkVars, bodyGets, topUpsOpen, boundVars>>

GetNotFound(c, m) ==
    /\ c.at = "fetch" /\ m \in c.todo /\ m \notin live
    /\ Answered(c, [c EXCEPT !.todo = @ \ {m}], {})
    /\ UNCHANGED <<mailVars, historyId, pageToken, exhausted, labelRows>>
    /\ UNCHANGED <<walkVars, bodyGets, topUpsOpen, boundVars>>

\* A failed get is counted as done: the id is dropped.
GetFails(c, m) ==
    /\ c.at = "fetch" /\ m \in c.todo
    /\ Fault
    /\ Answered(c, [c EXCEPT !.todo = @ \ {m}], {m})
    /\ UNCHANGED <<mailVars, historyId, pageToken, exhausted, labelRows>>
    /\ UNCHANGED <<walkVars, bodyGets, topUpsOpen>>

\* The rest of the handler of the last answer: the slot is free, then done().
Settle(c) ==
    /\ c.at = "settle"
    /\ Release(c)
    /\ \/ /\ c.kind = "initial"
          /\ CommitSeed(c)
          /\ UNCHANGED <<pageToken, exhausted, walkVars, topUpsOpen>>
       \/ /\ c.kind = "incremental"
          /\ UNCHANGED <<historyId, pageToken, exhausted, walkVars, topUpsOpen, gapVars>>
       \/ /\ c.kind = "topup"
          /\ pageToken' = [pageToken EXCEPT ![c.label] = c.next]
          /\ EmitTopUpFinished(c.label, c.last, posted)
          /\ UNCHANGED <<historyId, gapVars>>
    /\ UNCHANGED <<mailVars, rows, rowLabels, labelRows, bodyGets, boundVars>>
-----------------------------------------------------------------------------
(* topUpLabel and topUpLabelStep.                                          *)

ListChain(l, pages) ==
    [NewChain("topup", "list") EXCEPT !.label = l, !.pages = pages]

\* topUpLabel(l): nothing at all while the slot is taken.
StartTopUp(l) ==
    IF busy
    THEN UNCHANGED <<slotVars, topUpsOpen>>
    ELSE /\ Take(ListChain(l, 0), "TopUp")
         /\ topUpsOpen' = [topUpsOpen EXCEPT ![l] = @ + 1]

\* A user opens a label, or scrolls to the end of what is cached.
TopUpLabel(l) ==
    /\ Request /\ ~ busy /\ Len(posted) < MaxPosted
    /\ StartTopUp(l)
    /\ UNCHANGED <<mailVars, dbVars, walkVars, bodyGets, gapVars>>

\* Mutant of ListReply: the cursor moves on before the bodies are stored.
ListReplyAdvancesEarly(c) ==
    LET S       == Listing(c.label, pageToken[c.label])
        P       == FirstPage(S, PageSize)
        next    == NextToken(S, P)
        missing == P \ rows
        last    == P = S
    IN  /\ c.at = "list"
        /\ pageToken' = [pageToken EXCEPT ![c.label] = next]
        /\ \/ /\ missing = {}
              /\ Release(c)
              /\ IF last \/ c.pages + 1 >= MaxPagesPerTopUp
                 THEN EmitTopUpFinished(c.label, last, posted)
                 ELSE /\ posted' = Append(posted, [kind |-> "step", label |-> c.label,
                                                   pages |-> c.pages + 1])
                      /\ UNCHANGED <<walkTarget, walkCancel, crawlWatch, exhausted, topUpsOpen>>
           \/ /\ missing # {}
              /\ Advance(c, [c EXCEPT !.at = "fetch", !.ids = missing, !.todo = missing,
                                      !.next = next, !.last = last])
              /\ UNCHANGED <<exhausted, walkVars, topUpsOpen>>
        /\ UNCHANGED <<mailVars, rows, rowLabels, historyId, labelRows>>
        /\ UNCHANGED <<bodyGets, gapVars, boundVars>>

ListReply(c) ==
    LET S       == Listing(c.label, pageToken[c.label])
        P       == FirstPage(S, PageSize)
        next    == NextToken(S, P)
        missing == P \ rows
        last    == P = S
    IN  /\ c.at = "list"
        /\ \/ /\ missing = {}
              /\ pageToken' = [pageToken EXCEPT ![c.label] = next]
              /\ Release(c)
              /\ IF last \/ c.pages + 1 >= MaxPagesPerTopUp
                 THEN EmitTopUpFinished(c.label, last, posted)
                 ELSE /\ posted' = Append(posted, [kind |-> "step", label |-> c.label,
                                                   pages |-> c.pages + 1])
                      /\ UNCHANGED <<walkTarget, walkCancel, crawlWatch, exhausted, topUpsOpen>>
           \/ /\ missing # {}
              /\ Advance(c, [c EXCEPT !.at = "fetch", !.ids = missing, !.todo = missing,
                                      !.next = next, !.last = last])
              /\ UNCHANGED <<pageToken, exhausted, walkVars, topUpsOpen>>
        /\ UNCHANGED <<mailVars, rows, rowLabels, historyId, labelRows>>
        /\ UNCHANGED <<bodyGets, gapVars, boundVars>>

\* Mutant of ListFails: the error is reported as the end of the label.
ListFailsAsExhausted(c) ==
    /\ c.at = "list"
    /\ Fault
    /\ pageToken' = [pageToken EXCEPT ![c.label] = Newest]
    /\ Release(c)
    /\ EmitTopUpFinished(c.label, TRUE, posted)
    /\ UNCHANGED <<mailVars, rows, rowLabels, historyId, labelRows, bodyGets, gapVars>>

\* A failed listing throws the cursor away: the next walk starts again from
\* the newest message.
ListFails(c) ==
    /\ c.at = "list"
    /\ Fault
    /\ pageToken' = [pageToken EXCEPT ![c.label] = Newest]
    /\ Release(c)
    /\ EmitTopUpFinished(c.label, FALSE, posted)
    /\ UNCHANGED <<mailVars, rows, rowLabels, historyId, labelRows, bodyGets, gapVars>>

\* Mutant of RunPostedStep: the continuation does not look at busy.
RunPostedStepIgnoresBusy ==
    /\ posted # <<>> /\ Head(posted).kind = "step"
    /\ LET p == Head(posted)
       IN  /\ Take(ListChain(p.label, p.pages), "TopUp")
           /\ posted' = Tail(posted)
    /\ UNCHANGED <<mailVars, dbVars, walkTarget, walkCancel, crawlWatch, topUpsOpen>>
    /\ UNCHANGED <<bodyGets, gapVars, boundVars>>

\* Mutant of RunPostedStep: a busy slot drops the continuation in silence.
RunPostedStepSilent ==
    /\ posted # <<>> /\ Head(posted).kind = "step"
    /\ posted' = Tail(posted)
    /\ IF busy THEN UNCHANGED slotVars
       ELSE Take(ListChain(Head(posted).label, Head(posted).pages), "TopUp")
    /\ UNCHANGED <<mailVars, dbVars, walkTarget, walkCancel, crawlWatch, topUpsOpen>>
    /\ UNCHANGED <<bodyGets, gapVars, boundVars>>

\* The event loop delivers the oldest posted continuation.
RunPostedStep ==
    /\ posted # <<>> /\ Head(posted).kind = "step"
    /\ LET p == Head(posted)
       IN  IF busy
           THEN /\ EmitTopUpFinished(p.label, FALSE, Tail(posted))
                /\ UNCHANGED slotVars
           ELSE /\ Take(ListChain(p.label, p.pages), "TopUp")
                /\ posted' = Tail(posted)
                /\ UNCHANGED <<walkTarget, walkCancel, crawlWatch, exhausted, topUpsOpen>>
    /\ UNCHANGED <<mailVars, rows, rowLabels, historyId, pageToken, labelRows>>
    /\ UNCHANGED <<bodyGets, gapVars, boundVars>>

RunPostedNext ==
    /\ posted # <<>> /\ Head(posted).kind = "next"
    /\ posted' = Tail(posted)
    /\ IF walkTarget # Head(posted).label \/ walkCancel
       THEN UNCHANGED <<slotVars, topUpsOpen>>
       ELSE StartTopUp(Head(posted).label)
    /\ UNCHANGED <<mailVars, dbVars, walkTarget, walkCancel, crawlWatch>>
    /\ UNCHANGED <<bodyGets, gapVars, boundVars>>

-----------------------------------------------------------------------------
(* cacheLabelComplete, cancelCacheLabel and the background crawler.        *)

CacheLabelComplete(l) ==
    /\ Request /\ walkTarget = NoLabel /\ Len(posted) < MaxPosted
    /\ walkTarget' = l /\ walkCancel' = FALSE
    /\ StartTopUp(l)
    /\ UNCHANGED <<mailVars, dbVars, posted, crawlWatch, bodyGets, gapVars>>

CancelCacheLabel ==
    /\ Request /\ walkTarget # NoLabel
    /\ walkCancel' = TRUE
    /\ UNCHANGED <<mailVars, dbVars, slotVars, posted, walkTarget, crawlWatch>>
    /\ UNCHANGED <<bodyGets, gapVars, topUpsOpen>>

\* The first label in id order that is not exhausted.
NextToCrawl(l) ==
    /\ l \in labelRows \ exhausted
    /\ \A k \in labelRows \ exhausted : l <= k

TickBackgroundCrawl(l) ==
    /\ CrawlEnabled
    /\ ~ busy /\ walkTarget = NoLabel /\ Len(posted) < MaxPosted
    /\ NextToCrawl(l)
    /\ crawlWatch' = crawlWatch \cup {l}
    /\ StartTopUp(l)
    /\ UNCHANGED <<mailVars, dbVars, posted, walkTarget, walkCancel>>
    /\ UNCHANGED <<bodyGets, gapVars, boundVars>>

ResetBackgroundCrawlProgress ==
    /\ Request
    /\ exhausted' = {}
    /\ UNCHANGED <<mailVars, rows, rowLabels, historyId, pageToken, labelRows>>
    /\ UNCHANGED <<slotVars, walkVars, bodyGets, gapVars, topUpsOpen>>

-----------------------------------------------------------------------------
(* fetchBodyOnDemand: outside the slot.  Gmail answers with the message as *)
(* it is then (`seen' is the length of the history at that moment); the    *)
(* callback stores it whenever it arrives.                                 *)

FetchBodyOnDemand(m) ==
    /\ Request /\ m \in rows
    /\ bodyGets' = bodyGets \cup {[msg |-> m, answered |-> FALSE, labels |-> {}, seen |-> 0]}
    /\ UNCHANGED <<mailVars, dbVars, slotVars, walkVars, gapVars, topUpsOpen>>

BodyAnswered(b) ==
    /\ ~ b.answered /\ b.msg \in live
    /\ bodyGets' = (bodyGets \ {b}) \cup
           {[b EXCEPT !.answered = TRUE, !.labels = tags[b.msg], !.seen = Len(hist)]}
    /\ UNCHANGED <<mailVars, dbVars, slotVars, walkVars, gapVars, topUpsOpen, boundVars>>

BodyNotFound(b) ==
    /\ ~ b.answered /\ b.msg \notin live
    /\ bodyGets' = bodyGets \ {b}
    /\ UNCHANGED <<mailVars, dbVars, slotVars, walkVars, gapVars, topUpsOpen, boundVars>>

BodyFails(b) ==
    /\ ~ b.answered
    /\ Fault
    /\ bodyGets' = bodyGets \ {b}
    /\ UNCHANGED <<mailVars, dbVars, slotVars, walkVars, gapVars, topUpsOpen>>

\* The history has been committed past a change the answer does not show.
Late(b) == historyId # NoHistory /\ TouchedIn(b.msg, b.seen + 1, historyId)

StoreBody(b) ==
    /\ b.answered
    /\ bodyGets' = bodyGets \ {b}
    /\ rows' = rows \cup {b.msg}
    /\ rowLabels' = [rowLabels EXCEPT ![b.msg] = b.labels]
    /\ staleRows' = IF Late(b) THEN staleRows \cup {b.msg} ELSE staleRows \ {b.msg}
    /\ unfetched' = unfetched \ {b.msg}
    /\ unseeded' = unseeded \ {b.msg}
    /\ UNCHANGED <<mailVars, historyId, pageToken, exhausted, labelRows>>
    /\ UNCHANGED <<slotVars, walkVars, topUpsOpen, boundVars>>

-----------------------------------------------------------------------------
(* The process dies and starts again.  What the database says stays; what  *)
(* a chain owed is a gap from then on.                                     *)
Crash ==
    /\ crashes < MaxCrashes /\ crashes' = crashes + 1
    /\ busy' = FALSE /\ state' = "Idle" /\ chains' = {}
    /\ posted' = <<>> /\ walkTarget' = NoLabel /\ walkCancel' = FALSE
    /\ crawlWatch' = {} /\ bodyGets' = {}
    /\ topUpsOpen' = [l \in Labels |-> 0]
    /\ staleRows' = staleRows \cup (AllOwed \cap rows)
    /\ unfetched' = unfetched \cup (AllOwed \ rows)
    /\ UNCHANGED <<mailVars, dbVars, unseeded, faults, requests>>

-----------------------------------------------------------------------------
Mailbox ==
    /\ MailNext
    /\ UNCHANGED <<dbVars, slotVars, walkVars, bodyGets, gapVars, topUpsOpen, boundVars>>

\* A request of the chain is answered, or fails.
Answer(c) ==
    \/ ProfileReply(c) \/ LabelsReply(c) \/ HistoryTooOld(c) \/ HistoryReply(c)
    \/ ListReply(c) \/ ListFails(c) \/ SyncRequestFails(c)
    \/ \E l \in Labels : SeedPageReply(c, l) \/ SeedPageFails(c, l)
    \/ \E m \in Msgs : GetReply(c, m) \/ GetNotFound(c, m) \/ GetFails(c, m)

\* The second half of a handler.
Finish(c) == ApplyPage(c) \/ Settle(c)

RunPosted == RunPostedStep \/ RunPostedNext

User ==
    \/ \E l \in Labels : TopUpLabel(l) \/ CacheLabelComplete(l)
    \/ CancelCacheLabel \/ ResetBackgroundCrawlProgress
    \/ \E m \in Msgs : FetchBodyOnDemand(m)

Body(b) == BodyNotFound(b) \/ BodyFails(b) \/ StoreBody(b)

Handler ==
    \/ RunOnce \/ RunPosted \/ User
    \/ \E c \in chains : Answer(c)
    \/ \E l \in Labels : TickBackgroundCrawl(l)
    \/ \E b \in bodyGets : Body(b)

Next ==
    \/ Mailbox
    \/ \E b \in bodyGets : BodyAnswered(b)
    \/ ~ MidHandler /\ Handler
    \/ \E c \in chains : Finish(c)
    \/ Crash

Spec == Init /\ [][Next]_vars

\* The event loop serves its timers and its queue, and every request is
\* answered or fails in the end.  Nothing is assumed of the mailbox, of the
\* user, or of crashes.
Fairness ==
    /\ WF_vars(~ MidHandler /\ RunOnce)
    /\ WF_vars(~ MidHandler /\ RunPosted)
    /\ WF_vars(~ MidHandler /\ \E c \in chains : Answer(c))
    /\ WF_vars(\E c \in chains : Finish(c))
    /\ WF_vars(~ MidHandler /\ \E l \in Labels : TickBackgroundCrawl(l))
    /\ WF_vars(\E b \in bodyGets : BodyAnswered(b) \/ (~ MidHandler /\ Body(b)))

FairSpec == Spec /\ Fairness

-----------------------------------------------------------------------------
TypeOK ==
    /\ MailTypeOK
    /\ rows \subseteq Msgs /\ rowLabels \in [Msgs -> SUBSET Labels]
    /\ historyId \in Nat \cup {NoHistory}
    /\ pageToken \in [Labels -> Tokens]
    /\ exhausted \subseteq Labels /\ labelRows \subseteq Labels
    /\ busy \in BOOLEAN /\ state \in States /\ chains \subseteq Chain
    /\ posted \in Seq(Posted)
    /\ walkTarget \in Labels \cup {NoLabel} /\ walkCancel \in BOOLEAN
    /\ crawlWatch \subseteq Labels /\ bodyGets \subseteq BodyGet
    /\ staleRows \subseteq Msgs /\ unfetched \subseteq Msgs /\ unseeded \subseteq Msgs
    /\ topUpsOpen \in [Labels -> Int]
    /\ faults \in Nat /\ crashes \in Nat /\ requests \in Nat

\* Impl::busy is a mutual exclusion: at most one chain of callbacks runs, the
\* flag says whether one does, and the public state names it.  A handler that
\* forgets to test or to clear the flag starts a second chain, or leaves the
\* service deaf for ever.
OneChain ==
    /\ busy <=> chains # {}
    /\ busy <=> state # "Idle"
    /\ \A c, d \in chains : c = d

\* A row of the cache carries the labels its message has in the mailbox, and
\* no row outlives its message, up to the changes listed after the recorded
\* history id; those a later incremental sync will still be told of.  Exempt
\* are the rows behind one of the known gaps: `staleRows' and what the running
\* chain is about to bring.
RowIsCurrent(m) ==
    IF m \in live
    THEN \A l \in Labels :
            (l \in rowLabels[m]) = (l \in tags[m])
            \/ RelabelledIn(m, l, historyId + 1, Len(hist))
    ELSE Happened("messagesDeleted", m, historyId + 1, Len(hist))

CachedRowsCurrent ==
    historyId # NoHistory =>
        \A m \in rows \ (staleRows \cup AllOwed) : RowIsCurrent(m)

\* Once the recorded history id has passed the arrival of a message, no later
\* delta will mention it: it has a row, or the running chain is fetching it,
\* or it fell into a known gap, or the initial sync never listed it.
NoSilentGap ==
    historyId # NoHistory =>
        \A m \in live : \/ Happened("messagesAdded", m, historyId + 1, Len(hist))
                        \/ m \in rows \cup AllOwed \cup unfetched \cup unseeded

\* What the cursor of a label has gone past is cached: every message the label
\* had when it was walked has a row, is being fetched or fell into a known
\* gap.  The same holds of a whole label the crawler marked exhausted, which it
\* will not visit again.
News(m, l) ==
    LET base == IF historyId = NoHistory THEN 0 ELSE historyId
    IN  \/ Happened("messagesAdded", m, base + 1, Len(hist))
        \/ RelabelledIn(m, l, base + 1, Len(hist))

WalkedIsCached ==
    \A l \in Labels, m \in live :
        Walked(m, l) => News(m, l) \/ m \in rows \cup AllOwed \cup unfetched

\* Every topUpStarted is followed by one topUpFinished: what is still open is
\* exactly the top-ups that run or wait in the event queue.  MainWindow counts
\* these two signals to decide whether it may start another top-up.
Waiting(l) == Cardinality({i \in 1 .. Len(posted) :
                              posted[i].kind = "step" /\ posted[i].label = l})
Running(l) == Cardinality({c \in chains : c.kind = "topup" /\ c.label = l})

TopUpsBracketed == \A l \in Labels : topUpsOpen[l] = Running(l) + Waiting(l)

\* cacheLabelComplete reports success only when the whole label is cached.
WalkCompletes ==
    [][\A l \in Labels :
          walkTarget = l /\ walkTarget' # l /\ ~ walkCancel /\ crashes' = crashes =>
              \A m \in live' : l \in tags'[m] =>
                  News(m, l)' \/ m \in (rows \cup AllOwed \cup unfetched)']_vars

\* When the mailbox has changed for the last time, the account reaches its
\* newest history id and stays there.
CatchesUp == <>[](historyId = Len(hist))
=============================================================================
