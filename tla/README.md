# firstcontact in TLA+

firstcontact is a Gmail desktop client in C++ and Qt: one UI thread, a local
SQLite cache, and a set of services that move state between the cache and the
Gmail REST API. This directory holds its specification: TLA+ modules translated
from `src/src`, TLC configurations that model-check them, and TLAPS proofs.
Paths below are relative to `src/src` of the repository.

1. [Inventory](#1-inventory)
2. [Plan](#2-plan)
3. [Modules and the code](#3-modules-and-the-code)
4. [Runs, bounds and fairness](#4-runs-bounds-and-fairness)
5. [Proofs](#5-proofs)
6. [Where code and comments disagree](#6-where-code-and-comments-disagree)
7. [What is not modelled](#7-what-is-not-modelled)

## 1. Inventory

| component | state | operations | talks to |
|---|---|---|---|
| `sync/SyncService` (one per account) | `busy`, `state`, `cacheLabelTarget`, `cacheLabelCancel`, crawler timer; in the database `messages`, `message_labels`, `labels`, and `account_meta` (`history_id`, page tokens, exhausted flags) | `runOnce` (initial / incremental sync), `topUpLabel`, `cacheLabelComplete`, `cancelCacheLabel`, `tickBackgroundCrawl`, `resetBackgroundCrawlProgress`, `fetchBodyOnDemand` | GmailClient by callback, the repositories, MainWindow by signals |
| `sync/OutboxWorker` + `cache/OutboxRepository` (one worker for all accounts) | table `outbox`; `busy` and the shared count `remaining` | `flush` (timer, or poked by a new mail), `enqueue`, `markSending`, `markSent`, `markFailed` | the GmailClient of each row's account |
| `sync/PendingOpsWorker` + `cache/PendingOpsRepository` | table `pending_ops`; `busy`, `remaining` | label changes and trash operations queued by the UI after the cache already shows them | GmailClient |
| `sync/DraftSync` + `cache/DraftRepository` | table `drafts` (local id, remote id, dirty) | flush of dirty drafts; re-keying a row after its creation | GmailClient, the compose window that keeps the local id |
| `api/RestClient`, `RateLimiter` | per request: attempt, refresh flag, backoff timer | send, retry on 429/5xx/network (a POST on 429 only), one refresh on 401 | OAuthClient, QNetworkAccessManager |
| `auth/OAuthClient`, `TokenStore` | tokens, expiry, mutex | authorize, refresh with a nested event loop, sign-out, revoke | keychain, browser, RestClient |
| `account/AccountManager`, `AccountContext` | table `accounts`, the list in memory, one context (auth, REST, Gmail, sync) per account, current account, settings mirror | create, remove, dropCache, setDefault, setCurrent, reload, rehydrate | everything above |
| `cache/*Repository` | the SQLite tables | upsert with merge rules, search, paging, pruning, snooze | all services |
| `cache/BodyCompressionWorker`, `BodyCodec` | zstd dictionary per account, in the table and in memory; compressed bodies | train, save, backfill, on the only second thread | MessageRepository |
| `models/MessageListModel` with MainWindow's list | rows loaded, conversations open, `cacheDrained_`, footer, `topUpsInFlight_`, `serverExhaustedByLabel_`, scroll memory | `loadLabel`, `fetchMore`, `toggleExpanded`, `refreshFromSource`, asking for top-ups, search | MessageRepository, SyncService |
| `models/LabelTreeModel` with the sidebar | rows of the tree, selected account and label; in MainWindow `currentAccountId_`, `currentLabelId_`, `crossAccountView_` | reload, select again, make, rename, delete labels | LabelRepository, GmailClient, MainWindow |
| `ui/reader/*` with MainWindow's handlers | `currentMessage_`, `currentRow_`, what is shown | open, fetch what is not cached, mark read, archive, star, label, move, snooze, delete, wake up | MessageRepository, PendingOps, SyncService |
| `cache/Database`, `Migrations` | schema version | open, migrate | start-up |
| attachments (`ui/MainWindow`, `cache/AttachmentRepository`) | table `attachments`, files, downloads under way | open, save as, download all | ReaderPane's chips, GmailClient |
| other `ui/*`, `app/*`, `util/*` | - | dialogs, menus, wiring, formatting, parsing, logging | - |

How they interact. All services run in the UI thread's event loop. A service
makes a request with a callback and returns; the callback runs in a later turn
of the loop, with whatever happened in between already done. Services share
state through the database only, and through the account's context, which owns
the client the callbacks hang on. Signals run their slots inside the emit. Three
things run an event loop inside a handler: the token refresh, modal questions, and
the end of a sign-in. One thing runs on another thread: the training of a dictionary.

What is hard, and what correct means:

* **SyncService.** Three kinds of callback chain share the flag `busy`; between
  two pages of a top-up the chain gives it up for a turn of the event loop. The
  history id that vouches for the cache is written before the changes it vouches
  for are. Correct: one chain at a time; the flag always comes back; the history
  id never passes a change that the cache does not show and that nobody is about
  to fetch; a page cursor never passes a message that was not stored; every
  `topUpStarted` has its `topUpFinished`.
* **Outbox.** A request that was accepted may look failed. Correct: a mail is not
  lost, not carried by two calls at once, not sent twice unless an answer was lost on
  the way, and goes out in the end.
* **Pending operations.** Posted all at once and retried one by one, while the sync
  brings labels back. Correct: cache and mailbox differ only where something is
  under way that settles it; a label ends in the mailbox as the user chose it;
  the queue drains.
* **Drafts.** An answer arrives for an older text; a row changes its key while a
  window holds the old one. Correct: the last text saved is on disk, and reaches
  Gmail; a clean row has its draft there; a draft is there once, but for named causes.
* **Requests and tokens.** Retries, back-off and one refresh share a request; a
  nested event loop runs under the refresh, with more requests, a sign-out or a
  sign-in in it. Below all of it, Qt's network stack may send a request again. Correct:
  RestClient adds no copy of a POST; a request ends, and is reported as what it was; no tokens after a sign-out; memory and keychain agree.
* **Accounts.** The table, the mirror, the list, the contexts, the keychain and the
  window each hold a copy of who exists and who is current, and sign-ins, removals and
  failed statements change them one by one. Correct: the copies agree, tokens
  belong to an account that can be reached, and the window shows the current one.
* **Bodies.** Two threads, a dictionary and the rows that need it. Correct: every
  stored body can be read back and found.
* **List.** Paged by offset through a cache that moves, with a footer fed by counts
  of signals. Correct: what is loaded is the start of the listing; "no more" is
  true; "loading" means that something is loading; who scrolls on gets there.
* **Reader.** Answers, syncs, wake-ups and questions with event loops between the
  selection and the edit. Correct: what is shown is what is current and what is
  edited; marked read is seen; snoozed mail comes back.
* **Attachments.** A file name is chosen in one turn of the event loop and written in another.
  Correct: no download takes the place of a file that was there.
* **Labels.** Calls answered in any order against a listing taken at another time;
  a tree that selects again whenever it is rebuilt. Correct: table, tree and
  Gmail agree; the window stays where the user put it.

`PROJECT.json` lists these hazards at their lines, with the properties that cover
them. Two have none: an on-demand body stored over a later change
(`SyncService.cpp:772`) and an outbox row left in 'sending' by a crash
(`OutboxRepository.cpp:105`). The code does not guard against either; the models
have both events, and `CachedRowsCurrent` and `MailGoesOut` exempt them by name.

## 2. Plan

Done, in order of importance:

1. `Gmail`, `SyncService`: the synchronisation protocol; proved.
2. `OutboxWorker`: the outgoing mail of all accounts; proved, and proved to implement
   `OutgoingMail`, the abstract mailer.
3. `PendingOps`: the label operations over messages edited alone and together, with
   retries, drops, crashes, and the sync that reads the labels back; proved.
4. `DraftSync`: drafts, compose windows, re-keying; proved.
5. `MessageCache`: bodies, dictionaries and the full-text index against the worker thread;
   proved.
6. `Session`: the requests and tokens of an account; proved.
7. `Accounts`: the copies of who exists and who is current, sign-in and removal; proved.
8. `MessageList`, `Reader`, `Labels`: what the user sees, and the handlers of the main
   window that keep it; proved.
9. `Attachments`, composed with `Reader`: chips, downloads and the files they write; proved.

The modules of 5 to 8 each take the others as the environment the code gives them:
`MessageList` has a SyncService that takes its slot, stores mail and signals;
`Reader` hands its edits to a queue and hears of syncs; `Accounts` knows of tokens
only that they are there. `PendingOps` and `SyncService` meet in `PendingOps`,
which has the label half of the incremental sync.

Left:

* `SyncService` composed with `dropCache` and the removal of its account, as
  `MessageList` has it for the list.
* The liveness properties stay with TLC (section 5).

## 3. Modules and the code

`PROJECT.json` ("map") names the source lines of every definition.

### Gmail

External: the mailbox behind `api/GmailClient`, in the shape of the answers that
client parses. Messages are numbered in order of arrival, so a page token is the
number of the last message of a page. The history is an append-only log of the
four kinds of record `listHistory` parses, a history id is a length of the log,
and `ForgetHistory` makes old start ids "too old" (`historyTooOld`).

### SyncService

| TLA+ | code |
|---|---|
| `rows`, `rowLabels`, `labelRows` | tables `messages`, `message_labels`, `labels` |
| `historyId`, `pageToken`, `exhausted` | `account_meta` keys `history_id`, `labelTopUp/<l>/pageToken`, `labelCrawl/<l>/exhausted` |
| `busy`, `state`, `walkTarget`, `walkCancel` | `Impl::busy`, `state`, `cacheLabelTarget`, `cacheLabelCancel` |
| `chains` | the lambdas that wait for an answer, with what they captured |
| `posted` | `QTimer::singleShot(0)` of the next top-up page, the queued `invokeMethod` of the walk; first in, first out |
| `crawlWatch` | the crawler's one-shot connections to `topUpFinished` |
| `bodyGets` | requests of `fetchBodyOnDemand`, which runs outside `busy` |
| `staleRows`, `unfetched`, `unseeded` | history variables, below |

`chains` is a set so that only the code's own tests of `busy` make chains
exclusive. An action is one turn of the event loop: the answer of a request up to
the next request or the release of the slot. `EmitTopUpFinished` is part of the
action that emits, since Qt runs directly connected slots inside the emit. Two
handlers write the database in several statements; these are split in two
("apply" after the history id is committed, "settle" after the bodies are
stored), so that a crash can fall between; `MidHandler` keeps every other handler
of the thread out in the meantime. The token refresh in `RestClient::sendOnce` can run a
nested event loop when a request is dispatched; the handlers modelled here have
set `busy` and end at that point, so nothing is read before it and used after.

The protocol has gaps, and the safety properties say that there are no others:
`staleRows` are rows that a gap may have left with old labels, `unfetched` are
messages it dropped, `unseeded` are messages the last initial sync did not list.
A message enters one of these only where the code itself loses it:

* a crash between the commit of the history id and the writes it stands for
  (`SyncService.cpp:322` onwards);
* a history page with a `nextPageToken`, which the code does not read: the rest of
  the history is skipped;
* a get that fails in the fetch of an incremental sync or of a top-up;
* a resync after expired history, which refreshes what it lists and no more;
* an on-demand body that arrives after the history id has passed a later change.

### OutboxWorker

| TLA+ | code |
|---|---|
| `outbox`, `lastId` | table `outbox` and its AUTOINCREMENT |
| `wait` of a row | `next_retry_at` and `send_at`: due, in backoff, parked after `kMaxAttempts`, scheduled |
| `busy`, `remaining` | `Impl::busy`, the shared counter captured by the callbacks of a batch |
| `calls` | `sendRaw` posted to the client, on the wire, accepted by Gmail |
| `accounts`, `doomed` | rows of `accounts` with their context; contexts waiting for `deleteLater` |
| `signedIn` | accounts whose OAuthClient has tokens |
| `accepted`, `lost` | history: copies Gmail holds, answers that never came, those the network stack made up for by a resend included |

`flush` is one operator used by the timer (`Tick`) and by a new mail
(`composeReady`); it marks all due rows and posts one call for each. A callback
(`itemSent`, `itemFailed`) updates the row and counts down. `destroyContext` takes
the calls of an account with it, callbacks and all. The retries RestClient makes
within one request are folded into the call. `Resent`, here and in the three other modules that
send, is a step of Qt 6.4's network stack: when the connection drops before the first byte
of an answer it sends the request again, whatever its verb, and the program hears of nothing
(`RestClient.cpp:134-143`, docs/overnight-review-notes.md, "Added 2026-05-09"). An attempt count matters only up to
`kMaxAttempts` and saturates there. The branch for an account without a client is
left out: rows disappear with their account (`ON DELETE CASCADE`).

### OutgoingMail

The outbox as its user sees it, with no batches, calls, attempts or accounts: a mail is
unwritten, kept or gone, Gmail has a number of copies of it, and some of them the
program never heard of. `Mail` in `OutboxWorker` instantiates it: it takes
`where` from the ids given out and the rows left (`Whereabouts`), `copies` from
`accepted`, `unheard` from `lost`, and `purges` from the removals.
Every step of the outbox is one step of it or none. A batch that loses its replies
at a crash is one `LoseSight` of several mails, so is a resend of one, and a removal is a `Purge`.

### PendingOps

| TLA+ | code |
|---|---|
| `cache` | label edges of the rows the UI shows (`message_labels`) |
| `ops`, `lastId` | table `pending_ops` and its AUTOINCREMENT |
| `busy`, `remaining` | `Impl::busy`, the shared counter of a batch |
| `calls` | `modifyMessage` posted or on the wire (sent), taken by Gmail (applied) |
| `server`, `touched` | labels in the mailbox, and those its history has entries for that no sync has read |
| `delta` | the label entries of a history answer before `doIncrementalSync` applies them |
| `intent`, `contested`, `dropped` | history: what the user chose last; where an earlier operation or another client competes; where nobody works any more |

An edit is one turn of the event loop: `applyLabelDiffToThread` changes the cache and
queues an operation for each message, then flushes. `CrashInEdit` is the same turn
cut short between the two transactions of one of its messages, and `CrashInSync` the
turn of `ApplyDeltas` cut short after the history id is on disk. Calls carry the row
as `flush` read it, and a callback acts on the row's id; `attempts` comes from the
call, as in the lambda. A message is its set of labels, which is all that
`applyLabelDiff` touches. The labels of an edit are assumed to be in table `labels`.

`DivergenceIsOwed` and `LastEditReaches` exempt what the code gives up, and nothing
else: an operation that was refused or failed `kGiveUpAttempts` times, an edit cut
short by a crash, the unread half of a history page at a crash (`dropped`); a label
that another client changed, or that the user changed again while an operation on it
was waiting, since the batch goes out in no order (`contested`). An edit of a label that
nothing waits for clears both.

### DraftSync

| TLA+ | code |
|---|---|
| `drafts`, `synced` | table `drafts`: rows under a local id, and those `markSynced` gave Gmail's |
| `window` | the compose windows: text, local id (`localDraftId`) |
| `busy`, `remaining`, `calls` | as in the outbox; there is no 'sending', so `busy` alone keeps a row out of two calls |
| `gmail` | the drafts Gmail has |
| `told`, `missing`, `unheard`, `revived` | history: the text last reported as saved; keys whose save failed or was purged; creations whose answer was lost or followed by a resend; saves that put a row back under a local id that had been re-keyed |

A row carries the text it was saved with, and a call the text it was posted with, so
that an answer about an older text can be told from one about this one (`overtaken`).
`DraftsReachGmail` asks that each text that is saved reaches a draft of Gmail's. It lets go of a text
that the user saves over or purges, and of one that the answer to an older text marked clean
(`MarkedUnpushed`): that is the code's own loss (section 6). A row that
merely loses its local id has reached nothing.

### MessageCache

| TLA+ | code |
|---|---|
| `rows`, `index` | `messages` (dictionary and flag of the body), `messages_fts` |
| `stored`, `dictCache` | `body_compression_dict` and `g_dictCache` |
| `ui` | where the UI thread is: it gives up `g_dictCache`'s mutex while it reads the table, and holds SQLite's write lock through an upsert |
| `pass` | `BodyCompressionWorker::doWork`, step by step |
| `worker`, `asking` | `compressionWorkers_`, the confirmation of `onRecompressRequested` |
| `stranded`, `unindexed`, `ghosts`, `overtaken`, `superseded` | history: the mishaps that the properties exempt, each at the step that causes it |

A body is known by the dictionary it is compressed under. The bundled dictionary is never
empty, so no body is stored plain and every pass recompresses.

### Session

| TLA+ | code |
|---|---|
| `tokens`, `fresh` | `Impl::tokens`, `expiresAtUnix` |
| `slot`, `jobs` | the account's entry in the keychain, and the jobs of QtKeychain, first in, first out |
| `frames` | the stack of `refreshIfNeededLocked` calls, each in the nested event loop of the one below |
| `reqs` | attempt, refresh flag, overriding token and stage of each request |
| `grants`, `revokes`, `revoked`, `taken` | Google's side |
| `resent` | history: how often the network stack sent again what Gmail had taken |
| `crossed`, `faulted` | history: a load or a refresh that was under way at the last sign-in or sign-out; a job that failed or was lost |

`Client` is what the event loop may do at any time, also inside a nested loop; only the
topmost frame returns. `sendBatch` is a POST to `/batch` and is one of the requests.

### Accounts

| TLA+ | code |
|---|---|
| `table`, `mirror`, `list`, `contexts` | rows of `accounts`, `accounts/list` of QSettings, `accounts_`, `contexts_` |
| `slot`, `tokens`, `jobs` | tokens in the keychain and in the contexts, and keychain jobs |
| `view` | `AccountManager::currentId_` and `MainWindow::currentAccountId_` |
| `applied` | `startupSelectionApplied_` |
| `signIn` | `pendingAuth_` from the browser to the address it found |
| `asked`, `removing` | the question of "Drop orphaned cache", and the accounts it goes on to remove |
| `forgotten`, `crossed`, `blind` | history: accounts whose row was lost or removed while they had tokens; accounts signed in again before their sign-out was reported; a statement or job failed since the start |

### MessageList

| TLA+ | code |
|---|---|
| `list` | MessageListModel: its top-level rows, each with the children shown under it, `cacheDrained_`, what it lists |
| `footer`, `topUps`, `isSyncing`, `exhausted` | `footerState_`, `topUpsInFlight_`, `isSyncing_`, `serverExhaustedByLabel_` |
| `cursor`, `slot`, `steps`, `posted` | the SyncService of each account: page cursor, `busy`, posted continuations, queued `topUpLabel` calls |
| `account`, `labelId`, `cross`, `query`, `submitted`, `wanted` | what the window is on, and a search sent to Gmail |
| `memory` | `labelScrollMemory_` |
| `crossed`, `torn`, `list.skew` | history: a count that belongs to another account or to a label put aside by a search; a cache dropped under a top-up; a page read at an offset that open conversations had shifted, or a change of the cache nobody told the list of |
| `missed` | history: messages a top-up asked for and did not get; the cursor passes them and they count as stored |

A listing is what the rollup query returns: the newest message of each conversation of the view,
newest first. The model numbers it by rank (`Rank`, `Rollup`), without sorting, so that it can be
proved about; `MCMessageList` checks it against a sorted sequence on every set of the instance's
messages (`ListingsSorted`). `Places` counts rows as the view does, children included, and is the
offset `fetchMore` reads at.

### Reader

| TLA+ | code |
|---|---|
| `stored`, `box`, `whole`, `snooze` | the cache: messages, labels, `cacheLooksComplete`, `snooze_until` |
| `ui` | rows of the list, the view's current index, `currentRow_`, `currentMessage_`, what ReaderPane shows |
| `fetching`, `answers` | `getMessage` under way, and the queued `messageFetched` |
| `dialog` | the modal question, the message it was about, and the labels read before it |
| `queued` | the messages the last handler queued a modify for, and how the edit was begun |
| `lost` | history: a wake-up cut short by a crash |

A row that opens and marks its conversation read is one action with the reload that follows, as
it is one handler. While a question is open the event loop goes on with answers, syncs
and timers and takes no key or click.

### Attachments

| TLA+ | code |
|---|---|
| `files` | what is at each path of the user's folder and of `sessionTempDir()` |
| `saved` | `local_path` of the rows of `attachments` |
| `picked` | the attachments an open file dialog is about; the dialog is Reader's |
| `downloads` | the lambdas that wait for `getAttachment`, with what they captured |
| `found`, `met` of a download | history: what was at its path when it was chosen, and whether another download has written there since |

The module extends `Reader`: `WindowNext` is a step of Reader, with what it does to the
rows of attachments, or one of a chip, a dialog or an answer. The file dialogs are
modal questions like the others. "Open" chooses its name when the answer is there, and
"Download all" before the first request is sent. Gmail's ids of attachments may change
from answer to answer, so `markDownloaded` may find no row.

### Labels

| TLA+ | code |
|---|---|
| `gmail`, `table`, `phantom` | Gmail's user labels, rows of `labels`, a row with an empty id |
| `tree`, `sel` | LabelTreeModel, and the sidebar's remembered selection |
| `win` | `currentAccountId_`, `currentLabelId_`, `crossAccountView_` |
| `calls`, `listing` | create, rename and delete under way; the `labels.list` of an initial sync |
| `reloads` | posted `reloadSidebar` calls |
| `chosen`, `drifted`, `raced`, `unheard` | history: what the user chose last, and whether by an account's key; labels changed elsewhere, under a listing or by two calls; accounts listed, or whose cache was dropped, while the window was elsewhere, until the next reload |

A program starts with the labels of some set of `Seedings` listed: none at a first launch. A listing
is stored and the tree rebuilt in one turn: an account's services are made on the UI thread and stay
there (`AccountContext.h:20-29`; only the worker that trains dictionaries calls `moveToThread`), so `labelsUpdated` runs
its slots inside the emit. `dropCache` deletes the rows of any account and reloads the tree for the
one in the window (MainWindow.cpp:1056-1064).

## 4. Runs, bounds and fairness

| run | configuration | states | what it shows |
|---|---|---|---|
| `Sync` | 1 label, 2 messages, 3 history entries, history pages of 2, 1 fault, 1 crash | 0.15 M | `CachedRowsCurrent`, `NoSilentGap`, `CatchesUp` |
| `SyncWalk` | 2 labels, 3 messages, pages of 1, cap of 2 pages, crawler on, 1 change, 1 fault, 1 request | 1.1 M | `OneChain`, `WalkedIsCached`, `TopUpsBracketed`, `WalkCompletes` |
| `Outbox` | 2 accounts, 2 mails, `kMaxAttempts` 2, 2 faults, 1 sign-out, 1 removal, 1 crash | 0.12 M | `OneCallPerRow`, `ImplementsOutgoingMail`, `MailGoesOut` |
| `OutboxDue` | the same without faults or crash | - | violation, section 6 |
| `Pending` | 2 messages, edited alone or together, 1 label put on and taken off, 2 operations, `kGiveUpAttempts` 2, 2 faults, 1 change by another client, 1 crash | 0.33 M | `DivergenceIsOwed`, `LastEditReaches`, `QueueDrains` |
| `Drafts` | 2 accounts, 1 window, 2 saves, and one each of fault, sign-out, removal and crash | 0.45 M | `SavedTextKept`, `CleanRowsAtGmail`, `DuplicatesExplained`, `DraftsReachGmail` |
| `Bodies` | 2 messages, 2 passes, samples and chunks of 1, 1 store, 2 upsets | 2.6 M | `BodiesReadable`, `DictionariesAgree`, `BodiesFindable`, `NoFalseHits` |
| `Session` | 2 requests, one a POST, `kMaxAttempts` 1, 2 sign-ins, 2 upsets | 0.4 M | `SignedOutStaysOut`, `TokensAgree`, `RequestsHonest`, `RequestsEnd` |
| `Accounts` | 2 addresses, 2 accounts at the start, 3 ids, 2 sign-ins or sign-outs, 1 fault, 2 questions or restarts | 1.2 M | `AccountsAgree`, `TokensReachable`, `WindowSettles` |
| `List` | 6 messages of 2 accounts, one conversation of two, database pages of 2, cap of 2 pages, 2 chunks, a view of 1 row, 2 moves, 1 posted top-up, 1 fault | 0.11 M | `LoadedIsPrefix`, `NoMoreIsTrue`, `LoadingMeansWork`, `OldMailReached` |
| `Reader` | 4 messages of 2 accounts, one conversation of two, one cached whole, one yet to arrive; two attachments of one name, which is taken; 2 openings, and one each of edit or download, move, sync and fault | 0.5 M | `ReaderAgrees`, `ReadIsSeen`, `EditsAsAimed`, `SnoozedComesBack`, `FilesKept` |
| `Labels` | 2 accounts, none listed at the start or one, 2 ids, 2 names, 2 calls, 2 moves, 1 reload for counts, 1 initial sync, and one of: a reply lost, a change made elsewhere, a cache dropped | 3.1 M | `LabelsAgree`, `TreeFollowsTable`, `WindowStaysPut` |

`TypeOK` of every module (`ListTypeOK`, `LabelsTypeOK`, and `WindowTypeOK` in `Attachments`) was
checked on the same instances and is proved (section 5).

Why these are enough. The history needs three entries for a page of two to be cut
short, and for a change before, on and after a page; a label's order of changes
(added, removed, added again) fits in three. A top-up needs three messages at
pages of one to run into its page cap, be continued, and reach the end; two
labels make two chains compete and let the crawler pick. One crash and one fault (a resend is one)
reach every stage, since each is enabled at every request; two faults on the
outbox let one mail run to `kMaxAttempts`, be parked, and go out later. Two
accounts are what the shared batch counter needs. Two operations are one batch on
two messages, or two edits of one label that overtake each other, or one that waits
while the other is given up; each message and each label is handled by itself, so a
second label adds nothing that a second message does not. Two saves are a save under an
answer. Two passes are a pass over another one's dictionary, and two upsets a drop
under a pass and a crash after it. Two requests are one nested loop in another; each
attempt is like the one before, so one retry is enough. Three ids are two accounts
and one signed in anew. Four conversations of one account at pages of two are two
pages of the cache, older mail at Gmail, and new mail in front. Two openings are
an answer that comes after another message was opened. One "Download all" of two files of one
name is two downloads that meet. Without attachments `Reader` also passes with two moves
(1.1 M states) and with two syncs (2.4 M); with attachments and no moves or syncs, with three
downloads (0.1 M). `Accounts` also passes with two faults (3.2 M).

`MaxPosted` is 1 in the sync: no new top-up starts while one continuation is posted.
Without it, top-ups can pile up in the event queue without limit, each with its own
continuation; one posted continuation is enough for a sync or another top-up to take
the slot from it. All constants named `Max...`, but for `kMaxAttempts`, `MaxPages`
(`kMaxPagesPerTopUp`) and `MaxPagesPerTopUp`, bound how often the environment acts and
appear in guards only; the modules say so where they declare them.

`CHECK_DEADLOCK FALSE` appears in all configurations but those of the sync: when
tables are empty or the bounds are used up, nothing is left to do. The sync's timers never
stop, and its runs check deadlock.

Fairness.

* `SyncService`: the event loop serves its timers and its queue, and each
  request is answered or fails in the end. There is no transfer timeout in `api/` or
  `auth/`, so a connection that stays open for ever is outside what the code handles.
  Nothing is assumed of the mailbox, the user or crashes. `CatchesUp` is meaningful
  since the mailbox changes at most `MaxHistory` times. `WalkCompletes` is an action
  property and needs none.
* `OutboxWorker` and `DraftSync`: the timer fires, time passes, each call is answered or
  fails, contexts are deleted, and a user signs in again to an account that still
  exists. Mail of a signed-out account cannot go out otherwise.
* `PendingOps`: the worker's and the sync's timers fire and each call is answered or
  fails; nothing of users, other clients and crashes.
* `Session`: each request on the wire is answered or fails, back-off timers fire, and
  a nested event loop returns when its answer is there and it is on top.
* `MessageList`: the event queue is served, each account's slot is given back, and there is
  a user who goes on scrolling: `OldMailReached` is about that user.
* `Reader`: the timer of `wakeDueSnoozedMessages` fires.

`MailGoesOut` exempts runs in which the process died or an account was removed: a
row a crash left in 'sending' is selected by no query and reset by no start-up code,
and a removal can stop the worker (section 6). `DraftsReachGmail` exempts a removal
for the same reason, and the text an older answer marked clean.

Every property of a passing run has a mutant in `PROJECT.json`: a definition of the
model changed the way a plausible bug would change the code, under which TLC finds
the property violated. Mutated operators stand next to their originals and are
not used by any specification.

## 5. Proofs

Checked by tlapm, for every value of the constants that meets the modules' ASSUMEs
(bounds are natural numbers, page sizes and `kMaxAttempts` positive, labels numbered
from 1, Gmail's own labels and the ids of the user's labels different).

* `SyncServiceProofs`, of the mailbox: what listings, page tokens and the log return, that the
  mailbox keeps its types, and that it and its log tell the same story (`LogInv`).
* Of the slot: every action does one of six orderly things to it (`SlotStep`): leaves it alone,
  takes it when free, moves a chain on, turns a chain into an initial sync, gives it back, or
  loses it in a crash; each preserves `OneChain`, which is inductive as it stands. The types
  need one strengthening, that a top-up chain carries a label (`TypeInv`), since the
  end of a top-up posts that label and writes its cursor.
* Of the cache: `CacheInv`. A label set `T` of a message agrees with the mailbox *as of* a
  position of the log (`Agrees(m, T, h)`) when each label is as `T` has it, or the log has
  an entry about it after `h`; a message that is gone must be reported so after `h`. This
  is stable: the mailbox writes its log as it changes, so what agrees once agrees for ever.
  `CacheInv` says so of every label set the program holds, each as of the id it will
  be stored under: rows at the recorded id, answers at the id of their chain, bodies
  fetched on demand at the log they were read from. Beside it, each stage says what it
  owes: between the commit of a history id and its page, the rows are as of the page's start
  and nothing that the page leaves out is about one of them (`ApplyInv`); no id an initial
  sync or a page of a top-up set out to fetch gets lost (`SeedInv`, `TopUpInv`). None of
  this follows from the properties: `NoSilentGap` exempts what a chain is about to fetch, and
  only the stage says that it will. From it: `CachedRowsCurrentAlways`, `NoSilentGapAlways`,
  `WalkedIsCachedAlways`, and the action property `WalkCompletesAlways`: only the last page
  of a label ends its walk with success (`WalkEndsAtLastPage`), and by then `TopUpInv` has this page's
  messages and those of the pages before. TLC checked `CacheInv` on the instances of `Sync` and `SyncWalk`.
* Of the top-ups: `TopUpsBracketedAlways` counts. The open top-ups of a label are its chains, of which
  there is one at most, and its continuations in the event queue; each step changes both
  sides by the same amount.
* `OutboxWorkerProofs`: the inductive invariant `IInv` joins the properties with what
  they need of each other. Ids are given out once (`IdsGivenOut`), so a new row has
  no call yet; a row with a call is 'sending', so a batch picks none of them up and
  its new calls are new; so the countdown is the number of calls, finite
  (`BatchFinite`), and comes down by one per callback. For `NoBlindResend`, Gmail may
  hold one copy beyond those the program lost sight of only while a call is about
  to say so, or when the row is gone and no call carries it (`CopiesAccounted`). A resend is an answer
  lost, and leaves that as it is.
  From it: `TypeOKAlways`, `OneCallPerRowAlways`, `BatchCountedAlways`,
  `NoBlindResendAlways`, and, with the fact that an accepted call is counted,
  `NoMailDroppedAlways`.
* `PendingOpsProofs`: `DivergenceIsOwed` is not inductive: an operation that waits may
  already have been taken, or want the opposite of what the cache shows.
  `DivergenceHasCause` asks for a waiting operation that wants what the cache shows
  and that Gmail has not taken in this batch, and `DeltaCurrent` says that an answer
  is still true where there is no later news, so applying it settles a label.
  `LastEditReaches` needs that at most one operation waits on an uncontested label,
  wants what the user wants, and agrees with the mailbox once taken
  (`OneChangeWaits`). Both rest on the table: calls carry rows that exist, no two the
  same (`CallsOfRows`), and the countdown is the number of calls (`BatchExact`), so
  a new batch starts with none out. `EditLabels` is the argument for an edit, whether
  it ends or is cut short. From `IInvAlways`: `TypeOKAlways`,
  `DivergenceIsOwedAlways`, `LastEditReachesAlways`.

* `OutboxWorkerProofs` also proves the refinement, `OutgoingMailImplemented`: each action is
  matched with a step of `OutgoingMail` or a stutter, under `IInv` and `CopiesExact`: a mail
  on offer has no copy at Gmail but those that went unheard, so an `Accept` is a `Deliver`; a resend
  is a `LoseSight`, so the next `Accept` is one too.
* `DraftSyncProofs`: `IInv` joins `TypeOK`, the two text properties and
  `DuplicatesExplained` with what calls and rows know of each other. What Gmail has
  answered is there, and a row that was not saved again has the text its call carries
  (`CallsTrue`); while a key may still be created once more, Gmail has no more drafts
  of it than the lost answers and the revivals account for (`RoomForOne`). From it:
  `SavedTextKeptAlways`, `CleanRowsAtGmailAlways`, `DuplicatesExplainedAlways`, `OneCallPerDraftAlways`.
* `LabelsSessionProofs`, of the session: `IInv` is `CallsOK /\ StoreOK`. `HonestAt` ties each stage of a
  request to how often Gmail took it and how often it was resent, and `Stacked` the requests in a refresh to the
  frames on the stack; `RequestsHonest` follows. `StoreOK` is about the keychain's jobs: a
  load comes first and once, and no job joins a lone load without being counted as
  `crossed` (`JobsOK`). A signed-out account is `Erased` (an erase is queued or the slot is empty,
  with no write after it) or its erasure was lost and `faulted`; a signed-in one has
  its tokens in the last job that writes, and frames carry the grant of the tokens.
  From it: `RequestsHonestAlways`, `SignedOutStaysOutAlways`, `TokensAgreeAlways`,
  `TypeOKAlways`.
* `MessageCacheListProofs`, of the cache: with the types (`TypeInv`), `DictionariesAgree`, `BodiesFindable`,
  `NoFalseHits` and `BodiesReadable` are inductive, the last with `DictionariesAgree`: a
  store compresses with the dictionary in memory, so that has to be the one on disk, or a pass has
  to be under way that rewrites the row. The weight is in the steps: a row written or rewritten
  under a pass is among those the pass has still to read (`Awaits`), and a new row takes a
  number no other has, so that the index speaks of it alone (`NewRowid`, a fact about finite sets).
* `AccountsProofs`: `AccountsInv`. Whatever failed, clients, queued calls and the jobs of live
  clients are of rows that are there (`ClientsOK`), and tokens of rows a start would show, or
  forgotten (`KeyedAreKept`). Without a failure the copies agree (`Agree`), and three parts say what the
  jobs under way will tell: the last job about a row without tokens is a load of its
  client, or erases them (`JobsTell`); a window on an account without tokens has a call
  or a job to come (`GateToCome`); one emptied under an account with tokens has that
  account's sign-out to come (`SignOutToCome`). `WindowSettles` is about a state with nothing
  under way and no failure, where these leave nothing to come. It needed that rows are served in
  order, each once (`InOrder`, the number of an element in a finite set). TLC checked
  `AccountsInv` on the instance of `Accounts`.
* `LabelsSessionProofs`, of the labels: `LabelsInv`, for `LabelsAgree`, where nothing is said while calls are out. A
  granted call says what Gmail has, and a second one about its label was noticed (`CallsTrue`,
  `OneGranted`); a listing names what Gmail has, and what it leaves out was made since and
  has a row or a call (`ListingTrue`); so a row agrees, or a call about it is granted (`TableTrue`).
  `WindowStaysPut` needs that the sidebar's label is the one chosen (`WindowInv`).
  Between a dropped cache and the next listing an account's rows are only `Awaited`.
  `TreeFollowsTable` is inductive as it stands, and holds without a hypothesis on how the program starts:
  a reload hears of every account and leaves the tree with the table's labels, and with their names where
  an account has rows of Gmail's hidden labels, since those make it structural (`ReloadTree`);
  a change that nobody passes on makes its account `unheard`. TLC checked `LabelsInv` and `WindowInv`
  on the instance of `Labels`. From these: `LabelsTypeOKAlways`,
  `LabelsAgreeAlways`, `WindowStaysPutAlways`, `TreeFollowsTableAlways`.
* `MessageCacheListProofs`, of the list: `ListInv` has four parts beside the types. The rows match
  the listing block by block, the open ones with the other messages of their conversation under
  them, and a drained list has the whole listing (`ListKept`); this needs that the
  offset of a page is the number of blocks when nothing is askew, and that two listings agree up to
  a rank below which the same messages are cached (`Rank`, a count of a finite set). The footer goes
  by the count of top-ups and the exhausted label (`FooterKept`). Gmail lists no message of a
  label behind its cursor, and none at all of an exhausted label, that the program has not `Had`: that is
  in the cache or was asked for and did not come (`missed`); but for accounts `torn` by a
  dropped cache (`ServerKept`). The top-ups counted are no more than the one
  in the slot and the ones still posted, but for an account that was crossed (`WorkKept`). From it:
  `LoadedIsPrefixAlways`, `NoMoreIsTrueAlways`, `LoadingMeansWorkAlways`. TLC checked `ListInv` on
  the instance of `List` and, with three moves, on 1.2 M states.
* `ReaderProofs`: `ReaderInv` adds to the types that what is shown, what is open and what the
  toolbar would edit are of one conversation (`GoodUi`), and that an open question has
  a message it is about; the messages under a row, and the row a message is found at, are of its
  conversation. From it: `ReaderAgreesAlways`, and of each step `ReadIsSeenAlways`,
  `EditsAsAimedAlways`, `StampGoesWithInboxAlways`. A wake-up puts INBOX back on all of a
  conversation's messages, and the one whose stamp went is one of them.
* `ReaderProofs`, of the attachments: `FilesInv` is the types of the composed module and
  `FoundStands`: what a download found at its path when it was chosen is there still, or another
  download has been there since. From it: `FilesKeptAlways`.

What the proofs found in the models: `LoadedIsPrefix` was false with three moves. A message that joins an open
conversation is not put under its row until the list is loaded again, as nobody tells the list; this
now counts as askew (`list.skew`). `WindowTypeOK` left a disjunct
outside its conjunction and was weaker than it read. Half of `SnoozedComesBack` is about single
steps and became `StampGoesWithInbox`.

`BatchCounted`, `NoBlindResend`, `NoMailDropped`, `OneCallPerDraft`, the types and `StampGoesWithInbox`
by itself are proved and in no run: `ImplementsOutgoingMail` says what `NoBlindResend` does, and
`SnoozedComesBack` has `StampGoesWithInbox` in it.

Only model-checked: the liveness properties (`CatchesUp`, `MailGoesOut`, `QueueDrains`,
`DraftsReachGmail`, `RequestsEnd`, `OldMailReached`, and of `SnoozedComesBack` that due stamps do not
stay), which are out of the prover's reach (liveness under fairness and ENABLED). Every safety
invariant and action property of a run is stated by a theorem of section 5.

## 6. Where code and comments disagree

One of these is a run that ends in a violation (`OutboxDue`). The others were met on the way; the models
do what the code does, and the exemptions above name them. `MW` is `ui/MainWindow.cpp`.

Background work:

* **Removing an account can stop the outbox** (`OutboxDue`). A call whose client is
  deleted under it never counts down, `busy` stays set, and no account's mail is sent
  until the program restarts. `OutboxWorker.h:12-13` describes each tick as pulling
  and dispatching what is due. Drafts and pending operations have the same counter.
* **A draft saved under an answer is never pushed.** `markSynced`
  (`DraftSync.cpp:106`) clears `dirty` whatever the row holds by then, so a text saved while
  `createDraft` was out is marked clean by the answer to the one before and stays on this
  machine. `DraftRepository.h:23` says that `dirty` means "needs push to Gmail", and
  `DraftSync.h:12` that locally-modified drafts are pushed. No fault is needed: TLC refutes
  `CleanRowsAtGmail` without its exemption for `overtaken` in eight states. A further save makes a new row
  (see below), which does go out.
* **The network stack repeats POSTs.** `RestClient.cpp:125-132` takes care not to send a POST
  twice; Qt 6.4 does so below it when the connection drops before the first byte of an answer
  (134-143; the repository's docs/overnight-review-notes.md and
  tests/unit/test_rest_client.cpp:187 record it). A mail can go out twice and nobody is told. The
  properties count such resends and say that the program adds no copy of its own.
* **A whole-label walk can stop without ending.** `topUpLabel` is silent when `busy` is set
  (`SyncService.cpp:424`), and the walk is driven by the signal it does not send.
  `cacheLabelTarget` stays set; later walks are ignored and the crawler defers.
  `SyncService.h:62-63` promises that the walk goes on to the end of the label.
* **The history id is recorded without the seed bodies.** A seed body whose get failed is
  counted as done (`SyncService.cpp:658`); lines 263-264 say the id is
  committed "only once the seed bodies are on disk".
* **A top-up passes mail it did not get.** A get that fails is left out of what is stored
  (`SyncService.cpp:657-663`); the cursor is written all the same (554), the message is counted as
  stored, and the label may be reported exhausted (556). The list then says "No more messages" with
  mail missing, and neither the view nor the scroll bar asks again (MW:1363, 1404); choosing
  the label again does, as its top-up starts over. `unfetched` and `missed` are these messages.
* **A refresh does not reconcile a refused edit.** An operation that is refused or given up is
  removed and the cache keeps its edit. The status line says "Refresh to reconcile."
  (MW:1681-1685), but a refresh is an incremental sync, and the mailbox's history has no
  entry for a change it did not take.
* **A re-keyed draft is created again.** The compose window goes on under its local id
  (MW:2843-2844), and `DraftSync.h:12` describes the update of a draft that never happens.
* **A parallel load is not harmless** (`MessageRepository.cpp:87-89`): it can replace the
  dictionary a pass just put into memory by the one before. A failed `saveDictionary` still
  rewrites the rows; dropping the cache under a pass strands bodies under a dictionary
  that is not stored; rows read as empty while a pass holds them.
* **The prompt for a first training never comes**, as the bundled dictionary is never empty.

Requests, tokens, accounts:

* `RestClient.h:22` says 429 is retried for idempotent verbs; the code retries any. `RateLimiter`
  allows 6 attempts and sends 7 times.
* A load of tokens under way at a sign-out puts them back (`OAuthClient.cpp:177`), a refresh leaves
  an access token (518-531), the outer of two nested refreshes writes the older one
  (474-477), and a sign-in during a load is overwritten by it.
* `OAuthClient.cpp:382` takes the object for owned by the bootstrap "for the app's lifetime"; since
  there are contexts, removing an account deletes it under keychain callbacks that capture `this`.
* Removing the last account brings it back from the settings mirror. Accounts whose
  tokens are still being loaded, or that have just signed in, count as orphans
  (`CacheManagerDialog.cpp:114-158`). A failing select writes an empty mirror.
* Signing out makes the first other account the default, with or without tokens; an
  abandoned browser sign-in blocks further ones until a restart (MW:4266-4271).
* The selection at the start is taken as done before an account has its tokens
  (MW:1150-1153, against 1132-1136).

List:

* `fetchMore` counts the children of open conversations in its offset
  (`MessageListModel.cpp:153-205`, against `MessageListModel.h:101-105`).
* With a conversation open, two queued top-ups can clear `exhausted` for each other without
  end (`MessageListModel.cpp:329-342` and MW:1354-1362 say that this is prevented).
* `serverExhaustedByLabel_` and the scroll memory are keyed by the label alone (MW:2175-2181).
* A search during a top-up leaves its count behind; a late answer of a search restores the
  old query (MW:2671-2730). A list that fits has no scroll bar to ask for older mail with.

Reader:

* During "Loading" the keys act on the message that was open before. A question asked
  from the toolbar is answered for whatever is open by then (MW:3515-3527).
* A fetched message replaces a newer one when it is late (MW:2649-2663), and is marked read
  after the user has gone elsewhere.
* "Archive and next" opens the same conversation again in labels other than INBOX
  (MW:3685-3686). Moving from All Mail removes a label that does not exist (MW:4008-4012).
* Snoozed mail of accounts other than the current one is not woken (MW:4192-4194, dialog text
  at 4138-4140); a crash between the stamp and the label loses the wake-up.
* "Download all" picks all its names before any file is written (MW:3457), so of two attachments of
  one name the second takes the place of the first, against "never silently overwrite"
  (MW:3235-3238) and the "collision-safe naming" of `ReaderPane.h:71-73`. After 999 names the
  last one is overwritten.
* A part without an id is stored under one made up from its name (`AttachmentRepository.cpp:36-38`), so
  from the cache its chip is enabled, against `ReaderPane.cpp:744-748` and 776-780. Fetching a
  message again forgets where its attachments were saved.
* The `signedOut` handler empties list and reader and keeps `currentMessage_` (MW:880-884).

Labels:

* The tree's fast path "during top-up bursts" (`LabelTreeModel.cpp:179-187`) is not taken once an
  account was listed: the table has rows of hidden labels that the tree has not, so every reload is
  structural, selects the label again, and takes the window back after an account was chosen by its key.
* While no account has such rows, at a first launch and after the caches were dropped, the fast
  path is taken and does not see that a label has another name: one made and renamed by then
  keeps its first name in the tree.
* The tree is reloaded when the cache of the current account is dropped (MW:1056-1064); another
  account's labels stay in the sidebar until something else reloads it.
* "Queued from the sync thread" (MW:1190-1191) and "spawns its own QThread"
  (`AccountManager.h:36-41`) are no longer so: every service is on the UI thread (`AccountContext.h:20-29`).
* In All Inboxes every reload loads the list anew and posts top-ups.
* A rename answered after a delete writes a row with an empty id; a listing taken before a
  delete puts the row back; labels are listed by initial syncs only, and their rows never go.
* Of two labels of one name the tree shows the first. Local edits do not recompute
  `unread_count` (MW:1341-1345, 2586-2588).

## 7. What is not modelled

In modelled components:

* `SyncService`: message bodies, addresses and attachments; counters and signals of
  the UI other than the top-up bracket; the `/batch` path of the low-bandwidth mode
  (a run of single answers here, which is also what it falls back to); the `__all_mail`
  pseudo-label; the latch of the compression prompt; the split of the label deltas of one
  page over several transactions; a store that reports failure (its result is ignored,
  `SyncService.cpp:610-612`); `dropCache` during a sync.
* `PendingOps`: history pages beyond the first, expired history and rows fetched again
  (`SyncService` has them), the removal of an account (`OutboxWorker` has it, with a
  batch built alike), a request that Gmail takes after the program has given up
  waiting for it, the dry-run switch.
* `DraftSync`: the branch of `flush` for rows with Gmail's id and `DraftRepository::remove`:
  nothing opens or deletes a stored draft.
* `MessageCache`: VACUUM, contacts and counts, the rules that roll threads up.
* `Session`: the text of PKCE, state, requests and answers; the index of accounts in the
  keychain, which no code reads.
* `Accounts`: the order in which accounts were used or viewed (any, here).
* `MessageList`: the unread-only filter, pruning under a list. `Reader`: the paging of the
  list, signing out, dry-run. `Attachments`: inline parts, folders, what opens a file. `Labels`: nesting, counts, colours, branches; the
  statements of one listing, which are a step here; the resend of a request to make, rename or delete
  a label: the label was changed already, so that the second answer is that of a reply lost there (refused) or
  of none (granted).

Not modelled: migrations and start-up (straight-line I/O), parsing, formatting,
sanitising and MIME (pure functions whose data the models abstract, with unit tests
of their own), menus, printing, notifications, the editor of the compose window,
dialogs, tray and the loopback HTML server (no protocol state), the
offline dictionary tool.
