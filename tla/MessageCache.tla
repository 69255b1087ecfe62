---------------------------- MODULE MessageCache ----------------------------
(***************************************************************************)
(* The stored messages of one account: their bodies, compressed under a    *)
(* dictionary (MessageRepository, BodyCodec), the full-text index over     *)
(* them, and BodyCompressionWorker, which trains a new dictionary on a     *)
(* thread of its own and rewrites the bodies while the UI thread goes on   *)
(* storing, reading and removing them.                                     *)
(*                                                                         *)
(* SQLite (external) gives one writer at a time.  An upsert holds the      *)
(* write lock from before it asks for the dictionary until it commits, and *)
(* so do the statements of a chunk from the first UPDATE.                  *)
(*                                                                         *)
(* What a message says is the message: a body is known by the dictionary   *)
(* it is compressed under, and zstd refuses any other.  The bundled        *)
(* dictionary is never empty, so no body is stored plain, no prompt for a  *)
(* first training appears, and every pass is one of Mode::Recompress.      *)
(***************************************************************************)
EXTENDS Integers, FiniteSets

CONSTANTS
    Msgs,                   \* message ids
    MaxPasses,              \* bound: passes of the worker, of any process
    kTrainingSampleCount,
    kBackfillChunkSize,
    MaxStores,              \* bound: upserts begun
    MaxUpsets               \* bound: rows removed, data dropped or pruned, failed
                            \* transactions, crashes

ASSUME CacheAssumption ==
    /\ Msgs \subseteq Nat \ {0} /\ IsFiniteSet(Msgs)
    /\ MaxPasses \in Nat /\ MaxStores \in Nat /\ MaxUpsets \in Nat
    /\ kTrainingSampleCount \in Nat \ {0} /\ kBackfillChunkSize \in Nat \ {0}

VARIABLES
    rows,       \* table messages: a function on the ids present
    index,      \* messages_fts: a posting <<rowid, m>> for the body of m
    stored,     \* body_compression_dict
    dictCache,  \* g_dictCache, None before it is loaded
    ui,         \* what the UI thread is in the middle of
    pass,       \* the passes of BodyCompressionWorker
    worker,     \* compressionWorkers_ of the account, None when it has no entry
    asking,     \* the confirmation of onRecompressRequested is open
    stranded,   \* bodies put, or left, where the stored dictionary does not reach
    unindexed,  \* bodies missing from the index
    ghosts,     \* postings left behind by rows that went
    overtaken,  \* the dictionary in memory was put there after a newer one was saved
    superseded, \* passes whose dictionary is not the one stored, by a named cause
    stores, upsets

tableVars == <<rows, index>>
dictVars  == <<stored, dictCache, overtaken, superseded>>
causeVars == <<stranded, unindexed, ghosts>>
boundVars == <<stores, upsets>>
vars == <<tableVars, dictVars, ui, pass, worker, asking, causeVars, boundVars>>

\* Every training makes a dictionary of its own; an account without one has
\* the bundled one.
Passes  == 1 .. MaxPasses
Bundled == 0
None    == -1
Dicts   == Passes \cup {Bundled}

\* flag is body_compression: 0 without a body, 1 compressed, 2 orphaned.
Row == [rowid : Nat \ {0}, dict : Dicts \cup {None}, flag : 0 .. 2]

Idle == [at |-> "idle", msg |-> 0, full |-> FALSE, dict |-> None, read |-> FALSE]
UI   == [at : {"idle", "loading", "writing"}, msg : Msgs \cup {0}, full : BOOLEAN,
         dict : Dicts \cup {None}, read : BOOLEAN]

\* "saved": the dictionary is in the table and not yet in memory.
Pass == [at : {"off", "start", "loading", "sample", "train", "saved", "walk", "chunk",
               "ended", "gone"},
         old : Dicts \cup {None}, cursor : Nat, chunk : SUBSET Msgs]

NewPass == [at |-> "off", old |-> None, cursor |-> 0, chunk |-> {}]

Rows == DOMAIN rows

HasBody(m) == m \in Rows /\ rows[m].dict # None

\* decompressBody() with dictionary d.
Decodes(m, d) == HasBody(m) /\ rows[m].dict = d

Posting(m) == <<rows[m].rowid, m>>

\* All bodies are stored under the bundled dictionary; others are not stored.
Init ==
    /\ \E R \in SUBSET Msgs :
          rows = [m \in R |-> [rowid |-> Cardinality({n \in R : n <= m}),
                               dict |-> Bundled, flag |-> 1]]
    /\ index = {Posting(m) : m \in Rows}
    /\ stored = Bundled /\ dictCache = None /\ overtaken = FALSE /\ superseded = {}
    /\ ui = Idle
    /\ pass = [w \in Passes |-> NewPass] /\ worker = None
    /\ asking = FALSE
    /\ stranded = {} /\ unindexed = {} /\ ghosts = {}
    /\ stores = 0 /\ upsets = 0

Upset == upsets < MaxUpsets /\ upsets' = upsets + 1 /\ UNCHANGED stores

\* The UI thread can decompress: dictFor() has been called since the start, or
\* since the dictionary was last invalidated.
Ready == ui = Idle /\ dictCache # None

\* Nobody but the UI thread writes outside of an action.
Unlocked == ui.at # "writing"

Running(w) == pass[w].at \notin {"off", "ended", "gone"}

\* Pass w will still come to row m, and decode it.
Awaits(w, m) ==
    /\ rows[m].dict \in {pass[w].old, w}
    /\ \/ pass[w].at \in {"saved", "walk"} /\ m > pass[w].cursor
       \/ pass[w].at = "chunk" /\ (m > pass[w].cursor \/ m \in pass[w].chunk)

-----------------------------------------------------------------------------
(* dictFor(): the mutex is given up while the table is read.               *)

dictForRead ==
    /\ ui = Idle /\ dictCache = None
    /\ ui' = [Idle EXCEPT !.at = "loading", !.dict = stored]
    /\ UNCHANGED <<tableVars, dictVars, pass, worker, asking, causeVars, boundVars>>

\* The entry is replaced, whatever was put there in between.
dictLoaded(d) ==
    /\ dictCache' = d
    /\ overtaken' = (d # stored)
    /\ UNCHANGED <<stored, superseded>>

dictForInsert ==
    /\ ui.at = "loading"
    /\ dictLoaded(ui.dict)
    /\ ui' = Idle
    /\ UNCHANGED <<tableVars, pass, worker, asking, causeVars, boundVars>>

-----------------------------------------------------------------------------
(* MessageRepository on the UI thread.                                     *)

\* BEGIN, the old row, the write lock, then compressBody().
upsertBegin(m, full) ==
    /\ Ready /\ stores < MaxStores /\ stores' = stores + 1
    /\ ui' = [at |-> "writing", msg |-> m, full |-> full, dict |-> dictCache,
              read |-> Decodes(m, dictCache)]
    /\ UNCHANGED <<tableVars, dictVars, pass, worker, asking, causeVars, upsets>>

\* SQLite gives a new row the highest rowid plus one.
NewRowid == 1 + Cardinality(UNION {1 .. rows[m].rowid : m \in Rows})

\* ON CONFLICT: an empty body keeps the old one, and its flag.
Merged(m) ==
    IF m \in Rows /\ ~ ui.full
    THEN rows[m]
    ELSE [rowid |-> IF m \in Rows THEN rows[m].rowid ELSE NewRowid,
          dict  |-> IF ui.full THEN ui.dict ELSE None,
          flag  |-> IF ui.full THEN 1 ELSE 0]

\* Mutant of Indexed: a metadata-only store indexes the body it carries: none.
IndexedEmpty(m, rowid) ==
    (IF ui.read THEN index \ {<<rowid, m>>} ELSE index)
        \cup (IF ui.full THEN {<<rowid, m>>} ELSE {})

\* The old content is deleted as far as it could be read, then the new body, or
\* else the old one, is inserted.
Indexed(m, rowid) ==
    (IF ui.read THEN index \ {<<rowid, m>>} ELSE index)
        \cup (IF ui.full \/ ui.read THEN {<<rowid, m>>} ELSE {})

upsertCommit ==
    LET m == ui.msg
    IN  /\ ui.at = "writing"
        /\ rows' = [n \in Rows \cup {m} |-> IF n = m THEN Merged(m) ELSE rows[n]]
        /\ index' = Indexed(m, Merged(m).rowid)
        /\ unindexed' = IF ui.full THEN unindexed \ {m} ELSE unindexed
        /\ stranded' = IF ui.full
                       THEN IF ui.dict = stored THEN stranded \ {m} ELSE stranded \cup {m}
                       ELSE stranded
        /\ ui' = Idle
        /\ UNCHANGED <<ghosts, dictVars, pass, worker, asking, boundVars>>

\* The lock was not had within the busy timeout, or a statement failed.
upsertFails ==
    /\ ui.at = "writing" /\ Upset
    /\ ui' = Idle
    /\ UNCHANGED <<tableVars, dictVars, pass, worker, asking, causeVars>>

\* Mutant of Gone: the full-text rows are left alone.
GoneUnindexed(R) == index

\* ftsDeleteByRowid() for the rows of R: FTS5 needs the content to find the
\* postings, and an unreadable body gives it none.
Gone(R) == index \ {Posting(m) : m \in {n \in R : Decodes(n, dictCache)}}

\* The rows of R go, one by one or together, with what could be read of them.
Leave(R) ==
    /\ rows' = [m \in Rows \ R |-> rows[m]]
    /\ index' = Gone(R)
    /\ ghosts' = ghosts \cup {Posting(m) : m \in {n \in R : ~ Decodes(n, dictCache)}}
    /\ stranded' = stranded \ R /\ unindexed' = unindexed \ R

remove(m) ==
    /\ Ready /\ m \in Rows /\ Upset
    /\ Leave({m})
    /\ UNCHANGED <<dictVars, ui, pass, worker, asking>>

\* AccountManager::dropCache.  It knows nothing of a pass that runs.
dropCache ==
    /\ Ready /\ ~ asking /\ Upset
    /\ Leave(Rows)
    /\ stored' = Bundled
    /\ dictCache' = None
    /\ overtaken' = FALSE
    /\ superseded' = superseded \cup {w \in Passes : Running(w)}
    /\ UNCHANGED <<ui, pass, worker, asking>>

\* What reconcileFtsForAccount() indexes of the rows of R.
Rebuilt(R) == {Posting(m) : m \in {n \in R : Decodes(n, dictCache)}}

\* clearMessages...: DELETE, then wipe the index and insert every row anew,
\* statement by statement.
Prune(R, idx) ==
    /\ rows' = [m \in Rows \ R |-> rows[m]]
    /\ index' = idx
    /\ stranded' = stranded \ R
    /\ unindexed' = {m \in Rows \ R : HasBody(m) /\ Posting(m) \notin idx}

clearMessages(R) ==
    /\ R # {} /\ R \subseteq Rows
    /\ Ready /\ Upset
    /\ Prune(R, Rebuilt(Rows \ R))
    /\ ghosts' = {}
    /\ UNCHANGED <<dictVars, ui, pass, worker, asking>>

-----------------------------------------------------------------------------
(* Passes, as MainWindow starts and forgets them.                          *)

startCompressionWorker(w) ==
    /\ pass[w].at = "off" /\ \A v \in Passes : v < w => pass[v].at # "off"
    /\ pass' = [pass EXCEPT ![w].at = "start"]
    /\ worker' = w

\* The check for a running pass comes before the question.
onRecompressRequested ==
    /\ ui = Idle /\ worker = None /\ ~ asking
    /\ asking' = TRUE
    /\ UNCHANGED <<tableVars, dictVars, ui, pass, worker, causeVars, boundVars>>

\* The question runs the event loop until it is answered.
answer ==
    /\ ui = Idle /\ asking /\ asking' = FALSE
    /\ \/ \E w \in Passes : startCompressionWorker(w)
       \/ UNCHANGED <<pass, worker>>
    /\ UNCHANGED <<tableVars, dictVars, ui, causeVars, boundVars>>

\* The account's turn in onRecompressAllAccounts comes when the pass of the
\* account before it ends.
dequeueNextRecompress ==
    /\ ui = Idle /\ worker = None
    /\ \E w \in Passes : startCompressionWorker(w)
    /\ UNCHANGED <<tableVars, dictVars, ui, asking, causeVars, boundVars>>

\* finished() or failed() reaches the UI thread and clears the account's entry,
\* whichever pass it is of.
finished(w) ==
    /\ ui = Idle /\ pass[w].at = "ended"
    /\ pass' = [pass EXCEPT ![w].at = "gone"]
    /\ worker' = None
    /\ UNCHANGED <<tableVars, dictVars, ui, asking, causeVars, boundVars>>

-----------------------------------------------------------------------------
(* BodyCompressionWorker::doWork, on its own thread.                       *)

\* oldDict, taken before the training overwrites it.
snapshot(w, d) == pass' = [pass EXCEPT ![w].at = "sample", ![w].old = d]

\* dictionaryFor(), which may have to load.
Snapshot(w) ==
    /\ pass[w].at = "start"
    /\ IF dictCache # None
       THEN snapshot(w, dictCache)
       ELSE pass' = [pass EXCEPT ![w].at = "loading", ![w].old = stored]
    /\ UNCHANGED <<tableVars, dictVars, ui, worker, asking, causeVars, boundVars>>

SnapshotLoaded(w) ==
    /\ pass[w].at = "loading"
    /\ dictLoaded(pass[w].old)
    /\ snapshot(w, pass[w].old)
    /\ UNCHANGED <<tableVars, ui, worker, asking, causeVars, boundVars>>

Bodies == {m \in Rows : HasBody(m)}

\* The rows ORDER BY RANDOM() LIMIT can give.
Samples ==
    {S \in SUBSET Bodies :
        \/ S = Bodies /\ Cardinality(S) <= kTrainingSampleCount
        \/ Cardinality(S) = kTrainingSampleCount}

\* No body, or one that the old dictionary does not decode, ends the pass
\* before anything is written; so can the training.
Sample(w) ==
    /\ pass[w].at = "sample"
    /\ \E S \in Samples :
          IF S # {} /\ \A m \in S : Decodes(m, pass[w].old)
          THEN \E to \in {"train", "ended"} : pass' = [pass EXCEPT ![w].at = to]
          ELSE pass' = [pass EXCEPT ![w].at = "ended"]
    /\ UNCHANGED <<tableVars, dictVars, ui, worker, asking, causeVars, boundVars>>

\* saveDictionary(): the table first.  A body under a dictionary that the pass
\* never read, of another pass or after a drop, is out of reach from here on;
\* a pass that runs is from now on rewriting with a dictionary of the past.
SaveDictionary(w) ==
    /\ pass[w].at = "train" /\ Unlocked
    /\ stored' = w
    /\ pass' = [pass EXCEPT ![w].at = "saved"]
    /\ stranded' = stranded \cup {m \in Bodies : rows[m].dict \notin {pass[w].old, w}}
    /\ superseded' = superseded \cup {v \in Passes \ {w} : Running(v)}
    /\ UNCHANGED <<tableVars, dictCache, overtaken, ui, worker, asking, unindexed, ghosts, boundVars>>

\* It failed; the pass does not learn of it and rewrites all the same.
SaveDictionaryFails(w) ==
    /\ pass[w].at = "train" /\ Upset
    /\ pass' = [pass EXCEPT ![w].at = "walk"]
    /\ superseded' = superseded \cup {w}
    /\ UNCHANGED <<tableVars, stored, dictCache, overtaken, ui, worker, asking, causeVars>>

\* Mutant of refreshed: the dictionary in memory stays what it was.
refreshedNot(w) == dictCache

refreshed(w) == w

\* Then the dictionary in memory.
RefreshDictionary(w) ==
    /\ pass[w].at = "saved"
    /\ dictCache' = refreshed(w)
    /\ overtaken' = (w # stored)
    /\ pass' = [pass EXCEPT ![w].at = "walk"]
    /\ UNCHANGED <<tableVars, stored, superseded, ui, worker, asking, causeVars, boundVars>>

\* Mutant of Ahead: the filter of Mode::InitialTrain, on every pass.
AheadPlain(w) == {m \in Bodies : m > pass[w].cursor /\ rows[m].flag = 0}

Ahead(w) == {m \in Bodies : m > pass[w].cursor}

\* The first kBackfillChunkSize of them, in order of id.
NextChunk(w) ==
    {m \in Ahead(w) : Cardinality({n \in Ahead(w) : n <= m}) <= kBackfillChunkSize}

\* The last id of chunk C.
Advanced(w, C) == CHOOSE m \in C : \A n \in C : n <= m

SelectChunk(w) ==
    /\ pass[w].at = "walk"
    /\ pass' = IF NextChunk(w) = {}
               THEN [pass EXCEPT ![w].at = "ended"]
               ELSE [pass EXCEPT ![w].at = "chunk", ![w].chunk = NextChunk(w),
                                 ![w].cursor = Advanced(w, NextChunk(w))]
    /\ UNCHANGED <<tableVars, dictVars, ui, worker, asking, causeVars, boundVars>>

\* Decoded with the old dictionary or the new one, and compressed with the new;
\* or stamped as an orphan and left alone.
Rewritten(w, m) ==
    IF rows[m].dict \in {pass[w].old, w}
    THEN [rows[m] EXCEPT !.dict = w, !.flag = 1]
    ELSE [rows[m] EXCEPT !.flag = 2]

ChunkDone(w) == pass' = [pass EXCEPT ![w].at = "walk", ![w].chunk = {}]

\* The transaction of a chunk, from its first UPDATE to its COMMIT.  Rows that
\* went since they were selected are skipped.
RewriteChunk(w) ==
    LET C == {m \in pass[w].chunk : HasBody(m)}
    IN  /\ pass[w].at = "chunk" /\ Unlocked
        /\ rows' = [m \in Rows |-> IF m \in C THEN Rewritten(w, m) ELSE rows[m]]
        /\ stranded' = IF stored = w THEN stranded
                       ELSE stranded \cup {m \in C : rows[m].dict \in {pass[w].old, w}}
        /\ ChunkDone(w)
        /\ UNCHANGED <<index, dictVars, ui, worker, asking, unindexed, ghosts, boundVars>>

\* Its UPDATEs, or its COMMIT, fail: a writer of the other thread came between
\* its first SELECT and its first UPDATE.  The rows stay as they are, and
\* the cursor is past them.
ChunkFails(w) ==
    /\ pass[w].at = "chunk" /\ Upset
    /\ stranded' = stranded \cup {m \in pass[w].chunk : HasBody(m) /\ rows[m].dict # stored}
    /\ ChunkDone(w)
    /\ UNCHANGED <<tableVars, dictVars, ui, worker, asking, unindexed, ghosts>>

\* The query for the next chunk, or the BEGIN of this one, fails and ends the pass.
WalkFails(w) ==
    /\ pass[w].at \in {"walk", "chunk"} /\ Upset
    /\ stranded' = stranded \cup {m \in Bodies : rows[m].dict # stored /\ Awaits(w, m)}
    /\ pass' = [pass EXCEPT ![w].at = "ended", ![w].chunk = {}]
    /\ UNCHANGED <<tableVars, dictVars, ui, worker, asking, unindexed, ghosts>>

-----------------------------------------------------------------------------
\* The process dies, and starts again; transactions that are open roll back.
Restarted ==
    /\ Upset
    /\ dictCache' = None /\ overtaken' = FALSE
    /\ ui' = Idle
    /\ pass' = [w \in Passes |-> IF pass[w].at = "off" THEN NewPass
                                 ELSE [NewPass EXCEPT !.at = "gone"]]
    /\ worker' = None /\ asking' = FALSE
    /\ superseded' = {}
    /\ UNCHANGED stored

\* Bodies a pass was going to rewrite stay under its old dictionary.
Awaited(R) == {m \in R : HasBody(m) /\ rows[m].dict # stored /\ \E w \in Passes : Awaits(w, m)}

Crash ==
    /\ Restarted
    /\ stranded' = stranded \cup Awaited(Rows)
    /\ UNCHANGED <<tableVars, unindexed, ghosts>>

\* In the middle of clearMessages: before the index is wiped, or with part of it
\* inserted again.
CrashInPrune(R) ==
    /\ R # {} /\ R \subseteq Rows /\ Ready
    /\ Restarted
    /\ rows' = [m \in Rows \ R |-> rows[m]]
    /\ stranded' = (stranded \cup Awaited(Rows)) \ R
    /\ \/ /\ UNCHANGED index
          /\ ghosts' = ghosts \cup {Posting(m) : m \in R}
          /\ unindexed' = unindexed \ R
       \/ /\ index' \in SUBSET Rebuilt(Rows \ R)
          /\ ghosts' = {}
          /\ unindexed' = {m \in Rows \ R : HasBody(m) /\ Posting(m) \notin index'}

-----------------------------------------------------------------------------
UserInterface ==
    \/ dictForRead \/ dictForInsert
    \/ \E m \in Msgs, full \in BOOLEAN : upsertBegin(m, full)
    \/ upsertCommit \/ upsertFails
    \/ \E m \in Msgs : remove(m)
    \/ dropCache
    \/ \E R \in SUBSET Msgs : clearMessages(R)
    \/ onRecompressRequested \/ answer \/ dequeueNextRecompress
    \/ \E w \in Passes : finished(w)

doWork(w) ==
    \/ Snapshot(w) \/ SnapshotLoaded(w) \/ Sample(w)
    \/ SaveDictionary(w) \/ SaveDictionaryFails(w) \/ RefreshDictionary(w)
    \/ SelectChunk(w) \/ RewriteChunk(w) \/ ChunkFails(w) \/ WalkFails(w)

Next ==
    \/ UserInterface
    \/ \E w \in Passes : doWork(w)
    \/ Crash
    \/ \E R \in SUBSET Msgs : CrashInPrune(R)

Spec == Init /\ [][Next]_vars

-----------------------------------------------------------------------------
TypeOK ==
    /\ Rows \subseteq Msgs /\ rows \in [Rows -> Row]
    /\ \A m, n \in Rows : rows[m].rowid = rows[n].rowid => m = n
    /\ index \subseteq (Nat \ {0}) \X Msgs /\ ghosts \subseteq (Nat \ {0}) \X Msgs
    /\ stored \in Dicts /\ dictCache \in Dicts \cup {None}
    /\ overtaken \in BOOLEAN /\ superseded \subseteq Passes
    /\ ui \in UI /\ pass \in [Passes -> Pass] /\ worker \in Passes \cup {None}
    /\ asking \in BOOLEAN
    /\ stranded \subseteq Rows /\ unindexed \subseteq Rows
    /\ stores \in Nat /\ upsets \in Nat

\* A body can be decoded with the dictionary on disk, or is stamped for fetching
\* again, or a pass that holds its dictionary has yet to come to it; otherwise it
\* is one of those that a named mishap stranded.
BodiesReadable ==
    \A m \in Bodies :
        \/ rows[m].dict = stored \/ rows[m].flag = 2
        \/ \E w \in Passes : Awaits(w, m)
        \/ m \in stranded

\* The dictionary in memory is the one on disk, but while a pass is between the
\* two, or after a load, or a pass, put an older one there; and a pass rewrites
\* with the one on disk unless its save failed or another pass, or a drop of the
\* account's data, came after it.
DictionariesAgree ==
    /\ dictCache \in {None, stored} \/ overtaken \/ \E w \in Passes : pass[w].at = "saved"
    /\ \A w \in Passes : pass[w].at \in {"saved", "walk", "chunk"} =>
          stored = w \/ w \in superseded

\* A search for what a stored body says finds its row, unless the body could not
\* be read when the index was last rebuilt.
BodiesFindable == \A m \in Bodies : Posting(m) \in index \/ m \in unindexed

\* A search does not bring up a row for what another message says, unless the
\* body of a removed row could not be read when it went.
NoFalseHits ==
    \A p \in index : p \in ghosts \/ (p[2] \in Rows /\ Posting(p[2]) = p)
=============================================================================
