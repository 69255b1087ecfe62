------------------------ MODULE MessageCacheListProofs ------------------------
(***************************************************************************)
(* Theorems about MessageCache and about MessageList, which share no state.  *)
(*                                                                         *)
(* MessageCache, for every set of messages, every number of passes and every *)
(* bound: no body is unreadable, and search finds what the cache holds.      *)
(*                                                                         *)
(* MessageList, for every mailbox, page size and bound: the rows loaded are  *)
(* the first of the listing, and the footer tells the truth.                 *)
(***************************************************************************)
EXTENDS MessageCache, MessageList, FiniteSetTheorems, SequenceTheorems, WellFoundedInduction, TLAPS

-----------------------------------------------------------------------------
(* Numbers.                                                                *)

LEMMA Least ==
    ASSUME NEW S, S \subseteq Nat, S # {}
    PROVE  \E p \in S : \A q \in S : p <= q
<1>1. PICK p \in S : \A q \in S : ~ (<<q, p>> \in OpToRel(<, Nat))
  BY NatLessThanWellFounded, WFMin
<1>2. \A q \in S : ~ (q < p)
  BY <1>1 DEF OpToRel
<1> QED BY <1>2

\* The union of the ranges 1 .. f[m] is as large as the largest of them, at
\* least: this is how NewRowid finds a free number.
LEMMA RangesBound ==
    ASSUME NEW S, IsFiniteSet(S), NEW f \in [S -> Nat]
    PROVE  LET U == UNION {1 .. f[m] : m \in S}
           IN  Cardinality(U) \in Nat /\ \A m \in S : f[m] <= Cardinality(U)
<1> DEFINE T == {1 .. f[m] : m \in S}
           U == UNION T
           g == [m \in S |-> 1 .. f[m]]
<1>1. g \in Surjection(S, T)
  BY DEF Surjection
<1>2. IsFiniteSet(T)
  BY <1>1, FS_Surjection
<1>3. \A n \in Nat : IsFiniteSet(1 .. n) /\ Cardinality(1 .. n) = n
  <2> TAKE n \in Nat
  <2>1. 1 \in Int /\ n \in Int /\ (1 > n => n = 0)
    OBVIOUS
  <2> QED BY <2>1, FS_Interval
<1>4. IsFiniteSet(U)
  BY <1>2, <1>3, FS_UNION
<1>5. ASSUME NEW m \in S
      PROVE  f[m] <= Cardinality(U)
  <2>1. f[m] \in Nat /\ (1 .. f[m]) \in SUBSET U
    OBVIOUS
  <2> QED BY <1>3, <1>4, <2>1, FS_Subset
<1> QED BY <1>4, <1>5, FS_CardinalityType

LEMMA Greatest ==
    ASSUME NEW S, IsFiniteSet(S), S \subseteq Nat, S # {}
    PROVE  \E p \in S : \A q \in S : q <= p
<1>1. PICK n \in Nat : \A m \in S : m <= n
  <2> DEFINE f == [m \in S |-> m]
             U == UNION {1 .. f[m] : m \in S}
  <2>1. f \in [S -> Nat] /\ \A m \in S : f[m] = m
    OBVIOUS
  <2>2. Cardinality(U) \in Nat /\ \A m \in S : f[m] <= Cardinality(U)
    BY <2>1, RangesBound
  <2> QED BY <2>1, <2>2
<1> DEFINE T == {n - m : m \in S}
<1>2. \A m \in S : m \in Nat /\ n - m \in Nat
  BY <1>1
<1>3. T \subseteq Nat /\ T # {}
  BY <1>2
<1>4. PICK t \in T : \A u \in T : t <= u
  BY <1>3, Least
<1>5. PICK p \in S : t = n - p
  BY <1>4
<1>6. \A q \in S : n - p <= n - q
  BY <1>4, <1>5
<1> QED BY <1>2, <1>5, <1>6

-----------------------------------------------------------------------------
(* Types.  TypeOK alone is not inductive: an upsert in progress has a      *)
(* message, and a pass that has not begun to walk has its cursor at the    *)
(* start, which is why it comes to every body.                             *)

RowsOK ==
    /\ Rows \subseteq Msgs /\ rows \in [Rows -> Row]
    /\ \A m, n \in Rows : rows[m].rowid = rows[n].rowid => m = n
DictsOK ==
    /\ stored \in Dicts /\ dictCache \in Dicts \cup {None}
    /\ overtaken \in BOOLEAN /\ superseded \subseteq Passes
UiOK == ui \in UI /\ (ui.at = "writing" => ui.msg \in Msgs)
PassOK ==
    /\ pass \in [Passes -> Pass]
    /\ \A w \in Passes :
          /\ pass[w].at \in {"off", "start", "loading", "sample", "train"} => pass[w].cursor = 0
          /\ pass[w].at = "loading" => pass[w].old \in Dicts
AskOK == worker \in Passes \cup {None} /\ asking \in BOOLEAN
CausesOK ==
    /\ index \subseteq (Nat \ {0}) \X Msgs /\ ghosts \subseteq (Nat \ {0}) \X Msgs
    /\ stranded \subseteq Rows /\ unindexed \subseteq Rows
BoundsOK == stores \in Nat /\ upsets \in Nat

TypeInv == RowsOK /\ DictsOK /\ UiOK /\ PassOK /\ AskOK /\ CausesOK /\ BoundsOK

LEMMA TypeInvImpliesTypeOK == TypeInv => TypeOK
BY DEF TypeInv, TypeOK, RowsOK, DictsOK, UiOK, PassOK, AskOK, CausesOK, BoundsOK

LEMMA MsgsAreNumbers == \A m \in Msgs : m \in Nat /\ m > 0
BY CacheAssumption DEF CacheAssumption

LEMMA RowsFinite ==
    ASSUME RowsOK
    PROVE  IsFiniteSet(Rows) /\ IsFiniteSet(Bodies)
<1>1. Rows \in SUBSET Msgs /\ Bodies \in SUBSET Msgs
  BY DEF RowsOK, Bodies
<1> QED BY <1>1, CacheAssumption, FS_Subset DEF CacheAssumption

\* A new row takes a number no row has.
LEMMA NewRowidIsFree ==
    ASSUME RowsOK
    PROVE  NewRowid \in Nat \ {0} /\ \A m \in Rows : rows[m].rowid < NewRowid
<1> DEFINE f == [m \in Rows |-> rows[m].rowid]
           U == UNION {1 .. f[m] : m \in Rows}
<1>1. f \in [Rows -> Nat]
  BY DEF RowsOK, Row
<1>2. Cardinality(U) \in Nat /\ \A m \in Rows : f[m] <= Cardinality(U)
  BY <1>1, RowsFinite, RangesBound
<1>3. U = UNION {1 .. rows[m].rowid : m \in Rows}
  OBVIOUS
<1>4. NewRowid = 1 + Cardinality(U)
  BY <1>3 DEF NewRowid
<1> HIDE DEF U
<1> QED BY <1>1, <1>2, <1>4 DEF RowsOK, Row

\* What stays of the table keeps its rows.
LEMMA RowsRemain ==
    ASSUME RowsOK, NEW R, rows' = [m \in Rows \ R |-> rows[m]]
    PROVE  /\ RowsOK' /\ Rows' = Rows \ R
           /\ \A m \in Rows \ R : rows'[m] = rows[m]
BY DEF RowsOK, Rows

LEMMA PostingsTyped ==
    ASSUME RowsOK
    PROVE  \A m \in Rows : Posting(m) \in (Nat \ {0}) \X Msgs
BY DEF RowsOK, Row, Posting

\* The table as upsertCommit leaves it.
LEMMA UpsertRows ==
    ASSUME TypeInv, upsertCommit
    PROVE  /\ RowsOK' /\ Rows' = Rows \cup {ui.msg}
           /\ rows'[ui.msg] = Merged(ui.msg)
           /\ ui.msg \in Rows => rows'[ui.msg].rowid = rows[ui.msg].rowid
           /\ \A n \in Rows \ {ui.msg} : rows'[n] = rows[n]
<1>1. PICK m : m = ui.msg
  OBVIOUS
<1>2. m \in Msgs /\ ui.dict \in Dicts \cup {None} /\ RowsOK
  BY <1>1 DEF TypeInv, UiOK, UI, upsertCommit
<1>3. rows' = [n \in Rows \cup {m} |-> IF n = m THEN Merged(m) ELSE rows[n]]
  BY <1>1 DEF upsertCommit
<1>4. Merged(m) \in Row
  <2>1. CASE m \in Rows /\ ~ ui.full
    BY <2>1, <1>2 DEF Merged, RowsOK
  <2>2. CASE ~ (m \in Rows /\ ~ ui.full)
    <3>1. (IF m \in Rows THEN rows[m].rowid ELSE NewRowid) \in Nat \ {0}
      BY <1>2, NewRowidIsFree DEF RowsOK, Row
    <3>2. (IF ui.full THEN ui.dict ELSE None) \in Dicts \cup {None}
      BY <1>2
    <3>3. (IF ui.full THEN 1 ELSE 0) \in 0 .. 2
      OBVIOUS
    <3> QED BY <2>2, <3>1, <3>2, <3>3 DEF Merged, Row
  <2> QED BY <2>1, <2>2
<1>5. Rows' = Rows \cup {m} /\ \A n \in Rows' : rows'[n] = IF n = m THEN Merged(m) ELSE rows[n]
  BY <1>3 DEF Rows
<1>6. Merged(m).rowid = IF m \in Rows THEN rows[m].rowid ELSE NewRowid
  BY DEF Merged
<1>7. rows' \in [Rows' -> Row]
  BY <1>2, <1>3, <1>4, <1>5 DEF RowsOK
<1>8. \A n \in Rows : rows[n].rowid \in Nat /\ rows[n].rowid < NewRowid /\ NewRowid \in Nat
  BY <1>2, NewRowidIsFree DEF RowsOK, Row
<1>9. \A a, b \in Rows' : rows'[a].rowid = rows'[b].rowid => a = b
  <2> SUFFICES ASSUME NEW a \in Rows', NEW b \in Rows', rows'[a].rowid = rows'[b].rowid
               PROVE  a = b
    OBVIOUS
  <2>1. rows'[a].rowid = IF a \in Rows THEN rows[a].rowid ELSE NewRowid
    BY <1>5, <1>6
  <2>2. rows'[b].rowid = IF b \in Rows THEN rows[b].rowid ELSE NewRowid
    BY <1>5, <1>6
  <2>3. \A n \in Rows : rows[n].rowid # NewRowid
    BY <1>8
  <2>4. CASE a \in Rows /\ b \in Rows
    BY <1>2, <2>1, <2>2, <2>4 DEF RowsOK
  <2>5. CASE a \notin Rows \/ b \notin Rows
    BY <1>5, <2>1, <2>2, <2>3, <2>5
  <2> QED BY <2>4, <2>5
<1> QED BY <1>1, <1>2, <1>5, <1>6, <1>7, <1>9 DEF RowsOK

LEMMA UpsertType ==
    ASSUME TypeInv, upsertCommit
    PROVE  TypeInv'
<1>1. RowsOK' /\ Rows' = Rows \cup {ui.msg} /\ ui.msg \in Msgs
  BY UpsertRows DEF TypeInv, UiOK, upsertCommit
<1>2. CausesOK'
  <2>1. Merged(ui.msg).rowid \in Nat \ {0}
    BY UpsertRows, <1>1 DEF RowsOK, Row
  <2>2. index' \subseteq (Nat \ {0}) \X Msgs
    BY <1>1, <2>1 DEF TypeInv, CausesOK, upsertCommit, Indexed
  <2>3. stranded' \subseteq Rows' /\ unindexed' \subseteq Rows' /\ ghosts' = ghosts
    BY <1>1 DEF TypeInv, CausesOK, upsertCommit
  <2> QED BY <2>2, <2>3 DEF TypeInv, CausesOK
<1>3. UiOK'
  BY DEF upsertCommit, UiOK, UI, Idle
<1> QED BY <1>1, <1>2, <1>3 DEF TypeInv, upsertCommit, dictVars, boundVars, DictsOK, PassOK, AskOK, BoundsOK

\* Steps of the UI thread that leave the tables alone.
LEMMA UiType ==
    ASSUME TypeInv,
           \/ dictForRead \/ dictForInsert \/ upsertFails
           \/ \E m \in Msgs, full \in BOOLEAN : upsertBegin(m, full)
    PROVE  TypeInv'
<1>1. UiOK'
  <2>1. CASE dictForRead
    BY <2>1 DEF dictForRead, TypeInv, UiOK, DictsOK, UI, Idle
  <2>2. CASE dictForInsert \/ upsertFails
    <3>1. ui' = Idle
      BY <2>2 DEF dictForInsert, upsertFails
    <3> QED BY <3>1 DEF UiOK, UI, Idle
  <2>3. CASE \E m \in Msgs, full \in BOOLEAN : upsertBegin(m, full)
    <3>1. PICK m \in Msgs, full \in BOOLEAN : upsertBegin(m, full)
      BY <2>3
    <3>2. Decodes(m, dictCache) \in BOOLEAN
      BY DEF Decodes, HasBody
    <3> QED BY <3>1, <3>2 DEF upsertBegin, TypeInv, UiOK, DictsOK, UI
  <2> QED BY <2>1, <2>2, <2>3
<1>2. DictsOK'
  BY DEF dictForRead, dictForInsert, dictLoaded, upsertFails, upsertBegin, dictVars,
     TypeInv, DictsOK, UiOK, UI
<1>3. BoundsOK'
  BY DEF dictForRead, dictForInsert, upsertFails, upsertBegin, boundVars, Upset, TypeInv, BoundsOK
<1>4. UNCHANGED <<tableVars, pass, worker, asking, causeVars>>
  BY DEF dictForRead, dictForInsert, upsertFails, upsertBegin
<1> QED BY <1>1, <1>2, <1>3, <1>4 DEF TypeInv, tableVars, causeVars, RowsOK, Rows, PassOK,
           AskOK, CausesOK

\* Rows go.
LEMMA RemovalType ==
    ASSUME TypeInv,
           \/ dropCache \/ \E m \in Msgs : remove(m)
           \/ \E R \in SUBSET Msgs : clearMessages(R)
    PROVE  TypeInv'
<1>1. PICK R : R \subseteq Rows /\ rows' = [m \in Rows \ R |-> rows[m]]
  BY Zenon DEF dropCache, remove, clearMessages, Leave, Prune
<1>2. RowsOK' /\ Rows' = Rows \ R
  BY <1>1, RowsRemain DEF TypeInv
<1>3. CausesOK'
  <2>1. CASE dropCache \/ \E m \in Msgs : remove(m)
    <3>1. PICK G : G \subseteq Rows /\ Leave(G)
      BY <2>1 DEF dropCache, remove
    <3>2. Rows' = Rows \ G
      BY <3>1, RowsRemain DEF Leave, TypeInv
    <3>3. index' \subseteq index /\ ghosts' \subseteq ghosts \cup {Posting(m) : m \in Rows}
      BY <3>1 DEF Leave, Gone
    <3>4. stranded' = stranded \ G /\ unindexed' = unindexed \ G
      BY <3>1 DEF Leave
    <3> QED BY <3>2, <3>3, <3>4, PostingsTyped DEF TypeInv, CausesOK
  <2>2. CASE \E G \in SUBSET Msgs : clearMessages(G)
    <3>1. PICK G : G \subseteq Rows /\ Prune(G, Rebuilt(Rows \ G)) /\ ghosts' = {}
      BY <2>2 DEF clearMessages
    <3>2. Rows' = Rows \ G
      BY <3>1, RowsRemain DEF Prune, TypeInv
    <3>3. index' \subseteq {Posting(m) : m \in Rows}
      BY <3>1 DEF Prune, Rebuilt
    <3>4. stranded' = stranded \ G /\ unindexed' \subseteq Rows \ G
      BY <3>1 DEF Prune
    <3> QED BY <3>1, <3>2, <3>3, <3>4, PostingsTyped DEF TypeInv, CausesOK
  <2> QED BY <2>1, <2>2
<1>4. DictsOK'
  BY DEF dropCache, remove, clearMessages, dictVars, TypeInv, DictsOK, Dicts
<1>5. BoundsOK' /\ UNCHANGED <<ui, pass, worker, asking>>
  <2>1. Upset /\ UNCHANGED <<ui, pass, worker, asking>>
    BY Zenon DEF dropCache, remove, clearMessages
  <2> QED BY <2>1 DEF Upset, TypeInv, BoundsOK
<1> QED BY <1>2, <1>3, <1>4, <1>5 DEF TypeInv, UiOK, PassOK, AskOK

-----------------------------------------------------------------------------
(* Types: the passes.                                                      *)

\* One pass moves on.
LEMMA PassMoves ==
    ASSUME PassOK, NEW w \in Passes, NEW p \in Pass, pass' = [pass EXCEPT ![w] = p],
           p.at \in {"off", "start", "loading", "sample", "train"} => p.cursor = 0,
           p.at = "loading" => p.old \in Dicts
    PROVE  PassOK'
BY DEF PassOK

LEMMA StartType ==
    ASSUME TypeInv, NEW w \in Passes, startCompressionWorker(w)
    PROVE  PassOK' /\ worker' = w
<1>1. PICK p : p = [pass[w] EXCEPT !.at = "start"]
  OBVIOUS
<1>2. p \in Pass /\ p.at = "start" /\ p.cursor = 0
  BY <1>1 DEF startCompressionWorker, TypeInv, PassOK, Pass
<1>3. pass' = [pass EXCEPT ![w] = p]
  BY <1>1 DEF startCompressionWorker
<1> QED BY <1>2, <1>3, PassMoves DEF TypeInv, startCompressionWorker

\* onRecompressRequested, its answer, the queue of accounts, and the end of a
\* pass as the UI thread hears of it.
LEMMA AskType ==
    ASSUME TypeInv, \/ onRecompressRequested \/ answer \/ dequeueNextRecompress
                    \/ \E w \in Passes : finished(w)
    PROVE  TypeInv'
<1>1. UNCHANGED <<tableVars, dictVars, ui, causeVars, boundVars>>
  BY DEF onRecompressRequested, answer, dequeueNextRecompress, finished
<1>2. PassOK' /\ AskOK'
  <2>1. CASE onRecompressRequested
    BY <2>1 DEF onRecompressRequested, TypeInv, PassOK, AskOK
  <2>2. CASE answer \/ dequeueNextRecompress
    <3>1. CASE \E w \in Passes : startCompressionWorker(w)
      BY <2>2, <3>1, StartType DEF answer, dequeueNextRecompress, TypeInv, AskOK
    <3>2. CASE UNCHANGED <<pass, worker>>
      BY <2>2, <3>2 DEF answer, dequeueNextRecompress, TypeInv, PassOK, AskOK
    <3> QED BY <2>2, <3>1, <3>2 DEF answer, dequeueNextRecompress
  <2>3. CASE \E w \in Passes : finished(w)
    <3>1. PICK w \in Passes : finished(w)
      BY <2>3
    <3>2. PICK p : p = [pass[w] EXCEPT !.at = "gone"]
      OBVIOUS
    <3>3. p \in Pass /\ p.at = "gone" /\ pass' = [pass EXCEPT ![w] = p]
      BY <3>1, <3>2 DEF finished, TypeInv, PassOK, Pass
    <3>4. PassOK'
      BY <3>3, PassMoves DEF TypeInv
    <3> QED BY <3>1, <3>4 DEF finished, TypeInv, AskOK
  <2> QED BY <2>1, <2>2, <2>3
<1> QED BY <1>1, <1>2 DEF TypeInv, tableVars, dictVars, causeVars, boundVars, RowsOK, Rows,
           DictsOK, UiOK, CausesOK, BoundsOK

\* What a pass selects: the first bodies ahead of its cursor.
LEMMA ChunkIsPrefix ==
    ASSUME TypeInv, NEW w \in Passes
    PROVE  LET C == NextChunk(w)
               A == Ahead(w)
           IN  /\ C \subseteq A /\ A \subseteq Msgs
               /\ C = {} => A = {}
               /\ C # {} => /\ Advanced(w, C) \in C
                            /\ \A m \in A : m > Advanced(w, C) \/ m \in C
<1> DEFINE C       == NextChunk(w)
           A       == Ahead(w)
           UpTo(m) == {n \in A : n <= m}
<1>1. /\ A \subseteq Msgs /\ A \subseteq Nat /\ C \subseteq A /\ C \subseteq Nat
      /\ IsFiniteSet(A) /\ IsFiniteSet(C)
      /\ kBackfillChunkSize \in Nat /\ kBackfillChunkSize > 0
  <2>1. A \in SUBSET Bodies /\ C \in SUBSET A /\ Bodies \subseteq Msgs
    BY DEF Ahead, NextChunk, Bodies, TypeInv, RowsOK
  <2>2. IsFiniteSet(A)
    BY <2>1, RowsFinite, FS_Subset DEF TypeInv
  <2>3. IsFiniteSet(C)
    BY <2>1, <2>2, FS_Subset
  <2>4. A \subseteq Msgs /\ C \subseteq A
    BY <2>1
  <2> HIDE DEF A, C
  <2>5. A \subseteq Nat /\ C \subseteq Nat
    BY <2>4, MsgsAreNumbers
  <2>6. kBackfillChunkSize \in Nat /\ kBackfillChunkSize > 0
    BY CacheAssumption DEF CacheAssumption
  <2> QED BY <2>2, <2>3, <2>4, <2>5, <2>6
<1>2. \A m \in A : m \in C <=> Cardinality(UpTo(m)) <= kBackfillChunkSize
  BY DEF NextChunk
<1>3. \A m \in A : UpTo(m) \in SUBSET A /\ IsFiniteSet(UpTo(m)) /\ Cardinality(UpTo(m)) \in Nat
  <2> TAKE m \in A
  <2>1. UpTo(m) \in SUBSET A
    OBVIOUS
  <2> QED BY <1>1, <2>1, FS_Subset, FS_CardinalityType
<1> HIDE DEF A, C
<1>4. A # {} => C # {}
  <2> SUFFICES ASSUME A # {}
               PROVE  C # {}
    OBVIOUS
  <2>1. PICK p \in A : \A q \in A : p <= q
    BY <1>1, Least
  <2>2. UpTo(p) = {p}
    <3>1. \A q \in A : q \in Nat /\ p \in Nat
      BY <1>1
    <3>2. \A q \in A : q <= p <=> q = p
      BY <2>1, <3>1
    <3> QED BY <3>2
  <2>3. Cardinality(UpTo(p)) = 1
    BY <2>2, FS_Singleton
  <2> QED BY <1>1, <1>2, <2>3
<1>5. ASSUME C # {}
      PROVE  /\ Advanced(w, C) \in C
             /\ \A m \in A : m > Advanced(w, C) \/ m \in C
  <2>1. \E p \in C : \A q \in C : q <= p
    BY <1>1, <1>5, Greatest
  <2>2. Advanced(w, C) \in C
    BY <2>1 DEF Advanced
  <2>3. ASSUME NEW m \in A, ~ (m > Advanced(w, C))
        PROVE  m \in C
    <3>1. PICK a \in C : a = Advanced(w, C)
      BY <2>2
    <3>2. a \in A /\ UpTo(m) \in SUBSET UpTo(a)
      <4>1. a \in A /\ a \in Nat /\ m \in Nat /\ \A n \in A : n \in Nat
        BY <1>1, <3>1
      <4>2. m <= a
        BY <2>3, <3>1, <4>1
      <4>3. \A n \in A : n <= m => n <= a
        BY <4>1, <4>2
      <4> QED BY <4>1, <4>3
    <3>3. Cardinality(UpTo(m)) <= Cardinality(UpTo(a))
      BY <1>3, <3>2, FS_Subset
    <3>4. Cardinality(UpTo(a)) <= kBackfillChunkSize
      BY <1>2, <3>2
    <3>5. Cardinality(UpTo(m)) \in Nat /\ Cardinality(UpTo(a)) \in Nat
      BY <1>3, <3>2
    <3> QED BY <1>1, <1>2, <3>3, <3>4, <3>5
  <2> QED BY <2>2, <2>3
<1> QED BY <1>1, <1>4, <1>5 DEF A, C

LEMMA WorkType ==
    ASSUME TypeInv, NEW w \in Passes, doWork(w)
    PROVE  TypeInv'
<1>1. pass[w] \in Pass /\ PassOK
  BY DEF TypeInv, PassOK
<1>2. PassOK'
  <2>1. CASE Snapshot(w)
    <3>1. PICK p : /\ pass' = [pass EXCEPT ![w] = p]
                   /\ \/ p = [pass[w] EXCEPT !.at = "sample", !.old = dictCache] /\ dictCache # None
                      \/ p = [pass[w] EXCEPT !.at = "loading", !.old = stored]
      BY <2>1 DEF Snapshot, snapshot
    <3>2. pass[w].cursor = 0
      BY <2>1, <1>1 DEF Snapshot, PassOK
    <3>3. p \in Pass /\ p.cursor = 0 /\ (p.at = "loading" => p.old \in Dicts)
      BY <1>1, <3>1, <3>2 DEF TypeInv, DictsOK, Pass
    <3> QED BY <1>1, <3>1, <3>3, PassMoves
  <2>2. CASE SnapshotLoaded(w)
    <3>1. PICK p : p = [pass[w] EXCEPT !.at = "sample", !.old = pass[w].old]
      OBVIOUS
    <3>2. p \in Pass /\ p.at = "sample" /\ p.cursor = 0 /\ pass' = [pass EXCEPT ![w] = p]
      BY <1>1, <2>2, <3>1 DEF SnapshotLoaded, snapshot, PassOK, Pass
    <3> QED BY <1>1, <3>2, PassMoves
  <2>3. CASE Sample(w)
    <3>1. PICK to, p : to \in {"train", "ended"} /\ p = [pass[w] EXCEPT !.at = to] /\ pass' = [pass EXCEPT ![w] = p]
      BY <2>3 DEF Sample
    <3>2. p \in Pass /\ p.at # "loading" /\ p.cursor = 0
      BY <1>1, <2>3, <3>1 DEF Sample, PassOK, Pass
    <3> QED BY <1>1, <3>1, <3>2, PassMoves
  <2>4. CASE SaveDictionary(w) \/ SaveDictionaryFails(w) \/ RefreshDictionary(w)
    <3> DEFINE Goes(at) == [pass[w] EXCEPT !.at = at]
    <3>1. pass' = [pass EXCEPT ![w] = Goes("saved")] \/ pass' = [pass EXCEPT ![w] = Goes("walk")]
      <4>1. CASE SaveDictionary(w)
        BY <4>1 DEF SaveDictionary
      <4>2. CASE SaveDictionaryFails(w)
        BY <4>2 DEF SaveDictionaryFails
      <4>3. CASE RefreshDictionary(w)
        BY <4>3 DEF RefreshDictionary
      <4> QED BY <2>4, <4>1, <4>2, <4>3
    <3>2. /\ Goes("saved") \in Pass /\ Goes("saved").at = "saved"
          /\ Goes("walk") \in Pass /\ Goes("walk").at = "walk"
      BY <1>1 DEF Pass
    <3> HIDE DEF Goes
    <3> QED BY <1>1, <3>1, <3>2, PassMoves
  <2>5. CASE SelectChunk(w)
    <3>1. CASE NextChunk(w) = {}
      <4>1. PICK p : p = [pass[w] EXCEPT !.at = "ended"] /\ pass' = [pass EXCEPT ![w] = p]
        BY <2>5, <3>1 DEF SelectChunk
      <4>2. p \in Pass /\ p.at = "ended"
        BY <1>1, <4>1 DEF Pass
      <4> QED BY <1>1, <4>1, <4>2, PassMoves
    <3>2. CASE NextChunk(w) # {}
      <4>1. PICK C, a : C = NextChunk(w) /\ a = Advanced(w, C)
        OBVIOUS
      <4>2. C \subseteq Msgs /\ a \in Nat
        BY <3>2, <4>1, ChunkIsPrefix, MsgsAreNumbers
      <4>3. PICK p : /\ p = [pass[w] EXCEPT !.at = "chunk", !.chunk = C, !.cursor = a]
                     /\ pass' = [pass EXCEPT ![w] = p]
        BY <2>5, <3>2, <4>1 DEF SelectChunk
      <4>4. p \in Pass /\ p.at = "chunk"
        BY <1>1, <4>2, <4>3 DEF Pass
      <4> QED BY <1>1, <4>3, <4>4, PassMoves
    <3> QED BY <3>1, <3>2
  <2>6. CASE RewriteChunk(w) \/ ChunkFails(w) \/ WalkFails(w)
    <3> DEFINE Ends(at) == [pass[w] EXCEPT !.at = at, !.chunk = {}]
    <3>1. pass' = [pass EXCEPT ![w] = Ends("walk")] \/ pass' = [pass EXCEPT ![w] = Ends("ended")]
      <4>1. CASE RewriteChunk(w)
        BY <4>1 DEF RewriteChunk, ChunkDone
      <4>2. CASE ChunkFails(w)
        BY <4>2 DEF ChunkFails, ChunkDone
      <4>3. CASE WalkFails(w)
        BY <4>3 DEF WalkFails
      <4> QED BY <2>6, <4>1, <4>2, <4>3
    <3>2. /\ Ends("walk") \in Pass /\ Ends("walk").at = "walk"
          /\ Ends("ended") \in Pass /\ Ends("ended").at = "ended"
      BY <1>1 DEF Pass
    <3> HIDE DEF Ends
    <3> QED BY <1>1, <3>1, <3>2, PassMoves
  <2> QED BY <2>1, <2>2, <2>3, <2>4, <2>5, <2>6 DEF doWork
<1>3. UNCHANGED <<index, ui, worker, asking, unindexed, ghosts>>
  BY DEF doWork, Snapshot, SnapshotLoaded, Sample, SaveDictionary, SaveDictionaryFails,
     RefreshDictionary, SelectChunk, RewriteChunk, ChunkFails, WalkFails, tableVars, causeVars
<1>4. RowsOK' /\ Rows' = Rows
  <2>1. CASE RewriteChunk(w)
    <3> DEFINE D == {m \in pass[w].chunk : HasBody(m)}
    <3>1. rows' = [m \in Rows |-> IF m \in D THEN Rewritten(w, m) ELSE rows[m]]
      BY <2>1 DEF RewriteChunk
    <3>2. \A m \in Rows : Rewritten(w, m) \in Row /\ Rewritten(w, m).rowid = rows[m].rowid
      <4> TAKE m \in Rows
      <4>1. PICK r \in Row : r = rows[m]
        BY DEF TypeInv, RowsOK
      <4>2. [r EXCEPT !.dict = w, !.flag = 1] \in Row /\ [r EXCEPT !.flag = 2] \in Row
        <5>1. w \in Dicts \cup {None} /\ 1 \in 0 .. 2 /\ 2 \in 0 .. 2
          BY DEF Dicts
        <5>2. \A x \in Dicts \cup {None}, f \in 0 .. 2 : [r EXCEPT !.dict = x, !.flag = f] \in Row
          BY DEF Row
        <5>3. \A f \in 0 .. 2 : [r EXCEPT !.flag = f] \in Row
          BY DEF Row
        <5> QED BY <5>1, <5>2, <5>3
      <4>3. /\ [r EXCEPT !.dict = w, !.flag = 1].rowid = r.rowid
            /\ [r EXCEPT !.flag = 2].rowid = r.rowid
        BY DEF Row
      <4> QED BY <4>1, <4>2, <4>3 DEF Rewritten
    <3> HIDE DEF D
    <3>3. Rows' = Rows
      BY <3>1 DEF Rows
    <3>4. \A m \in Rows : rows'[m] \in Row /\ rows'[m].rowid = rows[m].rowid
      BY <3>1, <3>2 DEF TypeInv, RowsOK
    <3> QED BY <3>1, <3>3, <3>4 DEF TypeInv, RowsOK
  <2>2. CASE rows' = rows
    BY <2>2 DEF TypeInv, RowsOK, Rows
  <2> QED BY <2>1, <2>2 DEF doWork, Snapshot, SnapshotLoaded, Sample, SaveDictionary,
       SaveDictionaryFails, RefreshDictionary, SelectChunk, ChunkFails, WalkFails, tableVars
<1>5. DictsOK'
  <2>1. CASE SnapshotLoaded(w)
    BY <1>1, <2>1 DEF SnapshotLoaded, dictLoaded, TypeInv, PassOK, DictsOK
  <2>2. CASE SaveDictionary(w) \/ SaveDictionaryFails(w) \/ RefreshDictionary(w)
    BY <2>2 DEF SaveDictionary, SaveDictionaryFails, RefreshDictionary, refreshed, TypeInv, DictsOK, Dicts
  <2>3. CASE UNCHANGED dictVars
    BY <2>3 DEF dictVars, TypeInv, DictsOK
  <2> QED BY <2>1, <2>2, <2>3 DEF doWork, Snapshot, Sample, SelectChunk, RewriteChunk, ChunkFails, WalkFails
<1>6. stranded' \subseteq Rows
  <2>1. stranded \subseteq Rows /\ Bodies \subseteq Rows
    BY DEF TypeInv, CausesOK, Bodies
  <2> QED BY <2>1 DEF doWork, Snapshot, SnapshotLoaded, Sample, SaveDictionary,
       SaveDictionaryFails, RefreshDictionary, SelectChunk, RewriteChunk, ChunkFails, WalkFails,
       causeVars, HasBody
<1>7. BoundsOK'
  BY DEF doWork, Snapshot, SnapshotLoaded, Sample, SaveDictionary, SaveDictionaryFails,
     RefreshDictionary, SelectChunk, RewriteChunk, ChunkFails, WalkFails, boundVars, Upset,
     TypeInv, BoundsOK
<1> QED BY <1>2, <1>3, <1>4, <1>5, <1>6, <1>7 DEF TypeInv, UiOK, AskOK, CausesOK

-----------------------------------------------------------------------------
(* Types: the start, a crash, and the theorem.                             *)

\* The first rows are numbered in the order of their ids.
LEMMA InitRows ==
    ASSUME Init
    PROVE  RowsOK /\ \A m \in Rows : HasBody(m) /\ rows[m].dict = stored
<1>1. PICK R \in SUBSET Msgs :
         rows = [m \in R |-> [rowid |-> Cardinality({n \in R : n <= m}),
                              dict |-> Bundled, flag |-> 1]]
  BY DEF Init
<1> DEFINE UpTo(m) == {n \in R : n <= m}
<1>2. IsFiniteSet(R) /\ \A m \in R : m \in Nat
  BY CacheAssumption, FS_Subset, MsgsAreNumbers DEF CacheAssumption
<1>3. Rows = R /\ \A m \in R : /\ rows[m].rowid = Cardinality(UpTo(m))
                               /\ rows[m].dict = Bundled
  BY <1>1 DEF Rows
<1>4. ASSUME NEW m \in R
      PROVE  IsFiniteSet(UpTo(m)) /\ Cardinality(UpTo(m)) \in Nat \ {0}
  <2>1. UpTo(m) \in SUBSET R /\ m \in UpTo(m)
    BY <1>2
  <2>2. IsFiniteSet(UpTo(m))
    BY <1>2, <2>1, FS_Subset
  <2> HIDE DEF UpTo
  <2> QED BY <2>1, <2>2, FS_CardinalityType, FS_EmptySet
<1>5. ASSUME NEW m \in R, NEW n \in R, m < n
      PROVE  Cardinality(UpTo(m)) # Cardinality(UpTo(n))
  <2>1. UpTo(m) \in SUBSET UpTo(n) /\ n \in UpTo(n) /\ n \notin UpTo(m)
    BY <1>2, <1>5
  <2> HIDE DEF UpTo
  <2> QED BY <1>4, <2>1, FS_Subset
<1>6. \A m, n \in R : Cardinality(UpTo(m)) = Cardinality(UpTo(n)) => m = n
  <2> SUFFICES ASSUME NEW m \in R, NEW n \in R, m # n
               PROVE  Cardinality(UpTo(m)) # Cardinality(UpTo(n))
    OBVIOUS
  <2>1. m < n \/ n < m
    BY <1>2
  <2> HIDE DEF UpTo
  <2> QED BY <1>5, <2>1
<1>7. rows \in [R -> Row]
  <2> HIDE DEF UpTo
  <2>1. \A m \in R : [rowid |-> Cardinality(UpTo(m)), dict |-> Bundled, flag |-> 1] \in Row
    BY <1>4 DEF Row, Dicts
  <2>2. rows = [m \in R |-> [rowid |-> Cardinality(UpTo(m)), dict |-> Bundled, flag |-> 1]]
    BY <1>1 DEF UpTo
  <2> QED BY <2>1, <2>2
<1> HIDE DEF UpTo
<1>8. RowsOK
  BY <1>3, <1>6, <1>7 DEF RowsOK
<1>9. stored = Bundled /\ Bundled # None
  BY DEF Init, Bundled, None
<1> QED BY <1>3, <1>8, <1>9 DEF HasBody

LEMMA TypeInit == Init => TypeInv
<1> SUFFICES ASSUME Init
             PROVE  TypeInv
  OBVIOUS
<1>1. RowsOK
  BY InitRows
<1>2. CausesOK
  BY <1>1, PostingsTyped DEF Init, CausesOK
<1>3. PassOK
  BY DEF Init, PassOK, NewPass, Pass
<1>4. DictsOK /\ UiOK /\ AskOK /\ BoundsOK
  BY DEF Init, DictsOK, Dicts, UiOK, UI, Idle, AskOK, BoundsOK
<1> QED BY <1>1, <1>2, <1>3, <1>4 DEF TypeInv

\* What every crash does.
LEMMA RestartType ==
    ASSUME TypeInv, Restarted
    PROVE  /\ PassOK' /\ DictsOK' /\ UiOK' /\ AskOK' /\ BoundsOK'
           /\ \A w \in Passes : pass'[w].at \in {"off", "gone"}
<1>1. pass' \in [Passes -> Pass] /\ \A w \in Passes : pass'[w].at \in {"off", "gone"} /\ pass'[w].cursor = 0
  BY DEF Restarted, NewPass, Pass
<1>2. PassOK'
  BY <1>1 DEF PassOK
<1>3. DictsOK' /\ AskOK'
  BY DEF Restarted, TypeInv, DictsOK, AskOK
<1>4. UiOK' /\ BoundsOK'
  BY DEF Restarted, Upset, Idle, UI, UiOK, TypeInv, BoundsOK
<1> QED BY <1>1, <1>2, <1>3, <1>4

LEMMA CrashType ==
    ASSUME TypeInv, Crash \/ \E R \in SUBSET Msgs : CrashInPrune(R)
    PROVE  TypeInv'
<1>1. Restarted
  BY DEF Crash, CrashInPrune
<1>2. CASE Crash
  <2>1. RowsOK' /\ Rows' = Rows
    BY <1>2 DEF Crash, tableVars, TypeInv, RowsOK, Rows
  <2>2. CausesOK'
    BY <1>2, <2>1 DEF Crash, Awaited, tableVars, TypeInv, CausesOK
  <2> QED BY <1>1, <2>1, <2>2, RestartType DEF TypeInv
<1>3. CASE \E R \in SUBSET Msgs : CrashInPrune(R)
  <2>1. PICK R : R \subseteq Rows /\ CrashInPrune(R)
    BY <1>3 DEF CrashInPrune
  <2>2. RowsOK' /\ Rows' = Rows \ R
    BY <2>1, RowsRemain DEF CrashInPrune, TypeInv
  <2>3. index' \subseteq index \cup {Posting(m) : m \in Rows}
    BY <2>1 DEF CrashInPrune, Rebuilt
  <2>4. ghosts' \subseteq ghosts \cup {Posting(m) : m \in Rows}
    BY <2>1 DEF CrashInPrune
  <2>5. stranded' \subseteq Rows' /\ unindexed' \subseteq Rows'
    BY <2>1, <2>2 DEF CrashInPrune, Awaited, TypeInv, CausesOK
  <2>6. CausesOK'
    BY <2>3, <2>4, <2>5, PostingsTyped DEF TypeInv, CausesOK
  <2> QED BY <1>1, <2>2, <2>6, RestartType DEF TypeInv
<1> QED BY <1>2, <1>3

LEMMA TypeStep == TypeInv /\ [Next]_vars => TypeInv'
<1> SUFFICES ASSUME TypeInv, [Next]_vars
             PROVE  TypeInv'
  OBVIOUS
<1>1. CASE UNCHANGED vars
  BY <1>1 DEF vars, tableVars, dictVars, causeVars, boundVars, TypeInv, RowsOK, Rows, DictsOK,
     UiOK, PassOK, AskOK, CausesOK, BoundsOK
<1>2. CASE UserInterface
  BY <1>2, UiType, UpsertType, RemovalType, AskType DEF UserInterface
<1>3. CASE \E w \in Passes : doWork(w)
  BY <1>3, WorkType
<1>4. CASE Crash \/ \E R \in SUBSET Msgs : CrashInPrune(R)
  BY <1>4, CrashType
<1> QED BY <1>1, <1>2, <1>3, <1>4 DEF Next

\* Every variable keeps its type; no two rows share a rowid, and a pass that has
\* not begun to walk has its cursor at the start.
THEOREM TypeInvAlways == Spec => []TypeInv
BY TypeInit, TypeStep, PTL DEF Spec

\* Type correctness of MessageCache.
THEOREM TypeOKAlways == Spec => []TypeOK
BY TypeInvAlways, TypeInvImpliesTypeOK, PTL

-----------------------------------------------------------------------------
(* The dictionaries.                                                       *)

LEMMA DictionariesStep == TypeInv /\ DictionariesAgree /\ [Next]_vars => DictionariesAgree'
<1> SUFFICES ASSUME TypeInv, DictionariesAgree, [Next]_vars
             PROVE  DictionariesAgree'
  OBVIOUS
<1> DEFINE Rewriting(w) == pass[w].at \in {"saved", "walk", "chunk"}
           InMemory     == dictCache \in {None, stored} \/ overtaken \/ \E w \in Passes : pass[w].at = "saved"
           OnDisk       == \A w \in Passes : Rewriting(w) => stored = w \/ w \in superseded
<1>1. /\ InMemory /\ OnDisk
      /\ DictionariesAgree' <=> InMemory' /\ OnDisk'
      /\ pass \in [Passes -> Pass]
  BY DEF DictionariesAgree, TypeInv, PassOK
<1>2. CASE UNCHANGED <<dictVars, pass>>
  BY <1>1, <1>2 DEF dictVars
<1>3. ASSUME NEW d, dictLoaded(d), \A w \in Passes : Rewriting(w)' => Rewriting(w)
      PROVE  DictionariesAgree'
  BY <1>1, <1>3 DEF dictLoaded
<1>4. CASE dropCache
  BY <1>1, <1>4 DEF dropCache, Running
<1>5. CASE answer \/ dequeueNextRecompress \/ \E w \in Passes : finished(w)
  <2>1. UNCHANGED dictVars
    BY <1>5 DEF answer, dequeueNextRecompress, finished
  <2>2. \A w \in Passes : (pass'[w].at = "saved" <=> pass[w].at = "saved") /\ (Rewriting(w)' <=> Rewriting(w))
    BY <1>1, <1>5 DEF answer, dequeueNextRecompress, finished, startCompressionWorker, Pass
  <2> QED BY <1>1, <2>1, <2>2 DEF dictVars
<1>6. ASSUME NEW w \in Passes, doWork(w)
      PROVE  DictionariesAgree'
  <2>1. CASE Snapshot(w) \/ Sample(w)
    <3>1. \A v \in Passes : (pass'[v].at = "saved" <=> pass[v].at = "saved") /\ (Rewriting(v)' <=> Rewriting(v))
      BY <1>1, <2>1 DEF Snapshot, Sample, snapshot, Pass
    <3>2. UNCHANGED dictVars
      BY <2>1 DEF Snapshot, Sample
    <3> QED BY <1>1, <3>1, <3>2 DEF dictVars
  <2>2. CASE SnapshotLoaded(w)
    <3>1. \A v \in Passes : Rewriting(v)' => Rewriting(v)
      BY <1>1, <2>2 DEF SnapshotLoaded, snapshot, Pass
    <3> QED BY <2>2, <3>1, <1>3 DEF SnapshotLoaded
  <2>3. CASE SaveDictionary(w)
    BY <1>1, <2>3 DEF SaveDictionary, Running, Pass
  <2>4. CASE SaveDictionaryFails(w)
    BY <1>1, <2>4 DEF SaveDictionaryFails, Pass
  <2>5. CASE RefreshDictionary(w)
    BY <1>1, <2>5 DEF RefreshDictionary, refreshed, Pass
  <2>6. CASE SelectChunk(w) \/ RewriteChunk(w) \/ ChunkFails(w) \/ WalkFails(w)
    <3>1. \A v \in Passes : (pass'[v].at = "saved" <=> pass[v].at = "saved") /\ (Rewriting(v)' => Rewriting(v))
      BY <1>1, <2>6 DEF SelectChunk, RewriteChunk, ChunkFails, WalkFails, ChunkDone, Pass
    <3>2. UNCHANGED dictVars
      BY <2>6 DEF SelectChunk, RewriteChunk, ChunkFails, WalkFails
    <3> QED BY <1>1, <3>1, <3>2 DEF dictVars
  <2> QED BY <1>6, <2>1, <2>2, <2>3, <2>4, <2>5, <2>6 DEF doWork
<1>7. CASE Crash \/ \E R \in SUBSET Msgs : CrashInPrune(R)
  <2>1. dictCache' = None /\ \A w \in Passes : pass'[w].at \in {"off", "gone"}
    BY <1>7, RestartType DEF Crash, CrashInPrune, Restarted
  <2> QED BY <1>1, <2>1
<1>8. CASE UserInterface
  <2>1. CASE dictForInsert
    BY <1>3, <2>1 DEF dictForInsert
  <2>2. CASE \/ dictForRead \/ upsertCommit \/ upsertFails \/ onRecompressRequested
             \/ \E m \in Msgs, full \in BOOLEAN : upsertBegin(m, full)
             \/ \E m \in Msgs : remove(m)
             \/ \E R \in SUBSET Msgs : clearMessages(R)
    BY <1>2, <2>2 DEF dictForRead, upsertCommit, upsertFails, onRecompressRequested, upsertBegin,
       remove, clearMessages
  <2> QED BY <1>4, <1>5, <1>8, <2>1, <2>2 DEF UserInterface
<1> QED BY <1>2, <1>6, <1>7, <1>8 DEF Next, vars

\* The dictionary in memory is the one on disk, but for the named races, and a
\* pass rewrites with the one on disk unless its save failed or another came
\* after it.
THEOREM DictionariesAgreeAlways == Spec => []DictionariesAgree
<1>1. Init => DictionariesAgree
  BY DEF Init, DictionariesAgree, NewPass
<1> QED BY <1>1, DictionariesStep, TypeInvAlways, PTL DEF Spec

-----------------------------------------------------------------------------
(* The full-text index.                                                    *)

\* A pass rewrites bodies; it neither brings one nor moves a row.
LEMMA RewriteKeeps ==
    ASSUME TypeInv, NEW w \in Passes, doWork(w)
    PROVE  /\ Rows' = Rows /\ \A m \in Rows : rows'[m].rowid = rows[m].rowid
           /\ \A m \in Rows : HasBody(m)' <=> HasBody(m)
<1>1. CASE RewriteChunk(w)
  <2> DEFINE C == {m \in pass[w].chunk : HasBody(m)}
  <2>1. rows' = [m \in Rows |-> IF m \in C THEN Rewritten(w, m) ELSE rows[m]]
    BY <1>1 DEF RewriteChunk
  <2>2. Rows' = Rows /\ \A m \in Rows : rows'[m] = IF m \in C THEN Rewritten(w, m) ELSE rows[m]
    BY <2>1 DEF Rows
  <2>3. w # None
    BY DEF Passes, None
  <2>4. ASSUME NEW m \in Rows
        PROVE  /\ Rewritten(w, m).rowid = rows[m].rowid
               /\ HasBody(m) => Rewritten(w, m).dict # None
    BY <2>3 DEF Rewritten, HasBody, TypeInv, RowsOK, Row
  <2> QED BY <2>2, <2>4 DEF HasBody
<1>2. CASE rows' = rows
  BY <1>2 DEF Rows, HasBody
<1> QED BY <1>1, <1>2 DEF doWork, Snapshot, SnapshotLoaded, Sample, SaveDictionary,
       SaveDictionaryFails, RefreshDictionary, SelectChunk, ChunkFails, WalkFails, tableVars

\* Steps that touch neither the table nor the index.
TablesStay ==
    /\ UNCHANGED <<index, unindexed, ghosts>>
    /\ Rows' = Rows /\ \A m \in Rows : rows'[m].rowid = rows[m].rowid
    /\ \A m \in Rows : HasBody(m)' <=> HasBody(m)

\* What a step does to the rows and the index.
LEMMA IndexCases ==
    ASSUME TypeInv, [Next]_vars
    PROVE  \/ TablesStay
           \/ upsertCommit
           \/ \E R \in SUBSET Rows : Leave(R)
           \/ \E R \in SUBSET Rows : Prune(R, Rebuilt(Rows \ R)) /\ ghosts' = {}
           \/ \E R \in SUBSET Rows : CrashInPrune(R)
<1>1. CASE UNCHANGED <<tableVars, unindexed, ghosts>>
  BY <1>1 DEF TablesStay, tableVars, Rows, HasBody
<1>2. CASE \E w \in Passes : doWork(w)
  <2>1. PICK w \in Passes : doWork(w)
    BY <1>2
  <2>2. UNCHANGED <<index, unindexed, ghosts>>
    BY <2>1 DEF doWork, Snapshot, SnapshotLoaded, Sample, SaveDictionary, SaveDictionaryFails,
       RefreshDictionary, SelectChunk, RewriteChunk, ChunkFails, WalkFails, tableVars, causeVars
  <2> QED BY <2>1, <2>2, RewriteKeeps DEF TablesStay
<1>3. CASE dropCache \/ \E m \in Msgs : remove(m)
  <2>1. \E R : R \in SUBSET Rows /\ Leave(R)
    BY <1>3, Zenon DEF dropCache, remove
  <2> QED BY <2>1
<1>4. CASE \E R \in SUBSET Msgs : clearMessages(R)
  BY <1>4 DEF clearMessages
<1>5. CASE \E R \in SUBSET Msgs : CrashInPrune(R)
  BY <1>5 DEF CrashInPrune
<1>6. CASE UserInterface
  <2>1. CASE \/ dictForRead \/ dictForInsert \/ upsertFails \/ onRecompressRequested
             \/ \E m \in Msgs, full \in BOOLEAN : upsertBegin(m, full)
             \/ answer \/ dequeueNextRecompress \/ \E w \in Passes : finished(w)
    BY <1>1, <2>1 DEF dictForRead, dictForInsert, upsertFails, onRecompressRequested, upsertBegin,
       answer, dequeueNextRecompress, finished, causeVars
  <2> QED BY <1>3, <1>4, <1>6, <2>1 DEF UserInterface
<1>7. CASE Crash
  BY <1>1, <1>7 DEF Crash
<1>8. CASE UNCHANGED vars
  BY <1>1, <1>8 DEF vars, causeVars
<1> QED BY <1>2, <1>5, <1>6, <1>7, <1>8 DEF Next

\* The row that stays keeps its posting; the postings of two rows differ.
LEMMA PostingsDiffer ==
    \A m, n \in Rows : Posting(m) = Posting(n) => m = n
BY DEF Posting

LEMMA FindableStep == TypeInv /\ BodiesFindable /\ [Next]_vars => BodiesFindable'
<1> SUFFICES ASSUME TypeInv, BodiesFindable, [Next]_vars,
                    NEW m \in Rows', HasBody(m)'
             PROVE  Posting(m)' \in index' \/ m \in unindexed'
  BY DEF BodiesFindable, Bodies
<1>1. HasBody(m) => Posting(m) \in index \/ m \in unindexed
  BY DEF BodiesFindable, Bodies, HasBody
<1>2. CASE TablesStay
  BY <1>1, <1>2 DEF TablesStay, Posting
<1>3. CASE upsertCommit
  <2>1. /\ Rows' = Rows \cup {ui.msg} /\ rows'[ui.msg] = Merged(ui.msg)
        /\ ui.msg \in Rows => rows'[ui.msg].rowid = rows[ui.msg].rowid
        /\ \A n \in Rows \ {ui.msg} : rows'[n] = rows[n]
    BY <1>3, UpsertRows
  <2>2. CASE m # ui.msg
    <3>1. m \in Rows /\ rows'[m] = rows[m]
      BY <2>1, <2>2
    <3>2. HasBody(m) /\ Posting(m)' = Posting(m)
      BY <3>1 DEF HasBody, Posting
    <3>3. Posting(m) \in index => Posting(m) \in index'
      BY <1>3, <2>2 DEF upsertCommit, Indexed, Posting
    <3> QED BY <1>1, <1>3, <2>2, <3>2, <3>3 DEF upsertCommit
  <2>3. CASE m = ui.msg /\ ui.full
    BY <1>3, <2>1, <2>3 DEF upsertCommit, Indexed, Posting
  <2>4. CASE m = ui.msg /\ ~ ui.full
    <3>1. m \in Rows /\ HasBody(m)
      BY <2>1, <2>4 DEF HasBody, Merged
    <3>2. Posting(m)' = Posting(m) /\ Posting(m)' = <<Merged(m).rowid, m>>
      BY <2>1, <2>4, <3>1 DEF Posting
    <3>3. index' = Indexed(m, Merged(m).rowid) /\ unindexed' = unindexed
      BY <1>3, <2>4 DEF upsertCommit
    <3>4. Posting(m) \in index => Posting(m) \in index'
      BY <3>2, <3>3 DEF Indexed
    <3> QED BY <1>1, <3>1, <3>2, <3>3, <3>4
  <2> QED BY <2>2, <2>3, <2>4
<1>4. ASSUME NEW R \in SUBSET Rows, Leave(R)
      PROVE  Posting(m)' \in index' \/ m \in unindexed'
  <2>1. Rows' = Rows \ R /\ \A n \in Rows \ R : rows'[n] = rows[n]
    BY <1>4, RowsRemain DEF Leave, TypeInv
  <2>2. m \in Rows \ R /\ HasBody(m) /\ Posting(m)' = Posting(m)
    BY <2>1 DEF HasBody, Posting
  <2>3. Posting(m) \notin {Posting(n) : n \in {k \in R : Decodes(k, dictCache)}}
    BY <2>2, PostingsDiffer
  <2> QED BY <1>1, <1>4, <2>2, <2>3 DEF Leave, Gone
<1>5. ASSUME NEW R \in SUBSET Rows, rows' = [n \in Rows \ R |-> rows[n]],
             unindexed' = {n \in Rows \ R : HasBody(n) /\ Posting(n) \notin index'}
      PROVE  Posting(m)' \in index' \/ m \in unindexed'
  <2>1. Rows' = Rows \ R /\ \A n \in Rows \ R : rows'[n] = rows[n]
    BY <1>5, RowsRemain DEF TypeInv
  <2>2. m \in Rows \ R /\ HasBody(m) /\ Posting(m)' = Posting(m)
    BY <2>1 DEF HasBody, Posting
  <2> QED BY <1>5, <2>2
<1>6. ASSUME NEW R \in SUBSET Rows, CrashInPrune(R)
      PROVE  Posting(m)' \in index' \/ m \in unindexed'
  <2>1. Rows' = Rows \ R /\ \A n \in Rows \ R : rows'[n] = rows[n]
    BY <1>6, RowsRemain DEF CrashInPrune, TypeInv
  <2>2. m \in Rows \ R /\ HasBody(m) /\ Posting(m)' = Posting(m)
    BY <2>1 DEF HasBody, Posting
  <2>3. CASE index' = index /\ unindexed' = unindexed \ R
    BY <1>1, <2>2, <2>3
  <2>4. CASE unindexed' = {n \in Rows \ R : HasBody(n) /\ Posting(n) \notin index'}
    BY <2>2, <2>4
  <2> QED BY <1>6, <2>3, <2>4 DEF CrashInPrune
<1>7. ASSUME NEW R \in SUBSET Rows, Prune(R, Rebuilt(Rows \ R))
      PROVE  Posting(m)' \in index' \/ m \in unindexed'
  BY <1>5, <1>7 DEF Prune
<1> QED BY <1>2, <1>3, <1>4, <1>6, <1>7, IndexCases

\* A search for what a stored body says finds its row, unless the body could not
\* be read when the index was last rebuilt.
THEOREM BodiesFindableAlways == Spec => []BodiesFindable
<1>1. Init => BodiesFindable
  BY DEF Init, BodiesFindable, Bodies
<1> QED BY <1>1, FindableStep, TypeInvAlways, PTL DEF Spec

LEMMA FalseHitsStep == TypeInv /\ NoFalseHits /\ [Next]_vars => NoFalseHits'
<1> SUFFICES ASSUME TypeInv, NoFalseHits, [Next]_vars, NEW p \in index', p \notin ghosts'
             PROVE  p[2] \in Rows' /\ Posting(p[2])' = p
  BY DEF NoFalseHits
<1>1. p \in index => p \in ghosts \/ (p[2] \in Rows /\ Posting(p[2]) = p)
  BY DEF NoFalseHits
<1>2. CASE TablesStay
  BY <1>1, <1>2 DEF TablesStay, Posting
<1>3. CASE upsertCommit
  <2>1. /\ Rows' = Rows \cup {ui.msg} /\ rows'[ui.msg] = Merged(ui.msg)
        /\ ui.msg \in Rows => rows'[ui.msg].rowid = rows[ui.msg].rowid
        /\ \A n \in Rows \ {ui.msg} : rows'[n] = rows[n]
    BY <1>3, UpsertRows
  <2>2. ghosts' = ghosts /\ index' \subseteq index \cup {<<Merged(ui.msg).rowid, ui.msg>>}
    BY <1>3 DEF upsertCommit, Indexed
  <2>3. CASE p \in index
    <3>1. p[2] \in Rows /\ Posting(p[2]) = p
      BY <1>1, <2>2, <2>3
    <3>2. p[2] \in Rows' /\ rows'[p[2]].rowid = rows[p[2]].rowid
      BY <2>1, <3>1
    <3> QED BY <3>1, <3>2 DEF Posting
  <2>4. CASE p = <<Merged(ui.msg).rowid, ui.msg>>
    BY <2>1, <2>4 DEF Posting
  <2> QED BY <2>2, <2>3, <2>4
<1>4. ASSUME NEW R \in SUBSET Rows, rows' = [m \in Rows \ R |-> rows[m]],
             NEW m \in Rows \ R, p = Posting(m)
      PROVE  p[2] \in Rows' /\ Posting(p[2])' = p
  <2>1. Rows' = Rows \ R /\ \A n \in Rows \ R : rows'[n] = rows[n]
    BY <1>4, RowsRemain DEF TypeInv
  <2>2. p[2] = m
    BY <1>4 DEF Posting
  <2>3. m \in Rows' /\ rows'[m] = rows[m]
    BY <2>1
  <2> QED BY <1>4, <2>2, <2>3 DEF Posting
<1>5. ASSUME NEW R \in SUBSET Rows, Leave(R)
      PROVE  p[2] \in Rows' /\ Posting(p[2])' = p
  <2>1. p \in index /\ p \notin ghosts
    BY <1>5 DEF Leave, Gone
  <2>2. p[2] \in Rows /\ Posting(p[2]) = p
    BY <1>1, <2>1
  <2>3. p[2] \notin R
    BY <1>5, <2>2 DEF Leave, Gone
  <2>4. PICK m \in Rows \ R : m = p[2] /\ p = Posting(m)
    BY <2>2, <2>3
  <2> QED BY <1>4, <1>5, <2>4 DEF Leave
<1>6. ASSUME NEW R \in SUBSET Rows, Prune(R, Rebuilt(Rows \ R))
      PROVE  p[2] \in Rows' /\ Posting(p[2])' = p
  <2>1. PICK m \in Rows \ R : p = Posting(m)
    BY <1>6 DEF Prune, Rebuilt
  <2> QED BY <1>4, <1>6, <2>1 DEF Prune
<1>7. ASSUME NEW R \in SUBSET Rows, CrashInPrune(R)
      PROVE  p[2] \in Rows' /\ Posting(p[2])' = p
  <2>1. rows' = [m \in Rows \ R |-> rows[m]]
    BY <1>7 DEF CrashInPrune
  <2>2. CASE index' = index /\ ghosts' = ghosts \cup {Posting(m) : m \in R}
    <3>1. p[2] \in Rows /\ Posting(p[2]) = p /\ p[2] \notin R
      BY <1>1, <2>2
    <3>2. PICK m \in Rows \ R : m = p[2] /\ p = Posting(m)
      BY <3>1
    <3> QED BY <1>4, <2>1, <3>2
  <2>3. CASE index' \subseteq Rebuilt(Rows \ R)
    <3>1. PICK m \in Rows \ R : p = Posting(m)
      BY <2>3 DEF Rebuilt
    <3> QED BY <1>4, <2>1, <3>1
  <2> QED BY <1>7, <2>2, <2>3 DEF CrashInPrune
<1> QED BY <1>2, <1>3, <1>5, <1>6, <1>7, IndexCases

\* A search does not bring up a row for what another message says, unless the
\* body of a removed row could not be read when it went.
THEOREM NoFalseHitsAlways == Spec => []NoFalseHits
<1>1. Init => NoFalseHits
  <2> SUFFICES ASSUME Init, NEW p \in index
               PROVE  p[2] \in Rows /\ Posting(p[2]) = p
    BY DEF NoFalseHits
  <2>1. PICK m \in Rows : p = Posting(m)
    BY DEF Init
  <2>2. p[2] = m
    BY <2>1 DEF Posting
  <2> QED BY <2>1, <2>2
<1> QED BY <1>1, FalseHitsStep, TypeInvAlways, PTL DEF Spec

-----------------------------------------------------------------------------
(* The bodies.                                                             *)

\* What BodiesReadable says of one body.
Readable(m) ==
    \/ rows[m].dict = stored \/ rows[m].flag = 2
    \/ \E w \in Passes : Awaits(w, m)
    \/ m \in stranded

\* A row that is left alone stays readable while the passes are.
LEMMA ReadableStays ==
    ASSUME NEW m, Readable(m), rows'[m] = rows[m], UNCHANGED <<stored, pass>>,
           m \in stranded => m \in stranded'
    PROVE  Readable(m)'
<1>1. \A w \in Passes : Awaits(w, m) => Awaits(w, m)'
  BY DEF Awaits
<1> QED BY <1>1 DEF Readable

LEMMA UpsertReadable ==
    ASSUME TypeInv, BodiesReadable, upsertCommit, NEW m \in Rows', HasBody(m)'
    PROVE  Readable(m)'
<1>1. HasBody(m) => Readable(m)
  BY DEF BodiesReadable, Bodies, Readable, HasBody
<1>2. /\ Rows' = Rows \cup {ui.msg} /\ rows'[ui.msg] = Merged(ui.msg)
      /\ \A n \in Rows \ {ui.msg} : rows'[n] = rows[n]
  BY UpsertRows
<1>3. UNCHANGED <<stored, pass>>
  BY DEF upsertCommit, dictVars
<1>4. CASE m = ui.msg /\ ui.full
  <2>1. rows'[m].dict = ui.dict
    BY <1>2, <1>4 DEF Merged
  <2>2. ui.dict = stored \/ m \in stranded'
    BY <1>4 DEF upsertCommit
  <2> QED BY <1>3, <2>1, <2>2 DEF Readable
<1>5. CASE m = ui.msg /\ ~ ui.full
  <2>1. m \in Rows /\ rows'[m] = rows[m]
    BY <1>2, <1>5 DEF HasBody, Merged
  <2>2. stranded' = stranded /\ HasBody(m)
    BY <1>5, <2>1 DEF upsertCommit, HasBody
  <2> QED BY <1>1, <1>3, <2>1, <2>2, ReadableStays
<1>6. CASE m # ui.msg
  <2>1. m \in Rows /\ rows'[m] = rows[m]
    BY <1>2, <1>6
  <2>2. HasBody(m) /\ (m \in stranded => m \in stranded')
    BY <1>6, <2>1 DEF upsertCommit, HasBody
  <2> QED BY <1>1, <1>3, <2>1, <2>2, ReadableStays
<1> QED BY <1>4, <1>5, <1>6

\* A pass comes to every body of its old dictionary, or leaves it stranded.
LEMMA WorkReadable ==
    ASSUME TypeInv, BodiesReadable, NEW w \in Passes, doWork(w), NEW m \in Rows, HasBody(m)'
    PROVE  Readable(m)'
<1>1. HasBody(m) /\ Readable(m) /\ m \in Bodies
  BY RewriteKeeps DEF BodiesReadable, Bodies, Readable
<1>2. pass \in [Passes -> Pass]
  BY DEF TypeInv, PassOK
<1>3. m \in Nat /\ m > 0
  BY MsgsAreNumbers DEF TypeInv, RowsOK
<1>4. ASSUME NEW v \in Passes, v # w, Awaits(v, m), rows'[m] = rows[m]
      PROVE  Readable(m)'
  <2>1. pass'[v] = pass[v]
    BY <1>2, <1>4 DEF doWork, Snapshot, SnapshotLoaded, snapshot, Sample, SaveDictionary,
       SaveDictionaryFails, RefreshDictionary, SelectChunk, RewriteChunk, ChunkFails, WalkFails, ChunkDone
  <2>2. Awaits(v, m)'
    BY <1>4, <2>1 DEF Awaits
  <2> QED BY <2>2 DEF Readable
<1>5. ASSUME rows'[m] = rows[m], stored' = stored, stranded \subseteq stranded',
             Awaits(w, m) => Readable(m)'
      PROVE  Readable(m)'
  BY <1>1, <1>4, <1>5 DEF Readable
<1>6. CASE Snapshot(w) \/ SnapshotLoaded(w) \/ Sample(w)
  <2>1. ~ Awaits(w, m)
    BY <1>6 DEF Snapshot, SnapshotLoaded, Sample, Awaits
  <2>2. UNCHANGED <<rows, stored, stranded>>
    BY <1>6 DEF Snapshot, SnapshotLoaded, dictLoaded, Sample, tableVars, dictVars, causeVars
  <2> QED BY <1>5, <2>1, <2>2
<1>7. CASE SaveDictionary(w)
  <2>1. rows' = rows /\ (rows[m].dict \notin {pass[w].old, w} => m \in stranded')
    BY <1>1, <1>7 DEF SaveDictionary, tableVars
  <2>2. pass[w].cursor = 0
    BY <1>7 DEF SaveDictionary, TypeInv, PassOK
  <2>3. pass'[w].at = "saved" /\ pass'[w].cursor = 0 /\ pass'[w].old = pass[w].old
    BY <1>2, <1>7, <2>2 DEF SaveDictionary, Pass
  <2>4. rows[m].dict \in {pass[w].old, w} => Awaits(w, m)'
    BY <1>3, <2>1, <2>3 DEF Awaits
  <2> QED BY <2>1, <2>4 DEF Readable
<1>8. CASE SaveDictionaryFails(w) \/ RefreshDictionary(w)
  <2>1. UNCHANGED <<rows, stored, stranded>>
    BY <1>8 DEF SaveDictionaryFails, RefreshDictionary, tableVars, causeVars
  <2>2. /\ pass'[w].at = "walk" /\ pass'[w].cursor = pass[w].cursor
        /\ pass'[w].old = pass[w].old /\ pass[w].at \in {"train", "saved"}
    BY <1>2, <1>8 DEF SaveDictionaryFails, RefreshDictionary, Pass
  <2>3. Awaits(w, m) => Awaits(w, m)'
    BY <2>1, <2>2 DEF Awaits
  <2> QED BY <1>5, <2>1, <2>3 DEF Readable
<1>9. CASE SelectChunk(w)
  <2>1. UNCHANGED <<rows, stored, stranded>>
    BY <1>9 DEF SelectChunk, tableVars, dictVars, causeVars
  <2>2. ASSUME Awaits(w, m)
        PROVE  Awaits(w, m)'
    <3>1. m \in Ahead(w)
      BY <1>1, <1>9, <2>2 DEF SelectChunk, Awaits, Ahead
    <3>2. PICK C, a : C = NextChunk(w) /\ a = Advanced(w, C)
      OBVIOUS
    <3>3. C # {} /\ (m > a \/ m \in C)
      BY <3>1, <3>2, ChunkIsPrefix
    <3>4. /\ pass'[w].at = "chunk" /\ pass'[w].chunk = C /\ pass'[w].cursor = a
          /\ pass'[w].old = pass[w].old
      BY <1>2, <1>9, <3>2, <3>3 DEF SelectChunk, Pass
    <3> QED BY <2>1, <2>2, <3>3, <3>4 DEF Awaits
  <2> QED BY <1>5, <2>1, <2>2 DEF Readable
<1>10. CASE RewriteChunk(w)
  <2> DEFINE C == {n \in pass[w].chunk : HasBody(n)}
  <2>1. /\ rows'[m] = IF m \in C THEN Rewritten(w, m) ELSE rows[m]
        /\ stored' = stored /\ stranded \subseteq stranded'
        /\ m \in C /\ rows[m].dict \in {pass[w].old, w} => stored = w \/ m \in stranded'
    BY <1>10 DEF RewriteChunk, dictVars
  <2>2. CASE m \in C
    <3>1. rows[m] \in Row
      BY DEF TypeInv, RowsOK
    <3>2. \/ rows[m].dict \in {pass[w].old, w} /\ rows'[m].dict = w
          \/ rows'[m].flag = 2
      BY <2>1, <2>2, <3>1 DEF Rewritten, Row
    <3> QED BY <2>1, <2>2, <3>2 DEF Readable
  <2>3. CASE m \notin C
    <3>1. m \notin pass[w].chunk /\ rows'[m] = rows[m]
      BY <1>1, <2>1, <2>3
    <3>2. /\ pass'[w].at = "walk" /\ pass'[w].cursor = pass[w].cursor
          /\ pass'[w].old = pass[w].old /\ pass[w].at = "chunk"
      BY <1>2, <1>10 DEF RewriteChunk, ChunkDone, Pass
    <3>3. Awaits(w, m) => Awaits(w, m)'
      BY <3>1, <3>2 DEF Awaits
    <3> QED BY <1>5, <2>1, <3>1, <3>3 DEF Readable
  <2> QED BY <2>2, <2>3
<1>11. CASE ChunkFails(w)
  <2>1. UNCHANGED <<rows, stored>> /\ stranded \subseteq stranded'
    BY <1>11 DEF ChunkFails, tableVars, dictVars
  <2>2. m \in pass[w].chunk => rows[m].dict = stored \/ m \in stranded'
    BY <1>1, <1>11 DEF ChunkFails
  <2>3. /\ pass'[w].at = "walk" /\ pass'[w].cursor = pass[w].cursor
        /\ pass'[w].old = pass[w].old /\ pass[w].at = "chunk"
    BY <1>2, <1>11 DEF ChunkFails, ChunkDone, Pass
  <2>4. Awaits(w, m) => Awaits(w, m)' \/ m \in pass[w].chunk
    BY <2>1, <2>3 DEF Awaits
  <2> QED BY <1>5, <2>1, <2>2, <2>4 DEF Readable
<1>12. CASE WalkFails(w)
  <2>1. UNCHANGED <<rows, stored>> /\ stranded \subseteq stranded'
    BY <1>12 DEF WalkFails, tableVars, dictVars
  <2>2. Awaits(w, m) => rows[m].dict = stored \/ m \in stranded'
    BY <1>1, <1>12 DEF WalkFails
  <2> QED BY <1>5, <2>1, <2>2 DEF Readable
<1> QED BY <1>6, <1>7, <1>8, <1>9, <1>10, <1>11, <1>12 DEF doWork

LEMMA ReadableStep == TypeInv /\ BodiesReadable /\ [Next]_vars => BodiesReadable'
<1> SUFFICES ASSUME TypeInv, BodiesReadable, [Next]_vars, NEW m \in Rows', HasBody(m)'
             PROVE  Readable(m)'
  BY DEF BodiesReadable, Bodies, Readable
<1>1. m \in Rows /\ HasBody(m) => Readable(m)
  BY DEF BodiesReadable, Bodies, Readable
<1>2. CASE UNCHANGED <<rows, stored, stranded, pass>>
  BY <1>1, <1>2, ReadableStays DEF Rows, HasBody
<1>3. CASE answer \/ dequeueNextRecompress \/ \E w \in Passes : finished(w)
  <2>1. UNCHANGED <<rows, stored, stranded>>
    BY <1>3 DEF answer, dequeueNextRecompress, finished, tableVars, dictVars, causeVars
  <2>2. \A w \in Passes : Awaits(w, m) => pass'[w] = pass[w]
    <3>1. pass \in [Passes -> Pass]
      BY DEF TypeInv, PassOK
    <3> QED BY <1>3, <3>1 DEF answer, dequeueNextRecompress, finished, startCompressionWorker, Awaits
  <2>3. \A w \in Passes : Awaits(w, m) => Awaits(w, m)'
    BY <2>1, <2>2 DEF Awaits
  <2> QED BY <1>1, <2>1, <2>3 DEF Rows, HasBody, Readable
<1>4. CASE \E n \in Msgs : remove(n)
  <2>1. PICK R \in SUBSET Rows : Leave(R)
    BY <1>4 DEF remove
  <2>2. UNCHANGED <<stored, pass>>
    BY <1>4 DEF remove, dictVars
  <2>3. Rows' = Rows \ R /\ \A n \in Rows \ R : rows'[n] = rows[n]
    BY <2>1, RowsRemain DEF Leave, TypeInv
  <2>4. m \in Rows \ R /\ rows'[m] = rows[m] /\ HasBody(m)
    BY <2>3 DEF HasBody
  <2> QED BY <1>1, <2>1, <2>2, <2>4, ReadableStays DEF Leave
<1>5. CASE dropCache
  <2>1. Rows' = {}
    BY <1>5, RowsRemain DEF dropCache, Leave, TypeInv
  <2> QED BY <2>1
<1>6. CASE \E R \in SUBSET Msgs : clearMessages(R)
  <2>1. PICK R \in SUBSET Rows : clearMessages(R)
    BY <1>6 DEF clearMessages
  <2>2. Rows' = Rows \ R /\ \A n \in Rows \ R : rows'[n] = rows[n]
    BY <2>1, RowsRemain DEF clearMessages, Prune, TypeInv
  <2>3. m \in Rows \ R /\ rows'[m] = rows[m] /\ HasBody(m)
    BY <2>2 DEF HasBody
  <2>4. UNCHANGED <<stored, pass>> /\ stranded' = stranded \ R
    BY <2>1 DEF clearMessages, Prune, dictVars
  <2> QED BY <1>1, <2>3, <2>4, ReadableStays
<1>7. CASE Crash \/ \E R \in SUBSET Msgs : CrashInPrune(R)
  <2>1. PICK R \in SUBSET Rows : /\ rows' = [n \in Rows \ R |-> rows[n]]
                                 /\ stranded' = (stranded \cup Awaited(Rows)) \ R
    <3>1. CASE Crash
      <4>1. rows' = [n \in Rows \ {} |-> rows[n]] /\ stranded' = (stranded \cup Awaited(Rows)) \ {}
        BY <3>1 DEF Crash, tableVars, Rows, TypeInv, RowsOK
      <4> QED BY <4>1
    <3>2. CASE \E R \in SUBSET Msgs : CrashInPrune(R)
      BY <3>2 DEF CrashInPrune
    <3> QED BY <1>7, <3>1, <3>2
  <2>2. Rows' = Rows \ R /\ \A n \in Rows \ R : rows'[n] = rows[n]
    BY <2>1, RowsRemain DEF TypeInv
  <2>3. m \in Rows \ R /\ rows'[m] = rows[m] /\ HasBody(m)
    BY <2>2 DEF HasBody
  <2>4. stored' = stored
    BY <1>7 DEF Crash, CrashInPrune, Restarted
  <2>5. (\E w \in Passes : Awaits(w, m)) => rows[m].dict = stored \/ m \in Awaited(Rows)
    BY <2>3 DEF Awaited
  <2> QED BY <1>1, <2>1, <2>3, <2>4, <2>5 DEF Readable
<1>8. CASE \E w \in Passes : doWork(w)
  <2>1. PICK w \in Passes : doWork(w)
    BY <1>8
  <2>2. m \in Rows
    BY <2>1, RewriteKeeps
  <2> QED BY <2>1, <2>2, WorkReadable
<1>9. CASE UserInterface
  <2>1. CASE \/ dictForRead \/ dictForInsert \/ upsertFails \/ onRecompressRequested
             \/ \E n \in Msgs, full \in BOOLEAN : upsertBegin(n, full)
    BY <1>2, <2>1 DEF dictForRead, dictForInsert, dictLoaded, upsertFails, onRecompressRequested,
       upsertBegin, tableVars, dictVars, causeVars
  <2> QED BY <1>3, <1>4, <1>5, <1>6, <1>9, <2>1, UpsertReadable DEF UserInterface
<1>10. CASE UNCHANGED vars
  BY <1>2, <1>10 DEF vars, tableVars, dictVars, causeVars
<1> QED BY <1>7, <1>8, <1>9, <1>10 DEF Next

\* A body can be decoded with the dictionary on disk, or is stamped for fetching
\* again, or awaited by a pass that holds its dictionary, or one of those a named
\* mishap stranded.
THEOREM BodiesReadableAlways == Spec => []BodiesReadable
<1>1. Init => BodiesReadable
  BY InitRows DEF BodiesReadable, Bodies
<1> QED BY <1>1, ReadableStep, TypeInvAlways, PTL DEF Spec

-----------------------------------------------------------------------------
(* MessageList: messages in order.                                         *)

LEMMA IdsInOrder ==
    /\ Ids \subseteq Nat \ {0} /\ Len(Mail) \in Nat
    /\ \A S \in SUBSET Ids : IsFiniteSet(S) /\ Cardinality(S) \in Nat
<1>1. Len(Mail) \in Nat /\ Ids = 1 .. Len(Mail)
  BY MessageListAssumption
<1>2. IsFiniteSet(1 .. Len(Mail))
  <2>1. 1 \in Int /\ Len(Mail) \in Int
    BY <1>1
  <2> QED BY ONLY <2>1, FS_Interval
<1>3. ASSUME NEW S \in SUBSET Ids
      PROVE  IsFiniteSet(S) /\ Cardinality(S) \in Nat
  BY <1>1, <1>2, FS_Subset, FS_CardinalityType
<1> QED BY <1>1, <1>3

LEMMA LatestExists ==
    ASSUME NEW S \in SUBSET Ids, S # {}
    PROVE  \E p \in S : \A q \in S : q <= p
<1>1. Len(Mail) \in Nat /\ \A m \in S : m \in Nat /\ m <= Len(Mail)
  BY MessageListAssumption
<1> DEFINE T == {Len(Mail) - m : m \in S}
<1>2. T \subseteq Nat /\ T # {}
  BY <1>1
<1>3. PICK t \in T : \A u \in T : t <= u
  BY <1>2, Least
<1>4. PICK p \in S : t = Len(Mail) - p
  BY <1>3
<1>5. \A q \in S : Len(Mail) - p <= Len(Mail) - q
  BY <1>3, <1>4
<1> QED BY <1>1, <1>4, <1>5

\* The ranks of the members of a set, counted from the latest.
LEMMA RanksOnto ==
    ASSUME NEW H \in SUBSET Ids
    PROVE  /\ \A m \in H : Rank(H, m) \in 1 .. Cardinality(H)
           /\ \A m, n \in H : Rank(H, m) = Rank(H, n) => m = n
           /\ \A i \in 1 .. Cardinality(H) : \E m \in H : Rank(H, m) = i
<1> DEFINE From(m) == {n \in H : n >= m}
           T == 1 .. Cardinality(H)
           f == [m \in H |-> Cardinality(From(m))]
<1>1. IsFiniteSet(H) /\ Cardinality(H) \in Nat /\ \A m \in H : m \in Nat
  BY IdsInOrder
<1>2. ASSUME NEW m \in H
      PROVE  IsFiniteSet(From(m)) /\ Cardinality(From(m)) \in T
  <2>1. From(m) \in SUBSET H /\ m \in From(m)
    BY <1>1
  <2> HIDE DEF From
  <2>2. IsFiniteSet(From(m)) /\ Cardinality(From(m)) <= Cardinality(H)
    BY <1>1, <2>1, FS_Subset
  <2>3. Cardinality(From(m)) \in Nat /\ Cardinality(From(m)) # 0
    BY <2>1, <2>2, FS_CardinalityType, FS_EmptySet
  <2> QED BY <1>1, <2>2, <2>3
<1>3. ASSUME NEW m \in H, NEW n \in H, m < n
      PROVE  Cardinality(From(m)) # Cardinality(From(n))
  <2>1. From(n) \in SUBSET From(m) /\ m \in From(m) /\ m \notin From(n)
    <3>1. m \in Nat /\ n \in Nat /\ \A k \in H : k \in Nat
      BY <1>1
    <3>2. (\A k \in H : k >= n => k >= m) /\ m >= m /\ ~ (m >= n)
      BY <1>3, <3>1
    <3> QED BY <3>2
  <2> HIDE DEF From
  <2> QED BY <1>2, <2>1, FS_Subset
<1>4. \A m, n \in H : Cardinality(From(m)) = Cardinality(From(n)) => m = n
  <2> SUFFICES ASSUME NEW m \in H, NEW n \in H, m # n
               PROVE  Cardinality(From(m)) # Cardinality(From(n))
    OBVIOUS
  <2>1. m < n \/ n < m
    BY <1>1
  <2> HIDE DEF From
  <2> QED BY <1>3, <2>1
<1>5. f \in Surjection(H, T)
  <2> HIDE DEF From
  <2>1. f \in Injection(H, T)
    BY <1>2, <1>4 DEF Injection, IsInjective
  <2>2. IsFiniteSet(T) /\ Cardinality(T) = Cardinality(H)
    <3>1. 1 \in Int /\ Cardinality(H) \in Int /\ (1 > Cardinality(H) => Cardinality(H) = 0)
      BY <1>1
    <3> QED BY <1>1, <3>1, FS_Interval
  <2> HIDE DEF T, f
  <2> QED BY <1>1, <2>1, <2>2, FS_Injection
<1>6. \A i \in T : \E m \in H : f[m] = i
  BY <1>5 DEF Surjection
<1> QED BY <1>1, <1>2, <1>4, <1>6 DEF Rank

\* Newest lists each message of a set once.
LEMMA NewestLists ==
    ASSUME NEW S \in SUBSET Ids
    PROVE  /\ Newest[S] \in Seq(S) /\ DOMAIN Newest[S] = 1 .. Cardinality(S)
           /\ \A i, j \in DOMAIN Newest[S] : Newest[S][i] = Newest[S][j] => i = j
           /\ \A m \in S : \E i \in DOMAIN Newest[S] : Newest[S][i] = m
<1>1. PICK N \in Nat : N = Cardinality(S)
  BY IdsInOrder
<1>2. PICK s : s = Newest[S]
  OBVIOUS
<1>3. s = [i \in 1 .. N |-> CHOOSE m \in S : Rank(S, m) = i]
  BY <1>1, <1>2 DEF Newest
<1>4. \A i \in 1 .. N : s[i] \in S /\ Rank(S, s[i]) = i
  BY <1>1, <1>3, RanksOnto
<1>5. s \in [1 .. N -> S]
  BY <1>3, <1>4
<1>6. ASSUME NEW m \in S
      PROVE  Rank(S, m) \in 1 .. N /\ s[Rank(S, m)] = m
  <2>1. Rank(S, m) \in 1 .. N
    BY <1>1, RanksOnto
  <2> QED BY <1>4, <2>1, RanksOnto
<1>7. s \in Seq(S) /\ DOMAIN s = 1 .. N
  BY <1>5
<1> QED BY <1>1, <1>2, <1>4, <1>6, <1>7

-----------------------------------------------------------------------------
(* The beginning and the rest of a sequence.                               *)

LEMMA TakeProperties ==
    ASSUME NEW T, NEW s \in Seq(T), NEW n \in Nat
    PROVE  /\ Take(s, n) \in Seq(T)
           /\ Len(Take(s, n)) = IF n < Len(s) THEN n ELSE Len(s)
           /\ \A i \in 1 .. Len(Take(s, n)) : Take(s, n)[i] = s[i]
<1>1. PICK k \in Nat : k = IF n < Len(s) THEN n ELSE Len(s)
  OBVIOUS
<1>2. Take(s, n) = SubSeq(s, 1, k) /\ k <= Len(s)
  BY <1>1 DEF Take
<1> QED BY <1>1, <1>2

LEMMA DropProperties ==
    ASSUME NEW T, NEW s \in Seq(T), NEW n \in Nat
    PROVE  /\ Drop(s, n) \in Seq(T)
           /\ Len(Drop(s, n)) = IF n < Len(s) THEN Len(s) - n ELSE 0
           /\ \A i \in 1 .. Len(Drop(s, n)) : Drop(s, n)[i] = s[n + i]
BY DEF Drop

\* What was taken determines itself, and all of it was if it has the length.
LEMMA TakeAgain ==
    ASSUME NEW T, NEW s \in Seq(T), NEW n \in Nat
    PROVE  /\ Take(s, Len(Take(s, n))) = Take(s, n)
           /\ Len(s) <= n => Take(s, n) = s
<1>1. PICK r \in Seq(T) : r = Take(s, n)
  BY TakeProperties
<1>2. Len(r) = (IF n < Len(s) THEN n ELSE Len(s)) /\ \A i \in 1 .. Len(r) : r[i] = s[i]
  BY <1>1, TakeProperties
<1>3. PICK q \in Seq(T) : q = Take(s, Len(r))
  BY LenProperties, TakeProperties
<1>4. Len(q) = Len(r) /\ \A i \in 1 .. Len(q) : q[i] = s[i]
  BY <1>2, <1>3, LenProperties, TakeProperties
<1>5. q = r
  BY <1>2, <1>4, SeqEqual
<1>6. ASSUME Len(s) <= n
      PROVE  r = s
  <2>1. Len(r) = Len(s)
    BY <1>2, <1>6
  <2> QED BY <1>2, <2>1, SeqEqual
<1> QED BY <1>1, <1>3, <1>5, <1>6

\* One page after another is one longer page.
LEMMA TakeMore ==
    ASSUME NEW T, NEW s \in Seq(T), NEW k \in Nat, NEW n \in Nat, k <= Len(s)
    PROVE  LET more == Take(Drop(s, k), n)
           IN  /\ more \in Seq(T) /\ Take(s, k) \o more = Take(s, k + Len(more))
               /\ Len(more) < n => k + Len(more) = Len(s)
<1>1. PICK d \in Seq(T) : d = Drop(s, k)
  BY DropProperties
<1>2. Len(d) = Len(s) - k /\ \A i \in 1 .. Len(d) : d[i] = s[k + i]
  BY <1>1, DropProperties
<1>3. PICK r \in Seq(T) : r = Take(d, n)
  BY TakeProperties
<1>4. Len(r) = (IF n < Len(d) THEN n ELSE Len(d)) /\ \A i \in 1 .. Len(r) : r[i] = d[i]
  BY <1>3, TakeProperties
<1>5. PICK p \in Seq(T) : p = Take(s, k)
  BY TakeProperties
<1>6. Len(p) = k /\ \A i \in 1 .. k : p[i] = s[i]
  BY <1>5, TakeProperties
<1>7. PICK q \in Seq(T) : q = Take(s, k + Len(r))
  BY LenProperties, TakeProperties
<1>8. Len(q) = k + Len(r) /\ \A i \in 1 .. Len(q) : q[i] = s[i]
  <2>1. Len(r) \in Nat /\ k + Len(r) \in Nat /\ k + Len(r) <= Len(s) /\ Len(s) \in Nat
    BY <1>2, <1>4, LenProperties
  <2> QED BY <1>7, <2>1, TakeProperties
<1>9. PICK u : u = p \o r
  OBVIOUS
<1>10. /\ u \in Seq(T) /\ Len(u) = k + Len(r) /\ \A i \in 1 .. k : u[i] = s[i]
       /\ \A i \in 1 .. Len(r) : u[k + i] = s[k + i]
  <2>1. /\ u \in Seq(T) /\ Len(u) = Len(p) + Len(r) /\ Len(r) \in Nat
        /\ \A i \in 1 .. Len(p) + Len(r) : u[i] = IF i <= Len(p) THEN p[i] ELSE r[i - Len(p)]
    BY <1>9, ConcatProperties, LenProperties
  <2>2. \A i \in 1 .. Len(r) : k + i \in 1 .. Len(p) + Len(r) /\ ~ (k + i <= k) /\ (k + i) - k = i
    BY <1>6, <2>1
  <2>3. \A i \in 1 .. Len(r) : u[k + i] = r[i]
    BY <1>6, <2>1, <2>2
  <2>4. \A i \in 1 .. Len(r) : i \in 1 .. Len(d) /\ r[i] = s[k + i]
    BY <1>2, <1>4, LenProperties
  <2>5. \A i \in 1 .. k : u[i] = s[i]
    BY <1>6, <2>1
  <2> QED BY <1>6, <2>1, <2>3, <2>4, <2>5
<1>11. ASSUME NEW i \in 1 .. Len(u)
       PROVE  u[i] = q[i]
  <2>1. CASE i <= k
    BY <1>8, <1>10, <2>1
  <2>2. CASE i > k
    <3>1. i - k \in 1 .. Len(r) /\ i = k + (i - k)
      BY <1>10, <2>2, LenProperties
    <3> QED BY <1>8, <1>10, <3>1
  <2> QED BY <2>1, <2>2
<1>12. u = q
  BY <1>8, <1>10, <1>11, SeqEqual
<1> QED BY <1>1, <1>2, <1>3, <1>4, <1>5, <1>7, <1>9, <1>12

-----------------------------------------------------------------------------
(* What the cache lists.                                                   *)

Sources  == {"ByLabel", "CrossAccountLabel", "AllMail", "BySearch", "None"}
Talks    == {Mail[m].thread : m \in Ids}
ListRows == [id: Ids, count: Nat, under: Seq(Ids)]
Thread(r) == Mail[r.id].thread

LEMMA SelectedTypes ==
    ASSUME NEW source \in Sources, NEW l, NEW a, NEW C \in SUBSET Ids
    PROVE  Selected(source, l, a, C) \in SUBSET C
BY DEF Selected, Sources

\* The rows of a listing are shut and each of a conversation of its own, and none is missing.
LEMMA RollupLists ==
    ASSUME NEW S \in SUBSET Ids
    PROVE  /\ Rollup[S] \in Seq(ListRows)
           /\ \A i \in DOMAIN Rollup[S] : Rollup[S][i].under = <<>>
           /\ \A i, j \in DOMAIN Rollup[S] :
                  Thread(Rollup[S][i]) = Thread(Rollup[S][j]) => i = j
           /\ \A m \in S : \E i \in DOMAIN Rollup[S] : Thread(Rollup[S][i]) = Mail[m].thread
<1>1. PICK H \in SUBSET S : H = Latest(S)
  BY DEF Latest
<1>2. PICK s : s = Newest[H]
  OBVIOUS
<1>3. /\ s \in Seq(H) /\ \A i, j \in DOMAIN s : s[i] = s[j] => i = j
      /\ \A m \in H : \E i \in DOMAIN s : s[i] = m
  BY <1>1, <1>2, NewestLists
<1>4. PICK f : f = Rollup[S]
  OBVIOUS
<1>5. f = [i \in DOMAIN s |->
              [id |-> s[i], count |-> Cardinality(Together(S, s[i])), under |-> <<>>]]
  BY <1>1, <1>2, <1>4 DEF Rollup
<1>6. \A m : Cardinality(Together(S, m)) \in Nat
  BY IdsInOrder DEF Together
<1>7. DOMAIN s = 1 .. Len(s) /\ Len(s) \in Nat /\ \A i \in DOMAIN s : s[i] \in H
  BY <1>3
<1>8. \A i \in 1 .. Len(s) : f[i] \in ListRows /\ f[i].id = s[i] /\ f[i].under = <<>>
  <2>1. <<>> \in Seq(Ids)
    OBVIOUS
  <2> QED BY <1>1, <1>5, <1>6, <1>7, <2>1 DEF ListRows
<1>9. f \in Seq(ListRows) /\ DOMAIN f = 1 .. Len(s)
  <2>1. f \in [1 .. Len(s) -> ListRows]
    BY <1>5, <1>7, <1>8
  <2> QED BY <1>7, <2>1
<1>10. ASSUME NEW i \in DOMAIN f, NEW j \in DOMAIN f, Thread(f[i]) = Thread(f[j])
       PROVE  i = j
  <2>1. s[i] \in Latest(S) /\ s[j] \in Latest(S) /\ Mail[s[i]].thread = Mail[s[j]].thread
    BY <1>1, <1>7, <1>8, <1>9, <1>10 DEF Thread
  <2>2. s[i] <= s[j] /\ s[j] <= s[i]
    BY <2>1 DEF Latest, Together
  <2>3. s[i] \in Nat /\ s[j] \in Nat
    BY <1>1, <2>1, IdsInOrder
  <2> QED BY <1>3, <1>7, <1>9, <1>10, <2>2, <2>3
<1>11. ASSUME NEW m \in S
       PROVE  \E i \in DOMAIN f : Thread(f[i]) = Mail[m].thread
  <2> DEFINE G == Together(S, m)
  <2>1. G \in SUBSET Ids /\ m \in G /\ G \in SUBSET S
    BY DEF Together
  <2>2. PICK h \in G : \A n \in G : n <= h
    <3> HIDE DEF G
    <3> QED BY <2>1, LatestExists
  <2>3. h \in Latest(S) /\ Mail[h].thread = Mail[m].thread
    BY <2>1, <2>2 DEF Latest, Together
  <2> QED BY <1>1, <1>3, <1>7, <1>8, <1>9, <2>3 DEF Thread
<1> QED BY <1>4, <1>8, <1>9, <1>10, <1>11

LEMMA ListingLists ==
    ASSUME NEW L, L.source \in Sources, NEW a, NEW C \in SUBSET Ids
    PROVE  LET F == Listing(L, a, C)
           IN  /\ F \in Seq(ListRows) /\ \A i \in DOMAIN F : F[i].under = <<>>
               /\ \A i, j \in DOMAIN F : Thread(F[i]) = Thread(F[j]) => i = j
               /\ \A m \in Selected(L.source, L.label, a, C) :
                      \E i \in DOMAIN F : Thread(F[i]) = Mail[m].thread
BY SelectedTypes, RollupLists DEF Listing

LEMMA ChildrenTypes ==
    ASSUME NEW r \in ListRows, NEW C \in SUBSET Ids
    PROVE  Children(r, C) \in Seq(Ids)
<1>1. Together(C, r.id) \ {r.id} \in SUBSET Ids
  BY DEF Together
<1>2. PICK S \in SUBSET Ids : S = Together(C, r.id) \ {r.id}
  BY <1>1
<1>3. Newest[S] \in Seq(S)
  BY NewestLists
<1>4. Newest[S] \in Seq(Ids)
  BY <1>3
<1> QED BY <1>2, <1>4 DEF Children

-----------------------------------------------------------------------------
(* Lists whose rows are the first of the listing.                          *)

Lists == [source: Sources, label: Labels \cup {Nil}, rows: Seq(ListRows),
          expanded: SUBSET Talks, drained: BOOLEAN, skew: BOOLEAN]

\* The rows stand for the first conversations of listing F.
Matches(rs, F) ==
    /\ Len(rs) <= Len(F)
    /\ \A i \in DOMAIN rs : rs[i].id = F[i].id /\ rs[i].count = F[i].count

\* Row r is open, with the conversations of E.
OpenIn(r, E) == Expandable(r) /\ Thread(r) \in E

\* Under the open rows are the children that C has, and each open conversation has its row.
Blocks(rs, E, C) ==
    /\ \A i \in DOMAIN rs :
          rs[i].under = IF OpenIn(rs[i], E) THEN Children(rs[i], C) ELSE <<>>
    /\ \A t \in E : \E i \in DOMAIN rs : OpenIn(rs[i], E) /\ Thread(rs[i]) = t

Fits(L, a, C) ==
    /\ Matches(L.rows, Listing(L, a, C)) /\ Blocks(L.rows, L.expanded, C)
    /\ L.drained /\ Paged(L) => Len(L.rows) = Len(Listing(L, a, C))

GoodList(L, a, C) ==
    /\ L \in Lists /\ (Paged(L) => L.label \in Labels)
    /\ ~L.skew => Fits(L, a, C)

\* Rows equal up to what is under them.
LEMMA SameRow ==
    ASSUME NEW r \in ListRows, NEW q \in ListRows, r.id = q.id, r.count = q.count
    PROVE  [r EXCEPT !.under = q.under] = q
BY DEF ListRows

LEMMA ParentsMatch ==
    ASSUME NEW L \in Lists, NEW F \in Seq(ListRows), \A i \in DOMAIN F : F[i].under = <<>>,
           Matches(L.rows, F)
    PROVE  /\ Parents(L) = Take(F, Len(L.rows))
           /\ Len(L.rows) = Len(F) => Parents(L) = F
<1>1. PICK s \in Seq(ListRows) : s = L.rows
  BY DEF Lists
<1>2. Len(s) <= Len(F) /\ \A i \in 1 .. Len(s) : s[i].id = F[i].id /\ s[i].count = F[i].count
  BY <1>1 DEF Matches
<1>3. \A i \in 1 .. Len(s) : s[i] \in ListRows /\ F[i] \in ListRows /\ F[i].under = <<>>
  BY <1>2
<1>4. PICK p : p = Parents(L)
  OBVIOUS
<1>5. p = [i \in 1 .. Len(s) |-> [s[i] EXCEPT !.under = <<>>]]
  BY <1>1, <1>4 DEF Parents
<1>6. \A i \in 1 .. Len(s) : p[i] = F[i]
  <2>1. \A i \in 1 .. Len(s) : p[i] = [s[i] EXCEPT !.under = F[i].under]
    BY <1>3, <1>5
  <2>2. \A i \in 1 .. Len(s) : [s[i] EXCEPT !.under = F[i].under] = F[i]
    BY ONLY <1>2, <1>3, SameRow
  <2> QED BY <2>1, <2>2
<1>7. p \in Seq(ListRows) /\ Len(p) = Len(s)
  <2>1. p \in [1 .. Len(s) -> ListRows]
    BY <1>3, <1>5, <1>6
  <2> QED BY <2>1
<1>8. PICK q \in Seq(ListRows) : q = Take(F, Len(s))
  BY TakeProperties, LenProperties
<1>9. Len(q) = Len(s) /\ \A i \in 1 .. Len(q) : q[i] = F[i]
  BY <1>2, <1>8, TakeProperties, LenProperties
<1>10. p = q
  BY <1>6, <1>7, <1>9, SeqEqual
<1>11. Len(s) = Len(F) => p = F
  BY <1>6, <1>7, SeqEqual
<1> QED BY <1>1, <1>4, <1>8, <1>10, <1>11

\* Opening what is open changes nothing.
LEMMA ReopenedSame ==
    ASSUME NEW L \in Lists, NEW C \in SUBSET Ids, Blocks(L.rows, L.expanded, C)
    PROVE  Reopened(L, L.expanded, C) = L
<1>1. PICK s \in Seq(ListRows), E \in SUBSET Talks : s = L.rows /\ E = L.expanded
  BY DEF Lists
<1>2. PICK R : R = [i \in DOMAIN s |->
                [s[i] EXCEPT !.under = IF OpenIn(s[i], E) THEN Children(s[i], C) ELSE <<>>]]
  OBVIOUS
<1>3. PICK D : D = {Mail[s[i].id].thread : i \in {j \in DOMAIN s : OpenIn(s[j], E)}}
  OBVIOUS
<1>4. Reopened(L, L.expanded, C) = [L EXCEPT !.rows = R, !.expanded = D]
  BY <1>1, <1>2, <1>3 DEF Reopened, OpenIn, Thread
<1>5. /\ \A i \in DOMAIN s : s[i].under = IF OpenIn(s[i], E) THEN Children(s[i], C) ELSE <<>>
      /\ \A t \in E : \E i \in DOMAIN s : OpenIn(s[i], E) /\ Thread(s[i]) = t
  BY <1>1 DEF Blocks
<1>6. \A i \in DOMAIN s : R[i] = s[i]
  <2>1. \A i \in DOMAIN s : s[i] \in ListRows
    OBVIOUS
  <2>2. \A i \in DOMAIN s : R[i] = [s[i] EXCEPT !.under = s[i].under]
    BY <1>2, <1>5
  <2> QED BY <2>1, <2>2, SameRow
<1>7. R = s
  BY <1>2, <1>6
<1>8. D = E
  <2>1. D \subseteq E
    BY <1>3 DEF OpenIn, Thread
  <2>2. E \subseteq D
    BY <1>3, <1>5 DEF Thread
  <2> QED BY <2>1, <2>2
<1>9. [L EXCEPT !.rows = s, !.expanded = E] = L
  BY <1>1 DEF Lists
<1> QED BY <1>4, <1>7, <1>8, <1>9

LEMMA FirstPageGood ==
    ASSUME NEW source \in Sources, NEW l \in Labels \cup {Nil}, NEW a, NEW C \in SUBSET Ids,
           source \in {"ByLabel", "CrossAccountLabel", "AllMail"} => l \in Labels
    PROVE  /\ GoodList(loadFirstPage(source, l, a, C), a, C)
           /\ loadFirstPage(source, l, a, C).source = source
           /\ loadFirstPage(source, l, a, C).label = l
<1>1. PICK F : F = Rollup[Selected(source, l, a, C)]
  OBVIOUS
<1>2. F \in Seq(ListRows) /\ \A i \in DOMAIN F : F[i].under = <<>>
  BY <1>1, SelectedTypes, RollupLists
<1>3. PICK r \in Seq(ListRows) : r = Take(F, PageSize)
  BY <1>2, TakeProperties, MessageListAssumption
<1>4. PageSize \in Nat /\ Len(r) = (IF PageSize < Len(F) THEN PageSize ELSE Len(F))
      /\ \A i \in 1 .. Len(r) : r[i] = F[i]
  BY <1>2, <1>3, TakeProperties, MessageListAssumption
<1>5. PICK K : K = loadFirstPage(source, l, a, C)
  OBVIOUS
<1>6. K = [source |-> source, label |-> l, rows |-> r, expanded |-> {},
           drained |-> source \in {"BySearch", "None"} \/ Len(r) < PageSize, skew |-> FALSE]
  BY <1>1, <1>3, <1>5 DEF loadFirstPage
<1>7. K \in Lists
  BY <1>6 DEF Lists
<1>8. Listing(K, a, C) = F
  BY <1>1, <1>6 DEF Listing
<1>9. Len(F) \in Nat /\ Len(r) \in Nat /\ DOMAIN r = 1 .. Len(r) /\ DOMAIN F = 1 .. Len(F)
  BY <1>2, LenProperties
<1>10. Matches(K.rows, F)
  BY <1>4, <1>6, <1>9 DEF Matches
<1>11. Blocks(K.rows, K.expanded, C)
  <2>1. \A i \in 1 .. Len(r) : i \in DOMAIN F /\ r[i].under = <<>>
    BY <1>2, <1>4, <1>9
  <2> QED BY <1>6, <1>9, <2>1 DEF Blocks, OpenIn
<1>12. K.drained /\ Paged(K) => Len(K.rows) = Len(F)
  <2>1. K.drained /\ Paged(K) => Len(r) < PageSize
    BY <1>6 DEF Paged
  <2>2. Len(r) < PageSize => Len(r) = Len(F)
    <3>1. /\ Len(r) = (IF PageSize < Len(F) THEN PageSize ELSE Len(F))
          /\ PageSize \in Nat /\ Len(r) \in Nat /\ Len(F) \in Nat
      BY <1>4, <1>9
    <3> QED BY ONLY <3>1
  <2> QED BY <1>6, <2>1, <2>2
<1> QED BY <1>5, <1>6, <1>7, <1>8, <1>10, <1>11, <1>12 DEF GoodList, Fits, Paged

LEMMA PlacesCounted ==
    ASSUME NEW L \in Lists
    PROVE  /\ Cardinality(Places(L)) \in Nat
           /\ (\A i \in DOMAIN L.rows : L.rows[i].under = <<>>)
                  => Cardinality(Places(L)) = Len(L.rows)
<1>1. PICK s \in Seq(ListRows) : s = L.rows
  BY DEF Lists
<1>2. PICK n \in Nat : n = Len(s) /\ DOMAIN s = 1 .. n
  BY LenProperties
<1>3. Len(Mail) \in Nat
  BY MessageListAssumption
<1>4. PICK P : P = Places(L)
  OBVIOUS
<1>5. P = {p \in (1 .. n) \X (0 .. Len(Mail)) : p[2] <= Len(s[p[1]].under)}
  BY <1>1, <1>2, <1>4 DEF Places
<1>6. IsFiniteSet(1 .. n) /\ Cardinality(1 .. n) = n /\ IsFiniteSet(0 .. Len(Mail))
  <2>1. 0 \in Int /\ 1 \in Int /\ n \in Int /\ Len(Mail) \in Int /\ (1 > n => n = 0) /\ n - 1 + 1 = n
    BY <1>3
  <2>2. IsFiniteSet(1 .. n) /\ Cardinality(1 .. n) = IF 1 > n THEN 0 ELSE n - 1 + 1
    BY ONLY <2>1, FS_Interval
  <2>3. IsFiniteSet(0 .. Len(Mail))
    BY ONLY <2>1, FS_Interval
  <2> QED BY <2>1, <2>2, <2>3
<1>7. IsFiniteSet(P)
  <2>1. IsFiniteSet((1 .. n) \X (0 .. Len(Mail)))
    BY <1>6, FS_Product
  <2>2. P \in SUBSET ((1 .. n) \X (0 .. Len(Mail)))
    BY <1>5
  <2> QED BY <2>1, <2>2, FS_Subset
<1>8. ASSUME \A i \in DOMAIN s : s[i].under = <<>>
      PROVE  Cardinality(P) = n
  <2>1. \A i \in 1 .. n : Len(s[i].under) = 0
    BY <1>2, <1>8
  <2>2. \A i \in 1 .. n : <<i, 0>> \in P
    BY <1>3, <1>5, <2>1
  <2>3. \A p \in P : p[1] \in 1 .. n /\ p = <<p[1], 0>>
    BY <1>3, <1>5, <2>1
  <2>4. PICK f : f = [i \in 1 .. n |-> <<i, 0>>]
    OBVIOUS
  <2>5. f \in Bijection(1 .. n, P)
    <3>1. f \in [1 .. n -> P] /\ \A i, j \in 1 .. n : f[i] = f[j] => i = j
      BY <2>2, <2>4
    <3>2. \A p \in P : \E i \in 1 .. n : f[i] = p
      BY <2>3, <2>4
    <3> QED BY <3>1, <3>2 DEF Bijection, Injection, IsInjective, Surjection
  <2> QED BY <1>6, <2>5, FS_Bijection DEF ExistsBijection
<1> QED BY <1>1, <1>2, <1>4, <1>7, <1>8, FS_CardinalityType

\* A listed row and the conversations of a list of rows are one to one.
LEMMA RowsDistinct ==
    ASSUME NEW rs \in Seq(ListRows), NEW F \in Seq(ListRows), Matches(rs, F),
           \A i, j \in DOMAIN F : Thread(F[i]) = Thread(F[j]) => i = j
    PROVE  \A i, j \in DOMAIN rs : Thread(rs[i]) = Thread(rs[j]) => i = j
<1>1. /\ DOMAIN rs = 1 .. Len(rs) /\ DOMAIN F = 1 .. Len(F)
      /\ Len(rs) \in Nat /\ Len(F) \in Nat /\ Len(rs) <= Len(F)
  BY LenProperties DEF Matches
<1>2. \A i \in DOMAIN rs : i \in DOMAIN F /\ rs[i].id = F[i].id
  BY <1>1 DEF Matches
<1> QED BY <1>2 DEF Thread

\* What a fetched page changes of a list.
LEMMA FetchedFields ==
    ASSUME NEW L \in Lists, NEW n \in Nat, NEW a, NEW C \in SUBSET Ids
    PROVE  \E more \in Seq(ListRows) :
              LET K == fetched(L, n, a, C)
              IN  /\ more = Take(Drop(Listing(L, a, C), Cardinality(Places(L))), n)
                  /\ K \in Lists /\ K.source = L.source /\ K.label = L.label
                  /\ K.rows = L.rows \o more /\ K.expanded = L.expanded
                  /\ K.drained <=> Len(more) < n
                  /\ K.skew <=> L.skew \/ \E i \in DOMAIN L.rows : L.rows[i].under # <<>>
<1>1. PICK k \in Nat : k = Cardinality(Places(L))
  BY PlacesCounted
<1>2. PICK F \in Seq(ListRows) : F = Listing(L, a, C)
  BY ListingLists DEF Lists
<1>3. PICK more \in Seq(ListRows) : more = Take(Drop(F, k), n)
  BY TakeProperties, DropProperties
<1>4. L.rows \o more \in Seq(ListRows)
  BY ConcatProperties DEF Lists
<1>5. PICK u \in Seq(ListRows) : u = L.rows \o more
  BY <1>4
<1>6. PICK K : K = fetched(L, n, a, C)
  OBVIOUS
<1>7. K = [L EXCEPT !.rows = u, !.drained = Len(more) < n,
                    !.skew = @ \/ \E i \in DOMAIN L.rows : L.rows[i].under # <<>>]
  BY <1>1, <1>2, <1>3, <1>5, <1>6 DEF fetched
<1>8. /\ K.source = L.source /\ K.label = L.label /\ K.rows = u /\ K.expanded = L.expanded
      /\ K.drained <=> Len(more) < n
      /\ K.skew <=> L.skew \/ \E i \in DOMAIN L.rows : L.rows[i].under # <<>>
  BY <1>7 DEF Lists
<1>9. K \in Lists
  <2>1. (Len(more) < n) \in BOOLEAN
    BY SMT
  <2>2. (L.skew \/ \E i \in DOMAIN L.rows : L.rows[i].under # <<>>) \in BOOLEAN
    BY Zenon
  <2>3. PICK d, b : /\ d = (Len(more) < n)
                    /\ b = (L.skew \/ \E i \in DOMAIN L.rows : L.rows[i].under # <<>>)
    BY Zenon
  <2>4. K = [L EXCEPT !.rows = u, !.drained = d, !.skew = b]
    BY <1>7, <2>3, Zenon
  <2>5. d \in BOOLEAN /\ b \in BOOLEAN
    BY <2>1, <2>2, <2>3, Zenon
  <2> QED BY ONLY L \in Lists, u \in Seq(ListRows), <2>4, <2>5 DEF Lists
<1> QED BY <1>1, <1>2, <1>3, <1>5, <1>6, <1>8, <1>9

\* A page fetched behind shut rows goes on where they end; behind open ones the list is askew.
LEMMA FetchedGood ==
    ASSUME NEW L, NEW n \in Nat, NEW a, NEW C \in SUBSET Ids, GoodList(L, a, C)
    PROVE  /\ GoodList(fetched(L, n, a, C), a, C)
           /\ fetched(L, n, a, C).source = L.source /\ fetched(L, n, a, C).label = L.label
<1>1. L \in Lists /\ (Paged(L) => L.label \in Labels) /\ (~L.skew => Fits(L, a, C))
  BY DEF GoodList
<1>2. PICK s \in Seq(ListRows), E \in SUBSET Talks : s = L.rows /\ E = L.expanded
  BY <1>1 DEF Lists
<1>3. PICK F \in Seq(ListRows) : F = Listing(L, a, C)
  BY <1>1, ListingLists DEF Lists
<1>4. PICK more \in Seq(ListRows) :
          LET K == fetched(L, n, a, C)
          IN  /\ more = Take(Drop(Listing(L, a, C), Cardinality(Places(L))), n)
              /\ K \in Lists /\ K.source = L.source /\ K.label = L.label
              /\ K.rows = L.rows \o more /\ K.expanded = L.expanded
              /\ K.drained <=> Len(more) < n
              /\ K.skew <=> L.skew \/ \E i \in DOMAIN L.rows : L.rows[i].under # <<>>
  BY <1>1, FetchedFields, Zenon
<1>5. PICK u \in Seq(ListRows) : u = s \o more
  BY ConcatProperties
<1>6. PICK K : K = fetched(L, n, a, C)
  OBVIOUS
<1>7. /\ more = Take(Drop(F, Cardinality(Places(L))), n)
      /\ K.rows = u /\ K.expanded = E /\ (K.drained <=> Len(more) < n)
      /\ K.skew <=> L.skew \/ \E i \in DOMAIN s : s[i].under # <<>>
  BY <1>2, <1>3, <1>4, <1>5, <1>6
<1>8. K \in Lists /\ K.source = L.source /\ K.label = L.label /\ (Paged(K) => K.label \in Labels)
  BY <1>1, <1>4, <1>6 DEF Paged
<1>9. ASSUME ~K.skew
      PROVE  Fits(K, a, C)
  <2>1. ~L.skew /\ \A i \in DOMAIN s : s[i].under = <<>>
    BY <1>7, <1>9
  <2>2. Matches(s, F) /\ Blocks(s, E, C)
    BY <1>1, <1>2, <1>3, <2>1 DEF Fits
  <2>3. PICK k \in Nat : k = Len(s) /\ k <= Len(F)
    BY <2>2, LenProperties DEF Matches
  <2>4. Cardinality(Places(L)) = k
    BY <1>1, <1>2, <2>1, <2>3, PlacesCounted
  <2>5. /\ \A i \in 1 .. Len(more) : k + i \in 1 .. Len(F) /\ more[i] = F[k + i]
        /\ Len(more) < n => k + Len(more) = Len(F)
        /\ k + Len(more) <= Len(F)
    <3>1. PICK d \in Seq(ListRows) : d = Drop(F, k)
      BY DropProperties
    <3>2. /\ Len(d) = (IF k < Len(F) THEN Len(F) - k ELSE 0) /\ Len(d) \in Nat /\ Len(F) \in Nat
          /\ \A i \in 1 .. Len(d) : d[i] = F[k + i]
      BY <3>1, DropProperties, LenProperties
    <3>3. /\ Len(more) = (IF n < Len(d) THEN n ELSE Len(d))
          /\ \A i \in 1 .. Len(more) : more[i] = d[i]
      BY <1>7, <2>4, <3>1, TakeProperties
    <3> QED BY <2>3, <3>2, <3>3
  <2>6. /\ Len(u) = k + Len(more) /\ Len(more) \in Nat
        /\ DOMAIN u = 1 .. k + Len(more) /\ DOMAIN s = 1 .. k
        /\ \A i \in 1 .. k : u[i] = s[i]
        /\ \A i \in 1 .. k + Len(more) : i > k => u[i] = more[i - k]
    BY <1>5, <2>3, ConcatProperties, LenProperties
  <2>7. \A i \in DOMAIN u : i > k => u[i] = F[i] /\ i \in DOMAIN F
    <3> SUFFICES ASSUME NEW i \in 1 .. k + Len(more), i > k
                 PROVE  u[i] = F[i] /\ i \in DOMAIN F
      BY <2>6
    <3>1. i - k \in 1 .. Len(more) /\ k + (i - k) = i
      BY <2>6
    <3> QED BY <2>5, <2>6, <3>1
  <2>8. Matches(u, F)
    <3>1. \A i \in 1 .. k : u[i].id = F[i].id /\ u[i].count = F[i].count
      BY <2>2, <2>6 DEF Matches
    <3>2. \A i \in DOMAIN u : u[i].id = F[i].id /\ u[i].count = F[i].count
      <4> SUFFICES ASSUME NEW i \in 1 .. k + Len(more)
                   PROVE  u[i].id = F[i].id /\ u[i].count = F[i].count
        BY <2>6
      <4>1. i > k \/ i \in 1 .. k
        OBVIOUS
      <4> QED BY <2>6, <2>7, <3>1, <4>1
    <3> QED BY <2>5, <2>6, <3>2 DEF Matches
  <2>9. Listing(K, a, C) = F
    BY <1>3, <1>8 DEF Listing
  <2>10. /\ \A i \in DOMAIN F : F[i].under = <<>>
         /\ \A i, j \in DOMAIN F : Thread(F[i]) = Thread(F[j]) => i = j
    BY <1>1, <1>3, ListingLists DEF Lists
  <2>11. \A i, j \in DOMAIN u : Thread(u[i]) = Thread(u[j]) => i = j
    BY <2>8, <2>10, RowsDistinct
  <2>12. \A t \in E : \E i \in DOMAIN s : OpenIn(s[i], E) /\ Thread(s[i]) = t
    BY <2>2 DEF Blocks
  <2>13. \A i \in DOMAIN u : i > k => u[i].under = <<>> /\ ~OpenIn(u[i], E)
    <3> SUFFICES ASSUME NEW i \in DOMAIN u, i > k, OpenIn(u[i], E)
                 PROVE  FALSE
      BY <2>7, <2>10
    <3>1. PICK j \in DOMAIN s : Thread(s[j]) = Thread(u[i])
      BY <2>12 DEF OpenIn
    <3>2. j \in DOMAIN u /\ j # i /\ u[j] = s[j]
      BY <2>6
    <3> QED BY <2>11, <3>1, <3>2
  <2>14. Blocks(u, E, C)
    <3>1. \A i \in DOMAIN u : u[i].under = IF OpenIn(u[i], E) THEN Children(u[i], C) ELSE <<>>
      <4> SUFFICES ASSUME NEW i \in DOMAIN u
                   PROVE  u[i].under = IF OpenIn(u[i], E) THEN Children(u[i], C) ELSE <<>>
        OBVIOUS
      <4>1. CASE i > k
        BY <2>13, <4>1
      <4>2. CASE ~(i > k)
        <5>1. i \in DOMAIN s /\ u[i] = s[i]
          BY <2>6, <4>2
        <5> QED BY <2>2, <5>1 DEF Blocks
      <4> QED BY <4>1, <4>2
    <3>2. \A t \in E : \E i \in DOMAIN u : OpenIn(u[i], E) /\ Thread(u[i]) = t
      <4>1. \A i \in DOMAIN s : i \in DOMAIN u /\ u[i] = s[i]
        BY <2>6
      <4> QED BY <2>12, <4>1
    <3> QED BY <3>1, <3>2 DEF Blocks
  <2>15. K.drained => Len(u) = Len(F)
    BY <1>7, <2>5, <2>6
  <2> QED BY <1>7, <2>8, <2>9, <2>14, <2>15 DEF Fits
<1> QED BY <1>6, <1>8, <1>9 DEF GoodList

LEMMA RequeriedGood ==
    ASSUME NEW L \in Lists, Paged(L) => L.label \in Labels, NEW n \in Nat, NEW a, NEW C \in SUBSET Ids
    PROVE  LET K == Requeried(L, n, a, C)
           IN  /\ GoodList(K, a, C) /\ K.source = L.source /\ K.label = L.label /\ ~K.skew
               /\ K.expanded = {} /\ \A i \in DOMAIN K.rows : K.rows[i].under = <<>>
<1>1. PICK F : F = Listing(L, a, C)
  OBVIOUS
<1>2. F \in Seq(ListRows) /\ \A i \in DOMAIN F : F[i].under = <<>>
  BY <1>1, ListingLists DEF Lists
<1>3. PICK k \in Nat : k = IF n > PageSize THEN n ELSE PageSize
  BY MessageListAssumption
<1>4. PICK r \in Seq(ListRows) : r = Take(F, k)
  BY <1>2, TakeProperties
<1>5. /\ Len(r) = (IF k < Len(F) THEN k ELSE Len(F)) /\ \A i \in 1 .. Len(r) : r[i] = F[i]
      /\ Len(r) \in Nat /\ Len(F) \in Nat /\ DOMAIN r = 1 .. Len(r) /\ DOMAIN F = 1 .. Len(F)
  BY <1>2, <1>4, TakeProperties, LenProperties
<1>6. PICK d \in BOOLEAN : d = (L.source = "BySearch" \/ Len(F) <= k)
  OBVIOUS
<1>7. PICK K : K = Requeried(L, n, a, C)
  OBVIOUS
<1>8. K = [source |-> L.source, label |-> L.label, rows |-> r, expanded |-> {},
           drained |-> d, skew |-> FALSE]
  <2>1. K = [L EXCEPT !.rows = r, !.expanded = {}, !.skew = FALSE, !.drained = d]
    BY <1>1, <1>3, <1>4, <1>6, <1>7 DEF Requeried
  <2> QED BY <2>1 DEF Lists
<1>9. /\ K \in Lists /\ K.source = L.source /\ K.label = L.label /\ ~K.skew /\ K.expanded = {}
      /\ K.rows = r /\ K.drained = d /\ (Paged(K) => K.label \in Labels)
  BY <1>8 DEF Lists, Paged
<1>10. Listing(K, a, C) = F
  BY <1>1, <1>9 DEF Listing
<1>11. Matches(r, F)
  BY <1>5 DEF Matches
<1>12. \A i \in DOMAIN r : r[i].under = <<>>
  <2>1. \A i \in 1 .. Len(r) : i \in DOMAIN F /\ r[i] = F[i]
    BY <1>5
  <2> QED BY <1>2, <1>5, <2>1
<1>13. Blocks(r, {}, C)
  BY <1>12 DEF Blocks, OpenIn
<1>14. d /\ Paged(K) => Len(r) = Len(F)
  <2>1. d /\ Paged(K) => Len(F) <= k
    BY <1>6, <1>9 DEF Paged
  <2>2. Len(F) <= k => Len(r) = Len(F)
    <3>1. /\ Len(r) = (IF k < Len(F) THEN k ELSE Len(F)) /\ Len(F) \in Nat
      BY <1>5
    <3> QED BY ONLY <3>1, <1>3
  <2> QED BY <2>1, <2>2
<1>15. GoodList(K, a, C)
  BY <1>9, <1>10, <1>11, <1>13, <1>14 DEF GoodList, Fits
<1> QED BY <1>7, <1>9, <1>12, <1>15

\* Rows opened.
LEMMA ReopenedGood ==
    ASSUME NEW K, NEW a, NEW C \in SUBSET Ids, NEW E, E \subseteq Talks, GoodList(K, a, C), ~K.skew
    PROVE  LET R == Reopened(K, E, C)
           IN  GoodList(R, a, C) /\ R.source = K.source /\ R.label = K.label /\ ~R.skew
<1>1. K \in Lists /\ (Paged(K) => K.label \in Labels) /\ Fits(K, a, C)
  BY DEF GoodList
<1>2. PICK s \in Seq(ListRows) : s = K.rows
  BY <1>1 DEF Lists
<1>3. PICK F : F = Listing(K, a, C)
  OBVIOUS
<1>4. DOMAIN s = 1 .. Len(s) /\ Len(s) \in Nat /\ \A i \in DOMAIN s : s[i] \in ListRows
  BY LenProperties
<1>5. PICK r : r = [i \in DOMAIN s |->
               [s[i] EXCEPT !.under = IF OpenIn(s[i], E) THEN Children(s[i], C) ELSE <<>>]]
  OBVIOUS
<1>6. PICK D : D = {Mail[s[i].id].thread : i \in {j \in DOMAIN s : OpenIn(s[j], E)}}
  OBVIOUS
<1>7. PICK R : R = Reopened(K, E, C)
  OBVIOUS
<1>8. R = [source |-> K.source, label |-> K.label, rows |-> r, expanded |-> D,
           drained |-> K.drained, skew |-> K.skew]
  <2>1. R = [K EXCEPT !.rows = r, !.expanded = D]
    BY <1>2, <1>5, <1>6, <1>7 DEF Reopened, OpenIn, Thread
  <2> QED BY <1>1, <2>1 DEF Lists
<1>9. \A i \in DOMAIN s :
          /\ r[i] \in ListRows /\ r[i].id = s[i].id /\ r[i].count = s[i].count
          /\ r[i].under = IF OpenIn(s[i], E) THEN Children(s[i], C) ELSE <<>>
  <2> SUFFICES ASSUME NEW i \in DOMAIN s
               PROVE  /\ r[i] \in ListRows /\ r[i].id = s[i].id /\ r[i].count = s[i].count
                      /\ r[i].under = IF OpenIn(s[i], E) THEN Children(s[i], C) ELSE <<>>
    OBVIOUS
  <2>1. PICK c \in Seq(Ids) : c = IF OpenIn(s[i], E) THEN Children(s[i], C) ELSE <<>>
    <3>1. Children(s[i], C) \in Seq(Ids)
      BY <1>4, ChildrenTypes
    <3>2. <<>> \in Seq(Ids)
      OBVIOUS
    <3> QED BY <3>1, <3>2
  <2>2. r[i] = [s[i] EXCEPT !.under = c]
    BY <1>5, <2>1
  <2>3. s[i] \in ListRows
    BY <1>4
  <2> QED BY <2>1, <2>2, <2>3 DEF ListRows
<1>10. r \in Seq(ListRows) /\ Len(r) = Len(s) /\ DOMAIN r = DOMAIN s
  <2>1. DOMAIN r = 1 .. Len(s) /\ r \in [1 .. Len(s) -> ListRows]
    BY <1>4, <1>5, <1>9
  <2> QED BY <1>4, <2>1
<1>11. D \subseteq Talks
  BY <1>4, <1>6 DEF Talks, ListRows
<1>12. /\ R \in Lists /\ R.source = K.source /\ R.label = K.label /\ ~R.skew
       /\ R.rows = r /\ R.expanded = D /\ R.drained = K.drained
       /\ (Paged(R) <=> Paged(K)) /\ (Paged(R) => R.label \in Labels)
  BY <1>1, <1>8, <1>10, <1>11 DEF Lists, Paged
<1>13. Listing(R, a, C) = F
  BY <1>3, <1>12 DEF Listing
<1>14. Matches(s, F) /\ (K.drained /\ Paged(K) => Len(s) = Len(F))
  BY <1>1, <1>2, <1>3 DEF Fits
<1>15. Matches(r, F)
  BY <1>9, <1>10, <1>14 DEF Matches
<1>16. \A i \in DOMAIN s : /\ Thread(r[i]) = Thread(s[i]) /\ (OpenIn(r[i], D) <=> OpenIn(s[i], E))
                           /\ Children(r[i], C) = Children(s[i], C)
  <2> SUFFICES ASSUME NEW i \in DOMAIN s
               PROVE  /\ Thread(r[i]) = Thread(s[i]) /\ (OpenIn(r[i], D) <=> OpenIn(s[i], E))
                      /\ Children(r[i], C) = Children(s[i], C)
    OBVIOUS
  <2>1. Thread(r[i]) = Thread(s[i]) /\ (Expandable(r[i]) <=> Expandable(s[i]))
        /\ Children(r[i], C) = Children(s[i], C)
    BY <1>9 DEF Thread, Expandable, Children
  <2>2. OpenIn(s[i], E) => Thread(s[i]) \in D
    BY <1>6 DEF Thread
  <2>3. Thread(s[i]) \in D => Thread(s[i]) \in E
    BY <1>6 DEF Thread, OpenIn
  <2> QED BY <2>1, <2>2, <2>3 DEF OpenIn
<1>17. Blocks(r, D, C)
  <2>1. \A i \in DOMAIN r : r[i].under = IF OpenIn(r[i], D) THEN Children(r[i], C) ELSE <<>>
    BY <1>9, <1>10, <1>16
  <2>2. \A t \in D : \E i \in DOMAIN s : OpenIn(s[i], E) /\ Thread(s[i]) = t
    BY <1>6 DEF Thread
  <2> QED BY <1>10, <1>16, <2>1, <2>2 DEF Blocks
<1> QED BY <1>7, <1>10, <1>12, <1>13, <1>14, <1>15, <1>17 DEF GoodList, Fits

LEMMA RefreshGood ==
    ASSUME NEW L \in Lists, Paged(L) => L.label \in Labels, NEW a, NEW C \in SUBSET Ids
    PROVE  LET R == refreshFromSource(L, a, C)
           IN  GoodList(R, a, C) /\ R.source = L.source /\ R.label = L.label
<1>1. Len(L.rows) \in Nat /\ L.expanded \subseteq Talks
  BY LenProperties DEF Lists
<1>2. PICK K : K = Requeried(L, Len(L.rows), a, C)
  OBVIOUS
<1>3. GoodList(K, a, C) /\ K.source = L.source /\ K.label = L.label /\ ~K.skew
  BY <1>1, <1>2, RequeriedGood
<1> QED BY <1>1, <1>2, <1>3, ReopenedGood DEF refreshFromSource

LEMMA ExpandGood ==
    ASSUME NEW L, NEW n \in Nat, NEW a, NEW C \in SUBSET Ids, GoodList(L, a, C)
    PROVE  LET R == expandLoadedRows(L, n, a, C)
           IN  GoodList(R, a, C) /\ R.source = L.source /\ R.label = L.label
BY RequeriedGood DEF expandLoadedRows, GoodList

LEMMA ResumeGood ==
    ASSUME NEW L, NEW a, NEW C \in SUBSET Ids, GoodList(L, a, C)
    PROVE  LET R == resumeAfterTopUp(L, a, C)
           IN  GoodList(R, a, C) /\ R.source = L.source /\ R.label = L.label
<1>1. MaxChunks * PageSize \in Nat
  BY MessageListAssumption
<1> QED BY <1>1, FetchedGood DEF resumeAfterTopUp

\* A conversation opened or shut.
LEMMA ToggleGood ==
    ASSUME NEW L, NEW a, NEW C \in SUBSET Ids, GoodList(L, a, C),
           NEW i \in DOMAIN L.rows, Expandable(L.rows[i])
    PROVE  LET R == toggleThreadExpand(L, i, C)
           IN  /\ GoodList(R, a, C) /\ R.source = L.source /\ R.label = L.label
               /\ R.drained = L.drained /\ R.skew = L.skew
<1>1. L \in Lists /\ (Paged(L) => L.label \in Labels) /\ (~L.skew => Fits(L, a, C))
  BY DEF GoodList
<1>2. PICK s \in Seq(ListRows), E \in SUBSET Talks : s = L.rows /\ E = L.expanded
  BY <1>1 DEF Lists
<1>3. PICK F \in Seq(ListRows) : F = Listing(L, a, C)
  BY <1>1, ListingLists DEF Lists
<1>4. /\ DOMAIN s = 1 .. Len(s) /\ Len(s) \in Nat /\ \A j \in DOMAIN s : s[j] \in ListRows
      /\ i \in DOMAIN s /\ Expandable(s[i])
  BY <1>2, LenProperties
<1>5. PICK t \in Talks : t = Thread(s[i])
  BY <1>4 DEF Talks, Thread, ListRows
<1>6. PICK D \in SUBSET Talks : D = IF t \in E THEN E \ {t} ELSE E \cup {t}
  BY <1>5
<1>7. PICK c \in Seq(Ids) : c = IF t \in E THEN <<>> ELSE Children(s[i], C) \o s[i].under
  <2>1. Children(s[i], C) \in Seq(Ids) /\ s[i].under \in Seq(Ids) /\ <<>> \in Seq(Ids)
    BY <1>4, ChildrenTypes DEF ListRows
  <2>2. Children(s[i], C) \o s[i].under \in Seq(Ids)
    BY <2>1, ConcatProperties
  <2> QED BY <2>1, <2>2
<1>8. PICK r : r = [s EXCEPT ![i] = [s[i] EXCEPT !.under = c]]
  OBVIOUS
<1>9. PICK R : R = toggleThreadExpand(L, i, C)
  OBVIOUS
<1>10. R = [source |-> L.source, label |-> L.label, rows |-> r, expanded |-> D,
            drained |-> L.drained, skew |-> L.skew]
  <2>1. R = [L EXCEPT !.rows = r, !.expanded = D]
    <3>1. CASE t \in E
      <4>1. R = [L EXCEPT !.rows[i].under = <<>>, !.expanded = @ \ {t}]
        BY <1>2, <1>5, <1>9, <3>1 DEF toggleThreadExpand, Thread
      <4> QED BY <1>1, <1>2, <1>4, <1>6, <1>7, <1>8, <3>1, <4>1 DEF Lists, ListRows
    <3>2. CASE t \notin E
      <4>1. R = [L EXCEPT !.rows[i].under = Children(s[i], C) \o @, !.expanded = @ \cup {t}]
        BY <1>2, <1>5, <1>9, <3>2 DEF toggleThreadExpand, Thread
      <4> QED BY <1>1, <1>2, <1>4, <1>6, <1>7, <1>8, <3>2, <4>1 DEF Lists, ListRows
    <3> QED BY <3>1, <3>2
  <2> QED BY <1>1, <2>1 DEF Lists
<1>11. /\ r[i] \in ListRows /\ r[i].id = s[i].id /\ r[i].count = s[i].count /\ r[i].under = c
       /\ DOMAIN r = DOMAIN s /\ \A j \in DOMAIN s : j # i => r[j] = s[j]
  <2>1. r[i] = [s[i] EXCEPT !.under = c] /\ DOMAIN r = DOMAIN s
        /\ \A j \in DOMAIN s : j # i => r[j] = s[j]
    BY <1>4, <1>8
  <2>2. s[i] \in ListRows
    BY <1>4
  <2> QED BY <2>1, <2>2 DEF ListRows
<1>12. r \in Seq(ListRows) /\ Len(r) = Len(s)
  <2>1. r \in [1 .. Len(s) -> ListRows]
    BY <1>4, <1>8, <1>11
  <2> QED BY <1>4, <2>1
<1>13. /\ R \in Lists /\ R.source = L.source /\ R.label = L.label /\ R.skew = L.skew
       /\ R.rows = r /\ R.expanded = D /\ R.drained = L.drained
       /\ (Paged(R) <=> Paged(L)) /\ (Paged(R) => R.label \in Labels)
  BY <1>1, <1>10, <1>12 DEF Lists, Paged
<1>14. Listing(R, a, C) = F
  BY <1>3, <1>13 DEF Listing
<1>15. ASSUME ~L.skew
       PROVE  Fits(R, a, C)
  <2>1. Matches(s, F) /\ Blocks(s, E, C) /\ (L.drained /\ Paged(L) => Len(s) = Len(F))
    BY <1>1, <1>2, <1>3, <1>15 DEF Fits
  <2>2. \A j \in DOMAIN s : r[j].id = s[j].id /\ r[j].count = s[j].count
    BY <1>11
  <2>3. Matches(r, F)
    BY <1>4, <1>11, <1>12, <2>1, <2>2 DEF Matches
  <2>4. \A j \in DOMAIN s : j # i => Thread(s[j]) # t
    <3>1. \A j, k \in DOMAIN F : Thread(F[j]) = Thread(F[k]) => j = k
      BY <1>1, <1>3, ListingLists DEF Lists
    <3> QED BY <1>4, <1>5, <2>1, <3>1, RowsDistinct
  <2>5. \A j \in DOMAIN s : /\ Thread(r[j]) = Thread(s[j]) /\ Children(r[j], C) = Children(s[j], C)
                            /\ (Expandable(r[j]) <=> Expandable(s[j]))
    BY <2>2 DEF Thread, Children, Expandable
  <2>6. \A j \in DOMAIN s : j # i => (OpenIn(r[j], D) <=> OpenIn(s[j], E))
    BY <1>6, <2>4, <2>5 DEF OpenIn
  <2>7. OpenIn(r[i], D) <=> t \notin E
    BY <1>4, <1>5, <1>6, <2>5 DEF OpenIn
  <2>8. r[i].under = IF OpenIn(r[i], D) THEN Children(r[i], C) ELSE <<>>
    <3>1. CASE t \in E
      BY <1>7, <1>11, <2>7, <3>1
    <3>2. CASE t \notin E
      <4>1. s[i].under = <<>>
        BY <1>4, <1>5, <2>1, <3>2 DEF Blocks, OpenIn
      <4>2. Children(s[i], C) \in Seq(Ids)
        BY <1>4, ChildrenTypes
      <4>3. Children(s[i], C) \o <<>> = Children(s[i], C)
        BY <4>2
      <4> QED BY <1>4, <1>7, <1>11, <2>5, <2>7, <3>2, <4>1, <4>3
    <3> QED BY <3>1, <3>2
  <2>9. \A j \in DOMAIN r : r[j].under = IF OpenIn(r[j], D) THEN Children(r[j], C) ELSE <<>>
    <3>1. \A j \in DOMAIN s : j # i =>
              r[j].under = IF OpenIn(r[j], D) THEN Children(r[j], C) ELSE <<>>
      BY <1>11, <2>1, <2>6 DEF Blocks
    <3> QED BY <1>11, <2>8, <3>1
  <2>10. \A u \in D : \E j \in DOMAIN r : OpenIn(r[j], D) /\ Thread(r[j]) = u
    <3> SUFFICES ASSUME NEW u \in D
                 PROVE  \E j \in DOMAIN r : OpenIn(r[j], D) /\ Thread(r[j]) = u
      OBVIOUS
    <3>1. CASE u = t
      BY <1>4, <1>5, <1>6, <1>11, <2>5, <2>7, <3>1
    <3>2. CASE u # t
      <4>1. u \in E
        BY <1>6, <3>2
      <4>2. PICK j \in DOMAIN s : OpenIn(s[j], E) /\ Thread(s[j]) = u
        BY <2>1, <4>1 DEF Blocks
      <4> QED BY <1>5, <1>11, <2>5, <2>6, <3>2, <4>2
    <3> QED BY <3>1, <3>2
  <2> QED BY <1>12, <1>13, <1>14, <2>1, <2>3, <2>9, <2>10 DEF Fits, Blocks
<1> QED BY <1>9, <1>13, <1>15 DEF GoodList

-----------------------------------------------------------------------------
(* The inductive invariant: the types with the list as it should be, where it  *)
(* stands, what the footer goes by, what work it waits for, and how much of    *)
(* Gmail's mail the cache has.                                                *)

Slots == [busy: {"no", "sync", "topUp"}, label: Labels \cup {Nil, AllInboxes}, pages: Nat, from: Nat]
Steps == [label: Labels \cup {AllInboxes}, pages: Nat]

MailTypes ==
    /\ cached \in SUBSET Ids /\ missed \in SUBSET Ids /\ torn \in SUBSET Accounts
    /\ cursor \in [Accounts -> [Labels -> Nat]]
    /\ slot \in [Accounts -> Slots] /\ steps \in [Accounts -> Seq(Steps)]
    /\ \A a \in Accounts : slot[a].busy = "topUp" => slot[a].label # Nil
    /\ posted \in [Accounts -> Seq(Labels \cup {AllInboxes})]

PlaceTypes ==
    /\ account \in Accounts /\ labelId \in Labels /\ cross \in BOOLEAN
    /\ query \in BOOLEAN /\ submitted \in Accounts \cup {Nil} /\ wanted \in SUBSET Ids
    /\ memory \in [(Accounts \cup {AllInboxes}) \X Labels -> Nat]

BarTypes ==
    /\ footer \in {"None", "Loading", "NoMore"} /\ topUps \in Nat
    /\ isSyncing \in BOOLEAN /\ crossed \in BOOLEAN
    /\ exhausted \in [Labels -> Accounts \cup {Nil}]

ListTypes == MailTypes /\ PlaceTypes /\ BarTypes

\* The source and the label of the list for a place.
PlaceSource(c, l, q) ==
    IF c /\ q           THEN "None"
    ELSE IF c           THEN "CrossAccountLabel"
    ELSE IF l = AllMail THEN "AllMail"
    ELSE IF ~q          THEN "ByLabel" ELSE "BySearch"
PlaceLabel(c, l, q) == IF PlaceSource(c, l, q) \in {"None", "BySearch"} THEN Nil ELSE l

ListKept ==
    /\ GoodList(list, account, cached)
    /\ list.source = PlaceSource(cross, labelId, query)
    /\ list.label = PlaceLabel(cross, labelId, query)

FooterKept ==
    /\ footer = "NoMore" =>
          Paged(list) /\ list.drained /\ exhausted[list.label] # Nil
    /\ footer = "Loading" => topUps > 0 \/ isSyncing

\* The first n messages Gmail lists of label l are in C.
Fetched(a, l, n, C) == \A i \in DOMAIN AtGmail(a, l) : i <= n => AtGmail(a, l)[i] \in C

\* What was got, and what could not be got and the cursor may have passed.
Had == cached \cup missed

ServerKept ==
    /\ \A a \in Accounts \ torn, l \in Labels :
          /\ Fetched(a, l, cursor[a][l], Had)
          /\ exhausted[l] = a => Range(AtGmail(a, l)) \subseteq Had
    /\ \A a \in Accounts \ torn :
          slot[a].busy = "topUp" /\ slot[a].label \in Labels =>
              Fetched(a, slot[a].label, slot[a].from, Had)

\* The top-ups of label l an account has under way: that in its slot u, and those of s to go on.
Going(u, l)   == IF u.busy = "topUp" /\ u.label = l THEN 1 ELSE 0
ToGoOn(s, l)  == {i \in 1 .. Len(s) : s[i].label = l}
Waiting(s, l) == Cardinality(ToGoOn(s, l))

WorkKept ==
    LET l == sourceLabelId(list) IN
    ~crossed =>
        /\ isSyncing => slot[account].busy = "sync" /\ topUps = 0
        /\ topUps <= Going(slot[account], l) + Waiting(steps[account], l)

ListInv == ListTypes /\ ListKept /\ FooterKept /\ ServerKept /\ WorkKept

-----------------------------------------------------------------------------
(* The handlers keep the list and the footer.                              *)

LEMMA ReloadGood ==
    ASSUME NEW a, NEW c \in BOOLEAN, NEW l \in Labels, NEW q \in BOOLEAN, NEW C \in SUBSET Ids
    PROVE  LET R == reloadCurrentLabel(a, c, l, q, C)
           IN  /\ GoodList(R, a, C) /\ R.source = PlaceSource(c, l, q)
               /\ R.label = PlaceLabel(c, l, q)
<1> DEFINE src == PlaceSource(c, l, q)
           lab == PlaceLabel(c, l, q)
<1>1. src \in Sources /\ lab \in Labels \cup {Nil}
      /\ (src \in {"ByLabel", "CrossAccountLabel", "AllMail"} => lab \in Labels)
  BY DEF PlaceSource, PlaceLabel, Sources
<1>2. reloadCurrentLabel(a, c, l, q, C) = loadFirstPage(src, lab, a, C)
  BY DEF reloadCurrentLabel, PlaceSource, PlaceLabel
<1> HIDE DEF src, lab
<1>3. /\ GoodList(loadFirstPage(src, lab, a, C), a, C)
      /\ loadFirstPage(src, lab, a, C).source = src /\ loadFirstPage(src, lab, a, C).label = lab
  BY <1>1, FirstPageGood
<1> QED BY <1>2, <1>3 DEF src, lab

\* What a set of messages more or less in the cache does to a list nobody tells.
LEMMA UnannouncedGood ==
    ASSUME GoodList(list, account, cached), cached \in SUBSET Ids, NEW C \in SUBSET Ids
    PROVE  /\ GoodList(Unannounced(C), account, C)
           /\ Unannounced(C).source = list.source /\ Unannounced(C).label = list.label
           /\ Unannounced(C).drained = list.drained
<1>1. /\ list \in Lists /\ (Paged(list) => list.label \in Labels)
      /\ (~list.skew => Fits(list, account, cached))
  BY DEF GoodList
<1>2. PICK s \in Seq(ListRows), E \in SUBSET Talks : s = list.rows /\ E = list.expanded
  BY <1>1 DEF Lists
<1>3. PICK b : b = (\/ list.skew
                    \/ Listing(list, account, C) # Listing(list, account, cached)
                    \/ \E i \in DOMAIN s : /\ Mail[s[i].id].thread \in E
                                           /\ Children(s[i], C) # Children(s[i], cached))
  BY Zenon
<1>4. PICK K : K = Unannounced(C)
  BY Zenon
<1>5. K = [list EXCEPT !.skew = b]
  BY <1>2, <1>3, <1>4, Zenon DEF Unannounced
<1>6. b \in BOOLEAN
  BY <1>3, SMT
<1>7. /\ K \in Lists /\ K.source = list.source /\ K.label = list.label /\ K.drained = list.drained
      /\ K.rows = s /\ K.expanded = E /\ K.skew = b
  BY <1>1, <1>2, <1>5, <1>6 DEF Lists
<1>8. ASSUME ~K.skew
      PROVE  Fits(K, account, C)
  <2>1. /\ ~list.skew /\ Listing(list, account, C) = Listing(list, account, cached)
        /\ \A i \in DOMAIN s : Mail[s[i].id].thread \in E => Children(s[i], C) = Children(s[i], cached)
    BY <1>3, <1>7, <1>8
  <2>2. PICK F : F = Listing(list, account, C)
    BY Zenon
  <2>3. Listing(K, account, C) = F
    BY <1>7, <2>2 DEF Listing
  <2>4. Matches(s, F) /\ Blocks(s, E, cached) /\ (list.drained /\ Paged(list) => Len(s) = Len(F))
    BY <1>1, <1>2, <2>1, <2>2 DEF Fits
  <2>5. Blocks(s, E, C)
    BY <2>1, <2>4 DEF Blocks, OpenIn, Thread
  <2> QED BY <1>7, <2>3, <2>4, <2>5 DEF Fits, Paged
<1> QED BY <1>1, <1>4, <1>7, <1>8 DEF GoodList, Paged

LEMMA UpdatedGood ==
    ASSUME GoodList(list, account, cached), cached \in SUBSET Ids, NEW C \in SUBSET Ids, NEW a
    PROVE  /\ GoodList(messagesUpdated(a, C), account, C)
           /\ messagesUpdated(a, C).source = list.source /\ messagesUpdated(a, C).label = list.label
           /\ a # account => messagesUpdated(a, C).drained = list.drained
<1>1. list \in Lists /\ (Paged(list) => list.label \in Labels)
  BY DEF GoodList
<1>2. PICK L, b : L = list /\ b = account
  BY Zenon
<1>3. /\ GoodList(refreshFromSource(L, b, C), b, C) /\ refreshFromSource(L, b, C).source = L.source
      /\ refreshFromSource(L, b, C).label = L.label
  BY <1>1, <1>2, RefreshGood
<1> QED BY <1>2, <1>3, UnannouncedGood DEF messagesUpdated

LEMMA FooterShown ==
    ASSUME footer' = Footer(list', topUps', isSyncing', exhausted')
    PROVE  FooterKept' /\ footer' \in {"None", "Loading", "NoMore"}
BY DEF FooterKept, Footer

LEMMA FooterLeft ==
    ASSUME FooterKept, UNCHANGED barVars, list'.source = list.source, list'.label = list.label,
           list'.drained = list.drained
    PROVE  FooterKept'
BY DEF FooterKept, barVars, Paged

\* The list and the footer after a change of either.
Kept == ListKept' /\ FooterKept'

LEMMA FinishedKept ==
    ASSUME ListInv, NEW a, NEW C \in SUBSET Ids, NEW L, NEW s, NEW l, NEW n, NEW done,
           cached' = C, UNCHANGED placeVars, UNCHANGED query,
           GoodList(L, account, C), L.source = list.source, L.label = list.label,
           a # account => L.drained = list.drained,
           topUpFinished(a, C, L, s, l, n, done)
    PROVE  Kept
<1>1. /\ FooterKept /\ list.source = PlaceSource(cross, labelId, query)
      /\ list.label = PlaceLabel(cross, labelId, query)
  BY DEF ListInv, ListKept
<1>2. /\ GoodList(list', account, C) /\ list'.source = list.source /\ list'.label = list.label
      /\ FooterKept'
  <2>1. CASE a # account
    <3>1. list' = L /\ UNCHANGED barVars
      BY <2>1 DEF topUpFinished
    <3> QED BY <1>1, <2>1, <3>1, FooterLeft
  <2>2. CASE a = account
    <3>1. /\ \/ list' = L \/ list' = resumeAfterTopUp(L, a, C)
          /\ footer' = Footer(list', topUps', isSyncing', exhausted')
      BY <2>2 DEF topUpFinished, Shown
    <3> QED BY <2>2, <3>1, ResumeGood, FooterShown
  <2> QED BY <2>1, <2>2
<1> QED BY <1>1, <1>2 DEF Kept, ListKept, placeVars

LEMMA SyncKept ==
    ASSUME ListInv, NEW a \in Accounts, SyncBegins(a) \/ SyncEnds(a)
    PROVE  Kept
<1>1. /\ GoodList(list, account, cached) /\ FooterKept /\ cached \in SUBSET Ids
      /\ list.source = PlaceSource(cross, labelId, query)
      /\ list.label = PlaceLabel(cross, labelId, query)
  BY DEF ListInv, ListKept, ListTypes, MailTypes, PlaceTypes
<1>2. UNCHANGED <<placeVars, searchVars>>
  BY DEF SyncBegins, SyncEnds
<1>3. ASSUME SyncBegins(a)
      PROVE  GoodList(list', account, cached') /\ UNCHANGED <<list>> /\ FooterKept'
  <2>1. UNCHANGED <<cached, list>>
    BY <1>3 DEF SyncBegins, Shown
  <2>2. \/ UNCHANGED <<list, barVars>>
        \/ footer' = Footer(list', topUps', isSyncing', exhausted')
    BY <1>3 DEF SyncBegins, Shown
  <2> QED BY <1>1, <2>1, <2>2, FooterShown, FooterLeft
<1>4. ASSUME SyncEnds(a)
      PROVE  /\ GoodList(list', account, cached') /\ list'.source = list.source
             /\ list'.label = list.label /\ FooterKept'
  <2> DEFINE own == {m \in Ids : Mail[m].account = a}
             seed == IF own \cap cached = {} THEN Seeded \cap own ELSE {}
             M(S) == IF S = {} THEN list ELSE messagesUpdated(a, cached \cup S)
  <2>0. PICK S \in {{}, seed} \cup {{m} : m \in (Fresh \cap own) \ cached} :
              /\ cached' = cached \cup S
              /\ IF a = account
                 THEN Shown(M(S), topUps, StillSyncing(a), exhausted, FALSE)
                 ELSE list' = M(S) /\ UNCHANGED <<barVars, crossed>>
    BY <1>4 DEF SyncEnds
  <2>1. PICK L : /\ S \in SUBSET Ids /\ cached' = cached \cup S
                 /\ L = IF S = {} THEN list ELSE messagesUpdated(a, cached \cup S)
                 /\ IF a = account
                    THEN Shown(L, topUps, StillSyncing(a), exhausted, FALSE)
                    ELSE list' = L /\ UNCHANGED <<barVars, crossed>>
    <3>1. PICK L : L = M(S)
      BY Zenon
    <3>2. S \in SUBSET Ids
      BY MessageListAssumption
    <3> QED BY <2>0, <3>1, <3>2
  <2>2. PICK C \in SUBSET Ids : C = cached \cup S
    BY <1>1, <2>1
  <2>3. GoodList(L, account, C) /\ L.source = list.source /\ L.label = list.label
        /\ (a # account => L.drained = list.drained)
    <3>1. CASE S = {}
      BY <1>1, <2>1, <2>2, <3>1
    <3>2. CASE S # {}
      BY <1>1, <2>1, <2>2, <3>2, UpdatedGood
    <3> QED BY <3>1, <3>2
  <2>4. CASE a = account
    <3>1. list' = L /\ footer' = Footer(list', topUps', isSyncing', exhausted')
      BY <2>1, <2>4 DEF Shown
    <3> QED BY <2>1, <2>2, <2>3, <3>1, FooterShown
  <2>5. CASE a # account
    BY <1>1, <2>1, <2>2, <2>3, <2>5, FooterLeft
  <2> QED BY <2>4, <2>5
<1> QED BY <1>1, <1>2, <1>3, <1>4 DEF Kept, ListKept, placeVars, searchVars

LEMMA BegunKept ==
    ASSUME ListInv, NEW a \in Accounts, PostRuns(a) \/ tickBackgroundCrawl(a)
    PROVE  Kept
<1>1. GoodList(list, account, cached) /\ FooterKept
  BY DEF ListInv, ListKept
<1>2. UNCHANGED <<cached, placeVars, searchVars>>
  BY DEF PostRuns, tickBackgroundCrawl
<1>3. /\ UNCHANGED list
      /\ UNCHANGED barVars \/ footer' = Footer(list', topUps', isSyncing', exhausted')
  BY DEF PostRuns, tickBackgroundCrawl, topUpLabel, Shown
<1>4. FooterKept'
  BY <1>1, <1>3, FooterShown, FooterLeft
<1> QED BY <1>2, <1>3, <1>4 DEF Kept, ListInv, ListKept, placeVars, searchVars

LEMMA EndedKept ==
    ASSUME ListInv, NEW a \in Accounts, TopUpFails(a) \/ topUpLabelStep(a)
    PROVE  Kept
<1>1. GoodList(list, account, cached) /\ FooterKept /\ cached \in SUBSET Ids
  BY DEF ListInv, ListKept, ListTypes, MailTypes, PlaceTypes
<1>2. UNCHANGED <<cached, placeVars, searchVars>>
  BY DEF TopUpFails, topUpLabelStep
<1>3. PICK C, L : C \in SUBSET Ids /\ C = cached /\ L = list
  BY <1>1
<1>4. \/ \E s, l : topUpFinished(a, C, L, s, l, 0, FALSE)
      \/ UNCHANGED <<list, barVars>>
  BY <1>3 DEF TopUpFails, topUpLabelStep
<1>5. CASE UNCHANGED <<list, barVars>>
  <2>1. FooterKept'
    BY <1>1, <1>5, FooterLeft
  <2> QED BY <1>2, <1>5, <2>1 DEF Kept, ListInv, ListKept, placeVars, searchVars
<1>6. CASE \E s, l : topUpFinished(a, C, L, s, l, 0, FALSE)
  <2>1. PICK s, l : topUpFinished(a, C, L, s, l, 0, FALSE)
    BY <1>6
  <2>2. /\ cached' = C /\ UNCHANGED placeVars /\ UNCHANGED query
        /\ GoodList(L, account, C) /\ L.source = list.source /\ L.label = list.label
        /\ L.drained = list.drained
    BY <1>1, <1>2, <1>3 DEF searchVars
  <2> QED BY <1>3, <2>1, <2>2, FinishedKept
<1> QED BY <1>4, <1>5, <1>6

\* What Gmail lists are messages, and a page of it is some of them.
LEMMA GmailLists ==
    ASSUME NEW a, NEW l
    PROVE  /\ AtGmail(a, l) \in Seq(Ids)
           /\ \A i \in DOMAIN AtGmail(a, l) : Mail[AtGmail(a, l)[i]].account = a
<1>1. PICK S \in SUBSET Ids : S = {m \in Ids \ Fresh : Mail[m].account = a /\ HasLabel(m, l)}
  OBVIOUS
<1>2. AtGmail(a, l) \in Seq(S)
  BY <1>1, NewestLists DEF AtGmail
<1>3. PICK s \in Seq(S) : s = AtGmail(a, l)
  BY <1>2
<1>4. s \in Seq(Ids) /\ \A i \in DOMAIN s : s[i] \in S
  OBVIOUS
<1> QED BY <1>1, <1>3, <1>4

LEMMA LabelledAtGmail ==
    ASSUME NEW a, NEW l, NEW m \in Range(AtGmail(a, l))
    PROVE  m \in Ids /\ Mail[m].account = a /\ HasLabel(m, l)
<1>1. PICK S \in SUBSET Ids : S = {n \in Ids \ Fresh : Mail[n].account = a /\ HasLabel(n, l)}
  OBVIOUS
<1>2. PICK s \in Seq(S) : s = AtGmail(a, l)
  BY <1>1, NewestLists DEF AtGmail
<1>3. m \in S
  BY <1>2 DEF Range
<1> QED BY <1>1, <1>3

LEMMA PageIds ==
    ASSUME NEW s \in Seq(Ids), NEW n \in Nat
    PROVE  Range(Take(Drop(s, n), PageSize)) \in SUBSET Ids
<1>1. PICK p \in Seq(Ids) : p = Take(Drop(s, n), PageSize)
  BY DropProperties, TakeProperties, MessageListAssumption
<1> QED BY <1>1 DEF Range

\* What a page leaves in the cache, and of what it could not get.
LEMMA PageStored ==
    ASSUME MailTypes, NEW a \in Accounts, TopUpAnswered(a), NEW page \in SUBSET Ids,
           page = Range(Take(Drop(AtGmail(a, slot[a].label), slot[a].from), PageSize))
    PROVE  /\ cached' \in SUBSET Ids /\ missed' \in SUBSET Ids
           /\ cached \subseteq cached' /\ Had \subseteq Had' /\ page \subseteq Had'
<1>1. PICK found \in SUBSET Ids : found = page \ cached
  OBVIOUS
<1>2. \/ cached' = cached \cup found /\ missed' = missed
      \/ \E failed \in SUBSET found :
            cached' = cached \cup (found \ failed) /\ missed' = missed \cup failed
  BY <1>1 DEF TopUpAnswered
<1>3. cached \in SUBSET Ids /\ missed \in SUBSET Ids
  BY DEF MailTypes
<1>4. CASE cached' = cached \cup found /\ missed' = missed
  BY <1>1, <1>3, <1>4 DEF Had
<1>5. CASE \E failed \in SUBSET found :
             cached' = cached \cup (found \ failed) /\ missed' = missed \cup failed
  BY <1>1, <1>3, <1>5 DEF Had
<1> QED BY <1>2, <1>4, <1>5

\* What TopUpAnswered does beside storing the page: it either goes on or ends the walk.
LEMMA AnsweredMoves ==
    ASSUME NEW a \in Accounts, TopUpAnswered(a)
    PROVE  LET L == messagesUpdated(a, cached')
               s == StillSyncing(a)
               l == slot[a].label
           IN  /\ slot' = [slot EXCEPT ![a] = Free]
               /\ UNCHANGED <<posted, placeVars, searchVars, memory, torn>>
               /\ \/ /\ steps' = [steps EXCEPT ![a] = Append(@, [label |-> l, pages |-> slot[a].pages + 1])]
                     /\ \/ a = account /\ Shown(L, topUps, s, exhausted, FALSE)
                        \/ a # account /\ list' = L /\ UNCHANGED <<barVars, crossed>>
                  \/ /\ UNCHANGED steps
                     /\ \E n, done : topUpFinished(a, cached', L, s, l, n, done)
<1>1. /\ slot' = [slot EXCEPT ![a] = Free]
      /\ UNCHANGED <<posted, placeVars, searchVars, memory, torn>>
  BY DEF TopUpAnswered
<1>2. PICK L \in {messagesUpdated(a, cached')}, g \in BOOLEAN :
         \E n, done :
            IF g
            THEN /\ steps' = [steps EXCEPT ![a] =
                                 Append(@, [label |-> slot[a].label, pages |-> slot[a].pages + 1])]
                 /\ IF a = account THEN Shown(L, topUps, StillSyncing(a), exhausted, FALSE)
                    ELSE list' = L /\ UNCHANGED <<barVars, crossed>>
            ELSE /\ topUpFinished(a, cached', L, StillSyncing(a), slot[a].label, n, done)
                 /\ UNCHANGED steps
  BY Zenon DEF TopUpAnswered
<1>3. L = messagesUpdated(a, cached')
  OBVIOUS
<1> QED BY <1>1, <1>2, <1>3, Zenon

LEMMA AnsweredKept ==
    ASSUME ListInv, NEW a \in Accounts, TopUpAnswered(a)
    PROVE  Kept
<1>1. /\ GoodList(list, account, cached) /\ FooterKept /\ cached \in SUBSET Ids
      /\ list.source = PlaceSource(cross, labelId, query)
      /\ list.label = PlaceLabel(cross, labelId, query)
      /\ slot[a].from \in Nat
  BY DEF ListInv, ListKept, ListTypes, MailTypes, PlaceTypes, Slots
<1>2. UNCHANGED <<placeVars, searchVars>>
  BY DEF TopUpAnswered
<1>3. PICK l : l = slot[a].label
  BY Zenon
<1>4. PICK page \in SUBSET Ids : page = Range(Take(Drop(AtGmail(a, l), slot[a].from), PageSize))
  BY <1>1, GmailLists, PageIds
<1>5. PICK C \in SUBSET Ids : C = cached'
  <2>1. MailTypes
    BY DEF ListInv, ListTypes
  <2> QED BY <1>3, <1>4, <2>1, PageStored
<1>6. PICK L, s : L = messagesUpdated(a, C) /\ s = StillSyncing(a)
  BY Zenon
<1>7. /\ cached' = C
      /\ \/ a = account /\ Shown(L, topUps, s, exhausted, FALSE)
         \/ a # account /\ list' = L /\ UNCHANGED <<barVars, crossed>>
         \/ \E n, done : topUpFinished(a, C, L, s, l, n, done)
  BY <1>3, <1>5, <1>6, AnsweredMoves, Zenon
<1>8. GoodList(L, account, C) /\ L.source = list.source /\ L.label = list.label
      /\ (a # account => L.drained = list.drained)
  BY <1>1, <1>6, UpdatedGood
<1>9. CASE a = account /\ Shown(L, topUps, s, exhausted, FALSE)
  <2>1. list' = L /\ footer' = Footer(list', topUps', isSyncing', exhausted')
    BY <1>9 DEF Shown
  <2> QED BY <1>1, <1>2, <1>7, <1>8, <2>1, FooterShown DEF Kept, ListKept, placeVars, searchVars
<1>10. CASE a # account /\ list' = L /\ UNCHANGED <<barVars, crossed>>
  <2>1. FooterKept'
    BY <1>1, <1>8, <1>10, FooterLeft
  <2> QED BY <1>1, <1>2, <1>7, <1>8, <1>10, <2>1 DEF Kept, ListKept, placeVars, searchVars
<1>11. CASE \E n, done : topUpFinished(a, C, L, s, l, n, done)
  <2>1. PICK n, done : topUpFinished(a, C, L, s, l, n, done)
    BY <1>11
  <2>2. UNCHANGED placeVars /\ UNCHANGED query
    BY <1>2 DEF searchVars
  <2> QED BY <1>7, <1>8, <2>1, <2>2, FinishedKept
<1> QED BY <1>7, <1>9, <1>10, <1>11

LEMMA InboxLabel == Inbox \in Labels
BY Zenon DEF Labels

LEMMA MovedKept ==
    ASSUME ListInv, NEW a \in Accounts, currentAccountChanged(a)
    PROVE  Kept
<1>1. cross \in BOOLEAN /\ query \in BOOLEAN /\ Inbox \in Labels /\ cached \in SUBSET Ids
  BY InboxLabel DEF ListInv, ListTypes, MailTypes, PlaceTypes
<1>2. PICK c \in BOOLEAN, q \in BOOLEAN, C \in SUBSET Ids : c = cross /\ q = query /\ C = cached
  BY <1>1, Zenon
<1>3. PICK L : L = reloadCurrentLabel(a, c, Inbox, q, C)
  BY Zenon
<1>4. /\ GoodList(L, a, C) /\ L.source = PlaceSource(c, Inbox, q) /\ L.label = PlaceLabel(c, Inbox, q)
  BY <1>1, <1>3, ReloadGood
<1>5. /\ list' = L /\ footer' = Footer(list', topUps', isSyncing', exhausted')
      /\ account' = a /\ labelId' = Inbox /\ UNCHANGED <<cached, cross, searchVars>>
  BY <1>2, <1>3 DEF currentAccountChanged, Shown
<1> QED BY <1>2, <1>4, <1>5, FooterShown DEF Kept, ListKept, searchVars

LEMMA ClearedKept ==
    ASSUME ListInv, NEW a \in Accounts, cacheCleared(a)
    PROVE  Kept
<1>1. /\ cross \in BOOLEAN /\ query \in BOOLEAN /\ labelId \in Labels /\ cached \in SUBSET Ids
      /\ GoodList(list, account, cached) /\ FooterKept
      /\ list.source = PlaceSource(cross, labelId, query)
      /\ list.label = PlaceLabel(cross, labelId, query)
  BY DEF ListInv, ListTypes, MailTypes, PlaceTypes, ListKept
<1>2. PICK C \in SUBSET Ids : C = {m \in cached : Mail[m].account # a}
  BY <1>1
<1>3. cached' = C /\ UNCHANGED <<placeVars, searchVars>>
  BY <1>2 DEF cacheCleared
<1>4. CASE a = account
  <2>0. PICK c \in BOOLEAN, l \in Labels, q \in BOOLEAN : c = cross /\ l = labelId /\ q = query
    BY <1>1, Zenon
  <2>1. PICK L : L = reloadCurrentLabel(a, c, l, q, C)
    BY Zenon
  <2>2. GoodList(L, a, C) /\ L.source = PlaceSource(c, l, q) /\ L.label = PlaceLabel(c, l, q)
    BY <2>1, ReloadGood
  <2>3. list' = L /\ footer' = Footer(list', topUps', isSyncing', exhausted')
    BY <1>2, <1>4, <2>0, <2>1 DEF cacheCleared, Shown
  <2> QED BY <1>3, <1>4, <2>0, <2>1, <2>2, <2>3, FooterShown DEF Kept, ListKept, placeVars, searchVars
<1>5. CASE a # account
  <2>1. list' = Unannounced(C) /\ UNCHANGED barVars
    BY <1>2, <1>5 DEF cacheCleared
  <2>2. FooterKept'
    BY <1>1, <2>1, UnannouncedGood, FooterLeft
  <2> QED BY <1>1, <1>3, <2>1, <2>2, UnannouncedGood DEF Kept, ListKept, placeVars, searchVars
<1> QED BY <1>4, <1>5

LEMMA SearchKept ==
    ASSUME ListInv, onSearchChanged \/ onSearchSubmit \/ SearchAnswered
    PROVE  Kept
<1>1. /\ cross \in BOOLEAN /\ query \in BOOLEAN /\ labelId \in Labels /\ cached \in SUBSET Ids
      /\ FooterKept /\ ListKept
  BY DEF ListInv, ListTypes, MailTypes, PlaceTypes
<1>2. UNCHANGED <<cached, placeVars>>
  BY DEF onSearchChanged, onSearchSubmit, SearchAnswered
<1>3. \/ UNCHANGED <<query, list, barVars>>
      \/ /\ query' \in BOOLEAN
         /\ list' = reloadCurrentLabel(account, cross, labelId, query', cached)
         /\ footer' = Footer(list', topUps', isSyncing', exhausted')
  BY <1>1 DEF onSearchChanged, onSearchSubmit, SearchAnswered, Shown
<1>4. CASE UNCHANGED <<query, list, barVars>>
  <2>1. FooterKept'
    BY <1>1, <1>4, FooterLeft
  <2> QED BY <1>1, <1>2, <1>4, <2>1 DEF Kept, ListKept, placeVars
<1>5. CASE /\ query' \in BOOLEAN
           /\ list' = reloadCurrentLabel(account, cross, labelId, query', cached)
           /\ footer' = Footer(list', topUps', isSyncing', exhausted')
  <2>0. PICK a : a = account
    BY Zenon
  <2>1. PICK c \in BOOLEAN, l \in Labels, C \in SUBSET Ids : c = cross /\ l = labelId /\ C = cached
    BY <1>1, Zenon
  <2>2. PICK q, L : q \in BOOLEAN /\ q = query' /\ L = reloadCurrentLabel(a, c, l, q, C)
    BY <1>5, Zenon
  <2>3. GoodList(L, a, C) /\ L.source = PlaceSource(c, l, q) /\ L.label = PlaceLabel(c, l, q)
    BY <2>2, ReloadGood
  <2>4. list' = L
    BY <1>5, <2>0, <2>1, <2>2
  <2> QED BY <1>2, <1>5, <2>0, <2>1, <2>2, <2>3, <2>4, FooterShown DEF Kept, ListKept, placeVars
<1> QED BY <1>3, <1>4, <1>5

LEMMA RowsKept ==
    ASSUME ListInv, (\E m \in Ids : HitArrives(m)) \/ fetchesFromView \/ scrolledToEnd \/ chevronClicked
    PROVE  Kept
<1>1. /\ GoodList(list, account, cached) /\ FooterKept /\ cached \in SUBSET Ids
      /\ list.source = PlaceSource(cross, labelId, query)
      /\ list.label = PlaceLabel(cross, labelId, query)
  BY DEF ListInv, ListTypes, MailTypes, PlaceTypes, ListKept
<1>2. UNCHANGED <<query, placeVars>>
  BY DEF HitArrives, fetchesFromView, scrolledToEnd, chevronClicked, searchVars
<1>3. ASSUME NEW m \in Ids, HitArrives(m)
      PROVE  Kept
  <2>1. PICK C \in SUBSET Ids : C = cached'
    BY <1>1, <1>3 DEF HitArrives
  <2>2. list' = Unannounced(C) /\ UNCHANGED barVars
    BY <1>3, <2>1 DEF HitArrives
  <2>3. FooterKept'
    BY <1>1, <2>2, UnannouncedGood, FooterLeft
  <2> QED BY <1>1, <1>2, <2>1, <2>2, <2>3, UnannouncedGood DEF Kept, ListKept, placeVars
<1>4. ASSUME fetchesFromView
      PROVE  Kept
  <2>0. PICK C \in SUBSET Ids : C = cached
    BY <1>1, Zenon
  <2>1. PICK L, a : L = list /\ a = account
    BY Zenon
  <2>2. PICK R : R = fetchMore(L, a, C)
    BY Zenon
  <2>3. GoodList(R, a, C) /\ R.source = L.source /\ R.label = L.label
    <3>1. PageSize \in Nat /\ GoodList(L, a, C)
      BY <1>1, <2>0, <2>1, MessageListAssumption
    <3>2. R = fetched(L, PageSize, a, C)
      BY <2>2 DEF fetchMore
    <3> QED BY <3>1, <3>2, FetchedGood
  <2>4. /\ list' = R /\ UNCHANGED cached /\ ~list.drained
        /\ \/ footer' = Footer(list', topUps', isSyncing', exhausted')
           \/ ~R.drained /\ UNCHANGED barVars
    BY <1>4, <2>0, <2>1, <2>2 DEF fetchesFromView, Shown
  <2>5. FooterKept'
    <3>1. CASE ~R.drained /\ UNCHANGED barVars
      BY <1>1, <2>4, <3>1 DEF FooterKept, barVars
    <3> QED BY <2>4, <3>1, FooterShown
  <2> QED BY <1>1, <1>2, <2>0, <2>1, <2>3, <2>4, <2>5 DEF Kept, ListKept, placeVars
<1>5. ASSUME scrolledToEnd
      PROVE  Kept
  <2>1. UNCHANGED <<list, cached, barVars>>
    BY <1>5 DEF scrolledToEnd
  <2>2. FooterKept'
    BY <1>1, <2>1, FooterLeft
  <2> QED BY <1>1, <1>2, <2>1, <2>2 DEF Kept, ListKept, placeVars
<1>6. ASSUME chevronClicked
      PROVE  Kept
  <2>0. PICK C \in SUBSET Ids : C = cached
    BY <1>1, Zenon
  <2>1. PICK L, a : L = list /\ a = account
    BY Zenon
  <2>2. PICK i \in DOMAIN L.rows : Expandable(L.rows[i]) /\ list' = toggleThreadExpand(L, i, C)
    BY <1>6, <2>0, <2>1 DEF chevronClicked
  <2>3. PICK R : R = toggleThreadExpand(L, i, C)
    BY Zenon
  <2>4. GoodList(R, a, C) /\ R.source = L.source /\ R.label = L.label /\ R.drained = L.drained
    BY <1>1, <2>0, <2>1, <2>2, <2>3, ToggleGood
  <2>5. list' = R /\ UNCHANGED <<cached, barVars>>
    BY <1>6, <2>2, <2>3 DEF chevronClicked
  <2>6. FooterKept'
    BY <1>1, <2>1, <2>4, <2>5, FooterLeft
  <2> QED BY <1>1, <1>2, <2>0, <2>1, <2>4, <2>5, <2>6 DEF Kept, ListKept, placeVars
<1> QED BY <1>3, <1>4, <1>5, <1>6

\* The rows of a list and its footer are counted.
LEMMA RowsCounted ==
    ASSUME NEW L \in Lists, NEW f
    PROVE  RowCount(L, f) \in Nat
BY PlacesCounted DEF RowCount

\* A label chosen: where the list then is, where it comes from, what is remembered and asked for.
Chosen(a, id, c, l) ==
    /\ c = (id = AllInboxes) /\ l = IF c THEN Inbox ELSE id
    /\ account' = a /\ labelId' = l /\ cross' = c
    /\ memory' \in [(Accounts \cup {AllInboxes}) \X Labels -> Nat]
    /\ UNCHANGED <<cached, serviceVars, searchVars, torn, missed>>
    /\ \/ /\ a # account /\ l = Inbox
          /\ Shown(reloadCurrentLabel(a, c, l, query, cached), topUps, isSyncing, exhausted, TRUE)
          /\ UNCHANGED posted
       \/ /\ \E n \in Nat : \E f :
                Shown(restoreLabelScrollState(reloadCurrentLabel(a, c, l, query, cached), f, n, a),
                      0, isSyncing, exhausted, a # account)
          /\ \/ UNCHANGED posted
             \/ posted' = [posted EXCEPT ![a] = Append(@, id)]

LEMMA LabelChosen ==
    ASSUME ListInv, NEW a \in Accounts, NEW id \in Labels \cup {AllInboxes}, onLabelSelected(a, id)
    PROVE  \E c \in BOOLEAN, l \in Labels : Chosen(a, id, c, l)
<1>1. /\ cached \in SUBSET Ids /\ query \in BOOLEAN /\ list \in Lists /\ labelId \in Labels
      /\ memory \in [(Accounts \cup {AllInboxes}) \X Labels -> Nat]
  BY DEF ListInv, ListTypes, MailTypes, PlaceTypes, ListKept, GoodList
<1>2. PICK c \in BOOLEAN : c = (id = AllInboxes)
  <2>1. (id = AllInboxes) \in BOOLEAN
    BY SMT
  <2> QED BY <2>1, Zenon
<1>3. PICK l \in Labels : l = IF c THEN Inbox ELSE id
  BY <1>2, InboxLabel
<1>4. PICK q \in BOOLEAN, C \in SUBSET Ids : q = query /\ C = cached
  BY <1>1, Zenon
<1>5. PICK L1 : L1 = IF a = account THEN list ELSE reloadCurrentLabel(a, c, Inbox, q, C)
  BY Zenon
<1>6. PICK l1 \in Labels : l1 = IF a = account THEN labelId ELSE Inbox
  BY <1>1, InboxLabel
<1>7. PICK f1 : f1 = IF a = account THEN footer ELSE Footer(L1, topUps, isSyncing, exhausted)
  BY Zenon
<1>8. PICK k \in (Accounts \cup {AllInboxes}) \X Labels : k = labelScrollKey(a, l1, c)
  BY DEF labelScrollKey
<1>9. PICK k2 \in (Accounts \cup {AllInboxes}) \X Labels : k2 = labelScrollKey(a, l, c)
  BY DEF labelScrollKey
<1>10. L1 \in Lists
  <2>1. GoodList(reloadCurrentLabel(a, c, Inbox, q, C), a, C)
    BY InboxLabel, ReloadGood
  <2> QED BY <1>1, <1>5, <2>1 DEF GoodList
<1>11. PICK m \in [(Accounts \cup {AllInboxes}) \X Labels -> Nat] :
          m = [memory EXCEPT ![k] = RowCount(L1, f1)]
  BY <1>1, <1>10, RowsCounted
<1>12. PICK L2, f2 : L2 = reloadCurrentLabel(a, c, l, q, C) /\ f2 = Footer(L2, 0, isSyncing, exhausted)
  BY Zenon
<1>13. /\ account' = a /\ labelId' = l /\ cross' = c
       /\ UNCHANGED <<cached, serviceVars, searchVars, torn, missed>>
       /\ \/ /\ a # account /\ l = l1 /\ Shown(L1, topUps, isSyncing, exhausted, TRUE)
             /\ UNCHANGED <<memory, posted>>
          \/ /\ memory' = m
             /\ Shown(restoreLabelScrollState(L2, f2, m[k2], a), 0, isSyncing, exhausted, a # account)
             /\ posted' = IF query THEN posted ELSE [posted EXCEPT ![a] = Append(@, id)]
  BY <1>2, <1>3, <1>4, <1>5, <1>6, <1>7, <1>8, <1>9, <1>11, <1>12 DEF onLabelSelected
<1>14. m[k2] \in Nat
  BY <1>9, <1>11
<1>15. CASE a # account /\ l = l1 /\ Shown(L1, topUps, isSyncing, exhausted, TRUE)
            /\ UNCHANGED <<memory, posted>>
  <2>1. l = Inbox /\ L1 = reloadCurrentLabel(a, c, l, query, cached)
    BY <1>4, <1>5, <1>6, <1>15
  <2>2. Shown(reloadCurrentLabel(a, c, l, query, cached), topUps, isSyncing, exhausted, TRUE)
    BY <1>15, <2>1
  <2>3. memory' \in [(Accounts \cup {AllInboxes}) \X Labels -> Nat]
    BY <1>1, <1>15
  <2> QED BY <1>2, <1>3, <1>13, <1>15, <2>1, <2>2, <2>3 DEF Chosen
<1>16. CASE /\ memory' = m
            /\ Shown(restoreLabelScrollState(L2, f2, m[k2], a), 0, isSyncing, exhausted, a # account)
            /\ posted' = IF query THEN posted ELSE [posted EXCEPT ![a] = Append(@, id)]
  <2>1. PICK n \in Nat : n = m[k2]
    BY <1>14
  <2>2. Shown(restoreLabelScrollState(reloadCurrentLabel(a, c, l, query, cached), f2, n, a),
              0, isSyncing, exhausted, a # account)
    BY <1>4, <1>12, <1>16, <2>1
  <2>3. memory' \in [(Accounts \cup {AllInboxes}) \X Labels -> Nat]
    BY <1>11, <1>16
  <2>4. UNCHANGED posted \/ posted' = [posted EXCEPT ![a] = Append(@, id)]
    BY <1>16
  <2> QED BY <1>2, <1>3, <1>13, <2>2, <2>3, <2>4 DEF Chosen
<1> QED BY <1>13, <1>15, <1>16

LEMMA ChosenKept ==
    ASSUME ListInv, NEW a \in Accounts, NEW id \in Labels \cup {AllInboxes}, onLabelSelected(a, id)
    PROVE  Kept
<1>1. cached \in SUBSET Ids /\ query \in BOOLEAN
  BY DEF ListInv, ListTypes, MailTypes, PlaceTypes
<1>2. PICK q \in BOOLEAN, C \in SUBSET Ids : q = query /\ C = cached
  BY <1>1, Zenon
<1>3. PICK c \in BOOLEAN, l \in Labels :
          /\ account' = a /\ labelId' = l /\ cross' = c
          /\ UNCHANGED <<cached, serviceVars, searchVars, torn, missed>>
          /\ \/ Shown(reloadCurrentLabel(a, c, l, query, cached), topUps, isSyncing, exhausted, TRUE)
             \/ \E n \in Nat : \E f :
                    Shown(restoreLabelScrollState(reloadCurrentLabel(a, c, l, query, cached), f, n, a),
                          0, isSyncing, exhausted, a # account)
  <2>1. PICK c \in BOOLEAN, l \in Labels : Chosen(a, id, c, l)
    BY LabelChosen, Zenon
  <2> QED BY <2>1, Zenon DEF Chosen
<1>4. PICK L : L = reloadCurrentLabel(a, c, l, q, C)
  BY Zenon
<1>5. GoodList(L, a, C) /\ L.source = PlaceSource(c, l, q) /\ L.label = PlaceLabel(c, l, q)
  BY <1>4, ReloadGood
<1>6. /\ footer' = Footer(list', topUps', isSyncing', exhausted')
      /\ \/ list' = L
         \/ \E n \in Nat : list' = expandLoadedRows(L, n, a, C)
  <2>1. CASE Shown(reloadCurrentLabel(a, c, l, query, cached), topUps, isSyncing, exhausted, TRUE)
    BY <1>2, <1>4, <2>1 DEF Shown
  <2>2. CASE \E n \in Nat : \E f :
                 Shown(restoreLabelScrollState(reloadCurrentLabel(a, c, l, query, cached), f, n, a),
                       0, isSyncing, exhausted, a # account)
    <3> QED BY <1>2, <1>4, <2>2 DEF Shown, restoreLabelScrollState
  <2> QED BY <1>3, <2>1, <2>2
<1>7. GoodList(list', a, C) /\ list'.source = L.source /\ list'.label = L.label
  BY <1>5, <1>6, ExpandGood
<1> QED BY <1>2, <1>3, <1>5, <1>6, <1>7, FooterShown DEF Kept, ListKept, searchVars

-----------------------------------------------------------------------------
(* The types.                                                              *)

\* What a handler does to the footer and what it goes by.
BarStep ==
    \/ UNCHANGED <<barVars, crossed>>
    \/ \E L, c : \E t \in Nat, s \in BOOLEAN, x \in [Labels -> Accounts \cup {Nil}] :
           Shown(L, t, s, x, c)

LEMMA BarKept ==
    ASSUME BarTypes, BarStep
    PROVE  BarTypes'
<1>1. CASE UNCHANGED <<barVars, crossed>>
  BY <1>1 DEF BarTypes, barVars
<1>2. CASE \E L, c : \E t \in Nat, s \in BOOLEAN, x \in [Labels -> Accounts \cup {Nil}] :
               Shown(L, t, s, x, c)
  <2>0. PICK L, c : \E t \in Nat, s \in BOOLEAN, x \in [Labels -> Accounts \cup {Nil}] :
            Shown(L, t, s, x, c)
    BY <1>2, Zenon
  <2>1. PICK t \in Nat, s \in BOOLEAN, x \in [Labels -> Accounts \cup {Nil}] : Shown(L, t, s, x, c)
    BY <2>0, Zenon
  <2>2. /\ footer' = Footer(list', t, s, x) /\ topUps' = t /\ isSyncing' = s /\ exhausted' = x
        /\ crossed' = ((crossed \/ c) /\ (t > 0 \/ s))
    BY <2>1 DEF Shown
  <2>3. ((crossed \/ c) /\ (t > 0 \/ s)) \in BOOLEAN
    BY SMT
  <2>4. footer' \in {"None", "Loading", "NoMore"}
    BY <2>2 DEF Footer
  <2> QED BY <2>2, <2>3, <2>4 DEF BarTypes
<1> QED BY <1>1, <1>2 DEF BarStep

LEMMA SyncingTypes ==
    ASSUME isSyncing \in BOOLEAN, NEW a
    PROVE  StillSyncing(a) \in BOOLEAN
BY SMT DEF StillSyncing

LEMMA FinishedBar ==
    ASSUME BarTypes, NEW a \in Accounts, NEW C, NEW L, NEW s \in BOOLEAN, NEW l, NEW n, NEW done,
           topUpFinished(a, C, L, s, l, n, done)
    PROVE  BarStep
<1>1. CASE a # account
  BY <1>1 DEF topUpFinished, BarStep
<1>2. CASE a = account
  <2>1. PICK M, t, x : /\ Shown(M, t, s, x, FALSE)
                       /\ x = IF l \in Labels THEN [exhausted EXCEPT ![l] = IF done THEN a ELSE Nil]
                              ELSE exhausted
                       /\ t = topUps \/ (topUps > 0 /\ t = topUps - 1)
    BY <1>2 DEF topUpFinished
  <2>2. t \in Nat
    BY <2>1 DEF BarTypes
  <2>3. x \in [Labels -> Accounts \cup {Nil}]
    BY <2>1 DEF BarTypes
  <2>4. Shown(M, t, s, x, FALSE)
    BY <2>1
  <2> QED BY <2>2, <2>3, <2>4, Zenon DEF BarStep
<1> QED BY <1>1, <1>2

LEMMA ListedTypes ==
    ASSUME MailTypes, NEW a \in Accounts, NEW l \in Labels \cup {AllInboxes}, NEW n \in Nat
    PROVE  /\ Listed(a, l, n) \in Slots /\ Listed(a, l, n).busy = "topUp"
           /\ Listed(a, l, n).label = l /\ l # Nil
           /\ l \in Labels => Listed(a, l, n).from = cursor[a][l]
<1>1. l \in Labels => cursor[a][l] \in Nat
  BY DEF MailTypes
<1>2. l # Nil
  BY MessageListAssumption DEF Nil, AllInboxes
<1> QED BY <1>1, <1>2 DEF Listed, Slots

LEMMA FreeTypes ==
    /\ Free \in Slots /\ Free.busy = "no"
    /\ [Free EXCEPT !.busy = "sync"] \in Slots /\ [Free EXCEPT !.busy = "sync"].busy = "sync"
BY DEF Free, Slots

\* The slot of an account taken or given up.
LEMMA SlotTypes ==
    ASSUME MailTypes, NEW a \in Accounts, NEW u \in Slots, u.busy = "topUp" => u.label # Nil,
           slot' = [slot EXCEPT ![a] = u]
    PROVE  /\ slot' \in [Accounts -> Slots]
           /\ \A b \in Accounts : slot'[b].busy = "topUp" => slot'[b].label # Nil
BY DEF MailTypes

LEMMA SyncTypes ==
    ASSUME ListInv, NEW a \in Accounts, SyncBegins(a) \/ SyncEnds(a)
    PROVE  ListTypes'
<1>1. MailTypes /\ PlaceTypes /\ BarTypes
  BY DEF ListInv, ListTypes
<1>2. /\ UNCHANGED <<cursor, steps, posted, placeVars, searchVars, memory, torn, missed>>
      /\ \/ slot' = [slot EXCEPT ![a] = Free]
         \/ slot' = [slot EXCEPT ![a] = [Free EXCEPT !.busy = "sync"]]
  BY DEF SyncBegins, SyncEnds
<1>3. /\ slot' \in [Accounts -> Slots]
      /\ \A b \in Accounts : slot'[b].busy = "topUp" => slot'[b].label # Nil
  BY <1>1, <1>2, FreeTypes, SlotTypes
<1>4. cached' \in SUBSET Ids
  <2>1. cached \in SUBSET Ids
    BY <1>1 DEF MailTypes
  <2>2. SyncBegins(a) => UNCHANGED cached
    BY DEF SyncBegins
  <2>3. ASSUME SyncEnds(a)
        PROVE  cached' \in SUBSET Ids
    <3>1. PICK own \in SUBSET Ids : own = {m \in Ids : Mail[m].account = a}
      OBVIOUS
    <3>2. PICK seed \in SUBSET Ids : seed = IF own \cap cached = {} THEN Seeded \cap own ELSE {}
      OBVIOUS
    <3>3. \E S \in {{}, seed} \cup {{m} : m \in (Fresh \cap own) \ cached} : cached' = cached \cup S
      BY <2>3, <3>1, <3>2 DEF SyncEnds
    <3> QED BY <2>1, <3>3
  <2> QED BY <2>1, <2>2, <2>3
<1>5. BarStep
  <2>1. topUps \in Nat /\ StillSyncing(a) \in BOOLEAN /\ exhausted \in [Labels -> Accounts \cup {Nil}]
    BY <1>1, SyncingTypes DEF BarTypes
  <2>2. PICK t \in Nat, s \in BOOLEAN, x \in [Labels -> Accounts \cup {Nil}] :
            t = topUps /\ s = StillSyncing(a) /\ x = exhausted
    BY <2>1, Zenon
  <2>3. \/ UNCHANGED <<barVars, crossed>>
        \/ \E L, c : Shown(L, t, TRUE, x, c)
        \/ \E L, c : Shown(L, t, s, x, c)
    <3>1. CASE SyncBegins(a)
      BY <2>2, <3>1 DEF SyncBegins
    <3>2. CASE SyncEnds(a)
      BY <2>2, <3>2 DEF SyncEnds
    <3> QED BY <3>1, <3>2
  <2> QED BY <2>3, Zenon DEF BarStep
<1>6. MailTypes' /\ PlaceTypes'
  BY <1>1, <1>2, <1>3, <1>4 DEF MailTypes, PlaceTypes, placeVars, searchVars
<1> QED BY <1>1, <1>5, <1>6, BarKept DEF ListTypes

\* A top-up begun.
LEMMA BegunBar ==
    ASSUME BarTypes, NEW a, NEW l, topUpLabel(a, l)
    PROVE  BarStep
<1>1. topUps + 1 \in Nat /\ isSyncing \in BOOLEAN /\ exhausted \in [Labels -> Accounts \cup {Nil}]
  BY DEF BarTypes
<1>2. UNCHANGED <<barVars, crossed>> \/ Shown(list, topUps + 1, isSyncing, exhausted, FALSE)
  BY DEF topUpLabel
<1> QED BY <1>1, <1>2, Zenon DEF BarStep

LEMMA BegunTypes ==
    ASSUME ListInv, NEW a \in Accounts, PostRuns(a) \/ tickBackgroundCrawl(a)
    PROVE  ListTypes'
<1>1. MailTypes /\ PlaceTypes /\ BarTypes
  BY DEF ListInv, ListTypes
<1>2. UNCHANGED <<cached, cursor, steps, placeVars, searchVars, memory, torn, missed>>
  BY DEF PostRuns, tickBackgroundCrawl
<1>3. posted' \in [Accounts -> Seq(Labels \cup {AllInboxes})]
  <2>1. CASE PostRuns(a)
    <3>1. PICK s \in Seq(Labels \cup {AllInboxes}) : s = posted[a] /\ s # <<>>
      BY <1>1, <2>1 DEF MailTypes, PostRuns
    <3>2. Tail(s) \in Seq(Labels \cup {AllInboxes})
      BY <3>1
    <3>3. posted' = [posted EXCEPT ![a] = Tail(s)]
      BY <2>1, <3>1 DEF PostRuns
    <3> QED BY <1>1, <3>2, <3>3 DEF MailTypes
  <2>2. CASE tickBackgroundCrawl(a)
    BY <1>1, <2>2 DEF MailTypes, tickBackgroundCrawl
  <2> QED BY <2>1, <2>2
<1>4. UNCHANGED <<slot, barVars, crossed>> \/ \E l \in Labels \cup {AllInboxes} : topUpLabel(a, l)
  <2>1. CASE PostRuns(a)
    <3>1. Head(posted[a]) \in Labels \cup {AllInboxes}
      <4>1. PICK s \in Seq(Labels \cup {AllInboxes}) : s = posted[a] /\ s # <<>>
        BY <1>1, <2>1 DEF MailTypes, PostRuns
      <4> QED BY <4>1
    <3>2. UNCHANGED <<slot, barVars, crossed>> \/ topUpLabel(a, Head(posted[a]))
      BY <2>1 DEF PostRuns
    <3> QED BY <3>1, <3>2, Zenon
  <2>2. CASE tickBackgroundCrawl(a)
    BY <2>2 DEF tickBackgroundCrawl
  <2> QED BY <2>1, <2>2
<1>5. CASE UNCHANGED <<slot, barVars, crossed>>
  <2>1. BarStep
    BY <1>5 DEF BarStep
  <2>2. MailTypes' /\ PlaceTypes'
    BY <1>1, <1>2, <1>3, <1>5 DEF MailTypes, PlaceTypes, placeVars, searchVars
  <2> QED BY <1>1, <2>1, <2>2, BarKept DEF ListTypes
<1>6. CASE \E l \in Labels \cup {AllInboxes} : topUpLabel(a, l)
  <2>1. PICK l \in Labels \cup {AllInboxes} : topUpLabel(a, l)
    BY <1>6
  <2>2. BarStep
    BY <1>1, <2>1, BegunBar
  <2>3. PICK u \in Slots : u = Listed(a, l, 0) /\ u.label # Nil
    BY <1>1, ListedTypes
  <2>4. slot' = [slot EXCEPT ![a] = u]
    BY <2>1, <2>3 DEF topUpLabel
  <2>5. /\ slot' \in [Accounts -> Slots]
        /\ \A b \in Accounts : slot'[b].busy = "topUp" => slot'[b].label # Nil
    BY <1>1, <2>3, <2>4, SlotTypes
  <2>6. MailTypes' /\ PlaceTypes'
    BY <1>1, <1>2, <1>3, <2>5 DEF MailTypes, PlaceTypes, placeVars, searchVars
  <2> QED BY <1>1, <2>2, <2>6, BarKept DEF ListTypes
<1> QED BY <1>4, <1>5, <1>6

\* The other variables after a top-up's end, with the cursor of one label moved.
LEMMA CursorTypes ==
    ASSUME MailTypes, NEW a \in Accounts, NEW l \in Labels, NEW n \in Nat,
           cursor' = [cursor EXCEPT ![a][l] = n]
    PROVE  cursor' \in [Accounts -> [Labels -> Nat]]
BY DEF MailTypes

LEMMA StepsTypes ==
    ASSUME MailTypes, NEW a \in Accounts
    PROVE  /\ steps' = [steps EXCEPT ![a] = Tail(@)] /\ steps[a] # <<>>
                  => steps' \in [Accounts -> Seq(Steps)] /\ Head(steps[a]) \in Steps
           /\ \A q \in Steps : steps' = [steps EXCEPT ![a] = Append(@, q)]
                  => steps' \in [Accounts -> Seq(Steps)]
<1>1. PICK s \in Seq(Steps) : s = steps[a]
  BY DEF MailTypes
<1>2. steps \in [Accounts -> Seq(Steps)]
  BY DEF MailTypes
<1>3. s # <<>> => Tail(s) \in Seq(Steps) /\ Head(s) \in Steps
  OBVIOUS
<1>4. \A q \in Steps : Append(s, q) \in Seq(Steps)
  OBVIOUS
<1> QED BY <1>1, <1>2, <1>3, <1>4

LEMMA FailedTypes ==
    ASSUME ListInv, NEW a \in Accounts, TopUpFails(a)
    PROVE  ListTypes'
<1>1. MailTypes /\ PlaceTypes /\ BarTypes
  BY DEF ListInv, ListTypes
<1>2. /\ UNCHANGED <<cached, steps, posted, placeVars, searchVars, memory, torn, missed>>
      /\ slot' = [slot EXCEPT ![a] = Free]
  BY DEF TopUpFails
<1>3. /\ slot' \in [Accounts -> Slots]
      /\ \A b \in Accounts : slot'[b].busy = "topUp" => slot'[b].label # Nil
  BY <1>1, <1>2, FreeTypes, SlotTypes
<1>4. cursor' \in [Accounts -> [Labels -> Nat]]
  <2>1. slot[a].label = AllInboxes \/ slot[a].label \in Labels
    BY <1>1 DEF TopUpFails, MailTypes, Slots
  <2>2. CASE slot[a].label = AllInboxes
    BY <1>1, <2>2 DEF TopUpFails, MailTypes
  <2>3. CASE slot[a].label # AllInboxes
    BY <1>1, <2>1, <2>3, CursorTypes DEF TopUpFails
  <2> QED BY <2>2, <2>3
<1>5. BarStep
  <2>1. PICK C, L, l : topUpFinished(a, C, L, StillSyncing(a), l, 0, FALSE)
    BY DEF TopUpFails
  <2>2. PICK s \in BOOLEAN : s = StillSyncing(a)
    BY <1>1, SyncingTypes DEF BarTypes
  <2> QED BY <1>1, <2>1, <2>2, FinishedBar
<1>6. MailTypes' /\ PlaceTypes'
  BY <1>1, <1>2, <1>3, <1>4 DEF MailTypes, PlaceTypes, placeVars, searchVars
<1> QED BY <1>1, <1>5, <1>6, BarKept DEF ListTypes

LEMMA AnsweredTypes ==
    ASSUME ListInv, NEW a \in Accounts, TopUpAnswered(a)
    PROVE  ListTypes'
<1>1. MailTypes /\ PlaceTypes /\ BarTypes
  BY DEF ListInv, ListTypes
<1>2. PICK l \in Labels : l = slot[a].label
  BY DEF TopUpAnswered
<1>3. PICK n \in Nat : n = slot[a].from
  BY <1>1 DEF MailTypes, Slots
<1>4. PICK all \in Seq(Ids) : all = AtGmail(a, l)
  BY GmailLists
<1>5. PICK page \in SUBSET Ids : page = Range(Take(Drop(all, n), PageSize))
  BY PageIds
<1>6. PICK next \in Nat : next = IF n + PageSize >= Len(all) THEN 0 ELSE n + PageSize
  BY MessageListAssumption
<1>7. PICK pages \in Nat : pages = slot[a].pages + 1
  BY <1>1 DEF MailTypes, Slots
<1>8. PICK C \in SUBSET Ids : C = cached' /\ missed' \in SUBSET Ids
  BY <1>1, <1>2, <1>3, <1>4, <1>5, PageStored
<1>9. PICK s \in BOOLEAN : s = StillSyncing(a)
  BY <1>1, SyncingTypes DEF BarTypes
<1>10. PICK M : M = messagesUpdated(a, C)
  BY Zenon
<1>11. /\ cached' = C /\ slot' = [slot EXCEPT ![a] = Free]
       /\ UNCHANGED <<posted, placeVars, searchVars, memory, torn>>
       /\ \/ /\ steps' = [steps EXCEPT ![a] = Append(@, [label |-> l, pages |-> pages])]
             /\ \/ Shown(M, topUps, s, exhausted, FALSE)
                \/ UNCHANGED <<barVars, crossed>>
          \/ /\ \E k, done : topUpFinished(a, C, M, s, l, k, done)
             /\ UNCHANGED steps
  BY <1>2, <1>7, <1>8, <1>9, <1>10, AnsweredMoves, Zenon
<1>12. /\ slot' \in [Accounts -> Slots]
       /\ \A b \in Accounts : slot'[b].busy = "topUp" => slot'[b].label # Nil
  BY <1>1, <1>11, FreeTypes, SlotTypes
<1>13. cursor' \in [Accounts -> [Labels -> Nat]]
  <2>1. cursor' = [cursor EXCEPT ![a][l] = next]
    BY <1>2, <1>3, <1>4, <1>6 DEF TopUpAnswered
  <2> QED BY <1>1, <2>1, CursorTypes
<1>14. steps' \in [Accounts -> Seq(Steps)]
  <2>1. PICK q \in Steps : q = [label |-> l, pages |-> pages]
    BY DEF Steps
  <2>2. \/ steps' = [steps EXCEPT ![a] = Append(@, q)]
        \/ UNCHANGED steps
    BY <1>11, <2>1
  <2> QED BY <1>1, <2>2, StepsTypes DEF MailTypes
<1>15. BarStep
  <2>1. CASE UNCHANGED <<barVars, crossed>>
    BY <2>1 DEF BarStep
  <2>2. CASE Shown(M, topUps, s, exhausted, FALSE)
    <3>1. topUps \in Nat /\ exhausted \in [Labels -> Accounts \cup {Nil}]
      BY <1>1 DEF BarTypes
    <3> QED BY <2>2, <3>1, Zenon DEF BarStep
  <2>3. CASE \E k, done : topUpFinished(a, C, M, s, l, k, done)
    <3>1. PICK k, done : topUpFinished(a, C, M, s, l, k, done)
      BY <2>3
    <3> QED BY <1>1, <3>1, FinishedBar
  <2> QED BY <1>11, <2>1, <2>2, <2>3
<1>16. MailTypes' /\ PlaceTypes'
  BY <1>1, <1>8, <1>11, <1>12, <1>13, <1>14 DEF MailTypes, PlaceTypes, placeVars, searchVars
<1> QED BY <1>1, <1>15, <1>16, BarKept DEF ListTypes

LEMMA StepTypes ==
    ASSUME ListInv, NEW a \in Accounts, topUpLabelStep(a)
    PROVE  ListTypes'
<1>1. MailTypes /\ PlaceTypes /\ BarTypes
  BY DEF ListInv, ListTypes
<1>2. /\ UNCHANGED <<cached, cursor, posted, placeVars, searchVars, memory, torn, missed>>
      /\ steps[a] # <<>> /\ steps' = [steps EXCEPT ![a] = Tail(@)]
  BY DEF topUpLabelStep
<1>3. steps' \in [Accounts -> Seq(Steps)] /\ Head(steps[a]) \in Steps
  BY <1>1, <1>2, StepsTypes
<1>4. PICK l \in Labels \cup {AllInboxes}, n \in Nat : l = Head(steps[a]).label /\ n = Head(steps[a]).pages
  BY <1>3 DEF Steps
<1>5. \/ slot' = [slot EXCEPT ![a] = Listed(a, l, n)] /\ UNCHANGED <<barVars, crossed>>
      \/ UNCHANGED slot /\ \E C, L : topUpFinished(a, C, L, isSyncing, l, 0, FALSE)
  BY <1>4 DEF topUpLabelStep
<1>6. CASE slot' = [slot EXCEPT ![a] = Listed(a, l, n)] /\ UNCHANGED <<barVars, crossed>>
  <2>1. PICK u \in Slots : u = Listed(a, l, n) /\ u.label # Nil
    BY <1>1, ListedTypes
  <2>2. /\ slot' \in [Accounts -> Slots]
        /\ \A b \in Accounts : slot'[b].busy = "topUp" => slot'[b].label # Nil
    BY <1>1, <1>6, <2>1, SlotTypes
  <2>3. BarStep
    BY <1>6 DEF BarStep
  <2>4. MailTypes' /\ PlaceTypes'
    BY <1>1, <1>2, <1>3, <2>2 DEF MailTypes, PlaceTypes, placeVars, searchVars
  <2> QED BY <1>1, <2>3, <2>4, BarKept DEF ListTypes
<1>7. CASE UNCHANGED slot /\ \E C, L : topUpFinished(a, C, L, isSyncing, l, 0, FALSE)
  <2>1. PICK C, L : topUpFinished(a, C, L, isSyncing, l, 0, FALSE)
    BY <1>7
  <2>2. PICK s \in BOOLEAN : s = isSyncing
    BY <1>1 DEF BarTypes
  <2>3. BarStep
    BY <1>1, <2>1, <2>2, FinishedBar
  <2>4. MailTypes' /\ PlaceTypes'
    BY <1>1, <1>2, <1>3, <1>7 DEF MailTypes, PlaceTypes, placeVars, searchVars
  <2> QED BY <1>1, <2>3, <2>4, BarKept DEF ListTypes
<1> QED BY <1>5, <1>6, <1>7

LEMMA PlaceStepTypes ==
    ASSUME ListInv, NEW a \in Accounts,
           \/ currentAccountChanged(a) \/ cacheCleared(a)
           \/ \E id \in Labels \cup {AllInboxes} : onLabelSelected(a, id)
    PROVE  ListTypes'
<1>1. MailTypes /\ PlaceTypes /\ BarTypes
  BY DEF ListInv, ListTypes
<1>2. topUps \in Nat /\ isSyncing \in BOOLEAN /\ exhausted \in [Labels -> Accounts \cup {Nil}] /\ 0 \in Nat
  BY <1>1 DEF BarTypes
<1>3. CASE currentAccountChanged(a)
  <2>1. BarStep
    <3>1. \E L : Shown(L, topUps, isSyncing, exhausted, TRUE)
      BY <1>3 DEF currentAccountChanged
    <3> QED BY <1>2, <3>1, Zenon DEF BarStep
  <2>2. MailTypes' /\ PlaceTypes'
    BY <1>1, <1>3, InboxLabel DEF currentAccountChanged, MailTypes, PlaceTypes, serviceVars, searchVars
  <2> QED BY <1>1, <2>1, <2>2, BarKept DEF ListTypes
<1>4. CASE cacheCleared(a)
  <2>1. BarStep
    <3>1. PICK x \in [Labels -> Accounts \cup {Nil}] : x = [l \in Labels |-> Nil]
      OBVIOUS
    <3>2. UNCHANGED <<barVars, crossed>> \/ \E L : Shown(L, topUps, isSyncing, x, FALSE)
      BY <1>4, <3>1 DEF cacheCleared
    <3> QED BY <1>2, <3>1, <3>2, Zenon DEF BarStep
  <2>2. /\ cached' \in SUBSET Ids /\ missed' \in SUBSET Ids /\ torn' \in SUBSET Accounts
        /\ cursor' \in [Accounts -> [Labels -> Nat]]
        /\ UNCHANGED <<slot, steps, posted, placeVars, searchVars, memory>>
    BY <1>1, <1>4 DEF cacheCleared, MailTypes
  <2>3. MailTypes' /\ PlaceTypes'
    BY <1>1, <2>2 DEF MailTypes, PlaceTypes, placeVars, searchVars
  <2> QED BY <1>1, <2>1, <2>3, BarKept DEF ListTypes
<1>5. ASSUME NEW id \in Labels \cup {AllInboxes}, onLabelSelected(a, id)
      PROVE  ListTypes'
  <2>1. PICK c \in BOOLEAN, l \in Labels : Chosen(a, id, c, l)
    BY <1>5, LabelChosen, Zenon
  <2>2. BarStep
    <3>1. \/ \E L : Shown(L, topUps, isSyncing, exhausted, TRUE)
          \/ \E L : Shown(L, 0, isSyncing, exhausted, a # account)
      BY <2>1 DEF Chosen
    <3> QED BY <1>2, <3>1, Zenon DEF BarStep
  <2>3. posted' \in [Accounts -> Seq(Labels \cup {AllInboxes})]
    <3>1. UNCHANGED posted \/ posted' = [posted EXCEPT ![a] = Append(@, id)]
      BY <2>1 DEF Chosen
    <3>2. PICK s \in Seq(Labels \cup {AllInboxes}) : s = posted[a]
      BY <1>1 DEF MailTypes
    <3>3. Append(s, id) \in Seq(Labels \cup {AllInboxes})
      OBVIOUS
    <3> QED BY <1>1, <3>1, <3>2, <3>3 DEF MailTypes
  <2>4. /\ account' = a /\ labelId' = l /\ cross' = c
        /\ memory' \in [(Accounts \cup {AllInboxes}) \X Labels -> Nat]
        /\ UNCHANGED <<cached, serviceVars, searchVars, torn, missed>>
    BY <2>1 DEF Chosen
  <2>5. MailTypes' /\ PlaceTypes'
    BY <1>1, <2>3, <2>4 DEF MailTypes, PlaceTypes, serviceVars, searchVars
  <2> QED BY <1>1, <2>2, <2>5, BarKept DEF ListTypes
<1> QED BY <1>3, <1>4, <1>5

LEMMA SearchTypes ==
    ASSUME ListInv, onSearchChanged \/ onSearchSubmit \/ SearchAnswered
    PROVE  ListTypes'
<1>1. MailTypes /\ PlaceTypes /\ BarTypes
  BY DEF ListInv, ListTypes
<1>2. topUps \in Nat /\ isSyncing \in BOOLEAN /\ exhausted \in [Labels -> Accounts \cup {Nil}]
  BY <1>1 DEF BarTypes
<1>3. BarStep
  <2>1. \/ UNCHANGED <<barVars, crossed>>
        \/ \E L, c : Shown(L, topUps, isSyncing, exhausted, c)
    BY DEF onSearchChanged, onSearchSubmit, SearchAnswered, ghostVars
  <2> QED BY <1>2, <2>1, Zenon DEF BarStep
<1>4. MailTypes' /\ UNCHANGED <<placeVars, memory>>
  BY <1>1 DEF onSearchChanged, onSearchSubmit, SearchAnswered, MailTypes, serviceVars, ghostVars
<1>5. query' \in BOOLEAN /\ submitted' \in Accounts \cup {Nil} /\ wanted' \in SUBSET Ids
  <2>1. /\ query \in BOOLEAN /\ submitted \in Accounts \cup {Nil} /\ wanted \in SUBSET Ids
        /\ account \in Accounts /\ Hits \subseteq Ids
    BY <1>1, MessageListAssumption DEF PlaceTypes
  <2> QED BY <2>1 DEF onSearchChanged, onSearchSubmit, SearchAnswered
<1>6. PlaceTypes'
  BY <1>1, <1>4, <1>5 DEF PlaceTypes, placeVars
<1> QED BY <1>1, <1>3, <1>4, <1>6, BarKept DEF ListTypes

LEMMA RowsTypes ==
    ASSUME ListInv, (\E m \in Ids : HitArrives(m)) \/ fetchesFromView \/ scrolledToEnd \/ chevronClicked
    PROVE  ListTypes'
<1>1. MailTypes /\ PlaceTypes /\ BarTypes
  BY DEF ListInv, ListTypes
<1>2. topUps \in Nat /\ isSyncing \in BOOLEAN /\ exhausted \in [Labels -> Accounts \cup {Nil}]
  BY <1>1 DEF BarTypes
<1>3. CASE \E m \in Ids : HitArrives(m)
  <2>1. /\ UNCHANGED <<serviceVars, posted, placeVars, query, submitted, barVars, memory, ghostVars>>
        /\ cached' \in SUBSET Ids /\ wanted' \in SUBSET Ids
    BY <1>1, <1>3 DEF HitArrives, MailTypes, PlaceTypes
  <2>2. MailTypes' /\ PlaceTypes' /\ BarTypes'
    BY <1>1, <2>1 DEF MailTypes, PlaceTypes, BarTypes, serviceVars, placeVars, barVars, ghostVars
  <2> QED BY <2>2 DEF ListTypes
<1>4. CASE chevronClicked
  <2>1. UNCHANGED <<cached, serviceVars, posted, placeVars, searchVars, barVars, memory, ghostVars>>
    BY <1>4 DEF chevronClicked
  <2>2. MailTypes' /\ PlaceTypes' /\ BarTypes'
    BY <1>1, <2>1
       DEF MailTypes, PlaceTypes, BarTypes, serviceVars, placeVars, searchVars, barVars, ghostVars
  <2> QED BY <2>2 DEF ListTypes
<1>5. CASE fetchesFromView \/ scrolledToEnd
  <2>1. /\ UNCHANGED <<cached, serviceVars, placeVars, searchVars, memory, torn, missed>>
        /\ Paged(list)
        /\ \/ UNCHANGED <<posted, barVars, crossed>>
           \/ /\ \/ UNCHANGED <<barVars, crossed>>
                 \/ \E L, c : Shown(L, topUps, isSyncing, exhausted, c)
              /\ \/ UNCHANGED posted
                 \/ posted' = [posted EXCEPT ![account] = Append(@, list.label)]
    <3>1. CASE fetchesFromView
      <4>1. PICK L : L = fetchMore(list, account, cached)
        BY Zenon
      <4>2. L.label = list.label
        <5>1. GoodList(list, account, cached) /\ cached \in SUBSET Ids /\ PageSize \in Nat
          BY <1>1, MessageListAssumption DEF ListInv, ListKept, MailTypes
        <5>2. PICK K, a, C : K = list /\ a = account /\ C = cached
          BY Zenon
        <5>3. fetched(K, PageSize, a, C).label = K.label
          BY <5>1, <5>2, FetchedGood
        <5> QED BY <4>1, <5>2, <5>3 DEF fetchMore
      <4> QED BY <3>1, <4>1, <4>2 DEF fetchesFromView
    <3>2. CASE scrolledToEnd
      BY <3>2 DEF scrolledToEnd, sourceLabelId, ghostVars
    <3> QED BY <1>5, <3>1, <3>2
  <2>2. BarStep
    <3>1. \/ UNCHANGED <<barVars, crossed>>
          \/ \E L, c : Shown(L, topUps, isSyncing, exhausted, c)
      BY <2>1
    <3> QED BY <1>2, <3>1, Zenon DEF BarStep
  <2>3. posted' \in [Accounts -> Seq(Labels \cup {AllInboxes})]
    <3>1. PICK a \in Accounts : a = account
      BY <1>1 DEF PlaceTypes
    <3>2. PICK s \in Seq(Labels \cup {AllInboxes}) : s = posted[a]
      BY <1>1 DEF MailTypes
    <3>3. list.label \in Labels
      BY <2>1 DEF ListInv, ListKept, GoodList
    <3>4. Append(s, list.label) \in Seq(Labels \cup {AllInboxes})
      BY <3>3
    <3> QED BY <1>1, <2>1, <3>1, <3>2, <3>4 DEF MailTypes
  <2>4. MailTypes' /\ PlaceTypes'
    BY <1>1, <2>1, <2>3 DEF MailTypes, PlaceTypes, serviceVars, placeVars, searchVars
  <2> QED BY <1>1, <2>2, <2>4, BarKept DEF ListTypes
<1> QED BY <1>3, <1>4, <1>5

-----------------------------------------------------------------------------
(* The cache has what was listed.                                          *)

LEMMA FetchedMore ==
    ASSUME NEW a, NEW l, NEW n, NEW C, NEW D, C \subseteq D, Fetched(a, l, n, C)
    PROVE  Fetched(a, l, n, D)
BY DEF Fetched

LEMMA FetchedNone ==
    ASSUME NEW a, NEW l, NEW C
    PROVE  Fetched(a, l, 0, C)
<1>1. PICK s \in Seq(Ids) : s = AtGmail(a, l)
  BY GmailLists
<1>2. \A i \in DOMAIN s : ~(i <= 0)
  BY LenProperties
<1> QED BY <1>1, <1>2 DEF Fetched

\* The next page with what is there of the pages before it; behind the last there is no more.
LEMMA FetchedPage ==
    ASSUME NEW a, NEW l, NEW n \in Nat, NEW C, Fetched(a, l, n, C), NEW D, C \subseteq D,
           Range(Take(Drop(AtGmail(a, l), n), PageSize)) \subseteq D
    PROVE  /\ Fetched(a, l, n + PageSize, D)
           /\ n + PageSize >= Len(AtGmail(a, l)) => Range(AtGmail(a, l)) \subseteq D
<1>1. PICK s \in Seq(Ids) : s = AtGmail(a, l)
  BY GmailLists
<1>2. PageSize \in Nat /\ DOMAIN s = 1 .. Len(s) /\ Len(s) \in Nat
  BY MessageListAssumption, LenProperties
<1>3. PICK d \in Seq(Ids) : d = Drop(s, n)
  BY DropProperties
<1>4. /\ Len(d) = (IF n < Len(s) THEN Len(s) - n ELSE 0) /\ Len(d) \in Nat
      /\ \A i \in 1 .. Len(d) : d[i] = s[n + i]
  BY <1>3, DropProperties, LenProperties
<1>5. PICK p \in Seq(Ids) : p = Take(d, PageSize)
  BY <1>2, TakeProperties
<1>6. /\ Len(p) = (IF PageSize < Len(d) THEN PageSize ELSE Len(d)) /\ DOMAIN p = 1 .. Len(p)
      /\ \A i \in 1 .. Len(p) : p[i] = d[i]
  BY <1>2, <1>5, TakeProperties, LenProperties
<1>7. \A i \in 1 .. Len(p) : p[i] \in D
  BY <1>1, <1>3, <1>5, <1>6 DEF Range
<1>8. ASSUME NEW i \in 1 .. Len(s), i <= n + PageSize
      PROVE  s[i] \in D
  <2>1. CASE i <= n
    BY <1>1, <1>2, <1>8, <2>1 DEF Fetched
  <2>2. CASE i > n
    <3>1. PICK z \in Nat, e \in Nat, k \in Nat, g \in Nat :
              z = Len(s) /\ e = Len(d) /\ k = Len(p) /\ g = PageSize
      BY <1>2, <1>4, LenProperties
    <3>2. /\ e = (IF n < z THEN z - n ELSE 0) /\ k = (IF g < e THEN g ELSE e)
          /\ i \in 1 .. z /\ i <= n + g /\ i > n
      BY <1>4, <1>6, <1>8, <2>2, <3>1
    <3>3. i - n \in 1 .. e /\ n + (i - n) = i /\ i - n \in 1 .. k
      BY ONLY <3>2, n \in Nat, z \in Nat, e \in Nat, k \in Nat, g \in Nat
    <3>4. i - n \in 1 .. Len(d) /\ i - n \in 1 .. Len(p)
      BY <3>1, <3>3
    <3>5. s[i] = p[i - n]
      BY <1>4, <1>6, <3>3, <3>4
    <3> QED BY <1>7, <3>4, <3>5
  <2> QED BY <1>2, <2>1, <2>2
<1>9. Fetched(a, l, n + PageSize, D)
  BY <1>1, <1>2, <1>8 DEF Fetched
<1>10. n + PageSize >= Len(s) => Range(s) \subseteq D
  <2>1. n + PageSize >= Len(s) => \A i \in 1 .. Len(s) : i <= n + PageSize
    BY <1>2
  <2> QED BY <1>2, <1>8, <2>1 DEF Range
<1> QED BY <1>1, <1>9, <1>10

LEMMA ServerStay ==
    ASSUME ServerKept, Had \subseteq Had', UNCHANGED torn,
           \A a \in Accounts, l \in Labels : cursor'[a][l] \in {cursor[a][l], 0},
           \A a \in Accounts : slot'[a].busy = "topUp" /\ slot'[a].label \in Labels =>
               slot'[a] = slot[a] \/ slot'[a].from = cursor[a][slot'[a].label],
           \A l \in Labels : exhausted'[l] \in {exhausted[l], Nil}
    PROVE  ServerKept'
<1>1. PICK C, D, T : C = Had /\ D = Had' /\ T = torn
  BY Zenon
<1>2. ASSUME NEW a \in Accounts \ T, NEW l \in Labels
      PROVE  /\ Fetched(a, l, cursor[a][l], D) /\ Fetched(a, l, cursor'[a][l], D)
             /\ exhausted'[l] = a => Range(AtGmail(a, l)) \subseteq D
  <2>1. PICK n, k, x : n = cursor[a][l] /\ k = cursor'[a][l] /\ x = exhausted'[l]
    BY Zenon
  <2>2. /\ Fetched(a, l, n, C) /\ (exhausted[l] = a => Range(AtGmail(a, l)) \subseteq C)
        /\ C \subseteq D /\ k \in {n, 0} /\ x \in {exhausted[l], Nil} /\ a # Nil
    BY <1>1, <2>1, MessageListAssumption DEF ServerKept
  <2>3. Fetched(a, l, n, D) /\ Fetched(a, l, k, D)
    BY <2>2, FetchedMore, FetchedNone
  <2>4. x = a => Range(AtGmail(a, l)) \subseteq D
    BY <2>2
  <2> QED BY <2>1, <2>3, <2>4
<1>3. ASSUME NEW a \in Accounts \ T, slot'[a].busy = "topUp", slot'[a].label \in Labels
      PROVE  Fetched(a, slot'[a].label, slot'[a].from, D)
  <2>1. PICK u, v : u = slot'[a] /\ v = slot[a]
    BY Zenon
  <2>2. CASE u = v
    <3>1. Fetched(a, v.label, v.from, C) /\ C \subseteq D
      BY <1>1, <1>3, <2>1, <2>2 DEF ServerKept
    <3>2. Fetched(a, v.label, v.from, D)
      BY <3>1, FetchedMore
    <3> QED BY <2>1, <2>2, <3>2
  <2>3. CASE u # v
    <3>1. u.from = cursor[a][u.label] /\ u.label \in Labels
      BY <1>3, <2>1, <2>3
    <3> QED BY <1>2, <2>1, <3>1
  <2> QED BY <2>2, <2>3
<1>4. UNCHANGED torn
  OBVIOUS
<1> QED BY <1>1, <1>2, <1>3, <1>4 DEF ServerKept

\* What a top-up that brought nothing says of a label.
LEMMA FinishedExhausted ==
    ASSUME BarTypes, NEW a, NEW C, NEW L, NEW s, NEW l, NEW n, topUpFinished(a, C, L, s, l, n, FALSE)
    PROVE  \A k \in Labels : exhausted'[k] \in {exhausted[k], Nil}
BY DEF topUpFinished, Shown, barVars, BarTypes

LEMMA ShownExhausted ==
    ASSUME UNCHANGED barVars \/ \E L, t, s, c : Shown(L, t, s, exhausted, c)
    PROVE  UNCHANGED exhausted
BY DEF Shown, barVars

LEMMA ServiceServer ==
    ASSUME ListInv, NEW a \in Accounts,
           \/ SyncBegins(a) \/ SyncEnds(a) \/ PostRuns(a) \/ tickBackgroundCrawl(a)
           \/ TopUpFails(a) \/ topUpLabelStep(a)
    PROVE  ServerKept'
<1>1. MailTypes /\ PlaceTypes /\ BarTypes /\ ServerKept
  BY DEF ListInv, ListTypes
<1>2. PICK u : /\ slot' = [slot EXCEPT ![a] = u] \/ UNCHANGED slot
               /\ u = Free \/ u = [Free EXCEPT !.busy = "sync"]
                  \/ \E l, n : u = Listed(a, l, n)
  <2>1. CASE SyncBegins(a) \/ SyncEnds(a)
    BY <2>1 DEF SyncBegins, SyncEnds
  <2>2. CASE PostRuns(a) \/ tickBackgroundCrawl(a)
    <3>1. UNCHANGED slot \/ \E l, n : slot' = [slot EXCEPT ![a] = Listed(a, l, n)]
      BY <2>2 DEF PostRuns, topUpLabel, tickBackgroundCrawl
    <3> QED BY <3>1
  <2>3. CASE TopUpFails(a)
    <3>1. slot' = [slot EXCEPT ![a] = Free]
      BY <2>3 DEF TopUpFails
    <3> QED BY <3>1
  <2>4. CASE topUpLabelStep(a)
    <3>1. UNCHANGED slot \/ \E l, n : slot' = [slot EXCEPT ![a] = Listed(a, l, n)]
      BY <2>4 DEF topUpLabelStep
    <3> QED BY <3>1
  <2> QED BY <2>1, <2>2, <2>3, <2>4
<1>3. u.busy = "topUp" /\ u.label \in Labels => u.from = cursor[a][u.label]
  BY <1>2 DEF Free, Listed
<1>4. \A b \in Accounts : slot'[b].busy = "topUp" /\ slot'[b].label \in Labels =>
          slot'[b] = slot[b] \/ slot'[b].from = cursor[b][slot'[b].label]
  BY <1>1, <1>2, <1>3 DEF MailTypes
<1>5. \A b \in Accounts, l \in Labels : cursor'[b][l] \in {cursor[b][l], 0}
  <2>1. UNCHANGED cursor \/ \E l : cursor' = [cursor EXCEPT ![a][l] = 0]
    BY DEF SyncBegins, SyncEnds, PostRuns, tickBackgroundCrawl, TopUpFails, topUpLabelStep
  <2>2. CASE UNCHANGED cursor
    BY <2>2
  <2>3. ASSUME NEW l, cursor' = [cursor EXCEPT ![a][l] = 0], NEW b \in Accounts, NEW k \in Labels
        PROVE  cursor'[b][k] \in {cursor[b][k], 0}
    <3>1. cursor[a] \in [Labels -> Nat] /\ cursor'[a] = [cursor[a] EXCEPT ![l] = 0]
      BY <1>1, <2>3 DEF MailTypes
    <3>2. b # a => cursor'[b] = cursor[b]
      BY <1>1, <2>3 DEF MailTypes
    <3> QED BY <3>1, <3>2
  <2> QED BY <2>1, <2>2, <2>3
<1>6. Had \subseteq Had' /\ UNCHANGED torn
  <2>1. cached \subseteq cached' /\ UNCHANGED <<torn, missed>>
    BY DEF SyncBegins, SyncEnds, PostRuns, tickBackgroundCrawl, TopUpFails, topUpLabelStep
  <2> QED BY <2>1 DEF Had
<1>7. \A l \in Labels : exhausted'[l] \in {exhausted[l], Nil}
  <2>1. CASE TopUpFails(a) \/ topUpLabelStep(a)
    <3>1. \/ UNCHANGED barVars
          \/ \E C, L, s, l : topUpFinished(a, C, L, s, l, 0, FALSE)
      BY <2>1 DEF TopUpFails, topUpLabelStep
    <3>2. CASE UNCHANGED barVars
      BY <3>2 DEF barVars
    <3>3. CASE \E C, L, s, l : topUpFinished(a, C, L, s, l, 0, FALSE)
      <4>1. PICK C, L, s, l : topUpFinished(a, C, L, s, l, 0, FALSE)
        BY <3>3, Zenon
      <4> QED BY <1>1, <4>1, FinishedExhausted
    <3> QED BY <3>1, <3>2, <3>3
  <2>2. CASE SyncBegins(a) \/ SyncEnds(a) \/ PostRuns(a) \/ tickBackgroundCrawl(a)
    <3>1. UNCHANGED barVars \/ \E L, t, s, c : Shown(L, t, s, exhausted, c)
      BY <2>2 DEF SyncBegins, SyncEnds, PostRuns, tickBackgroundCrawl, topUpLabel
    <3> QED BY <3>1, ShownExhausted
  <2> QED BY <2>1, <2>2
<1> QED BY <1>1, <1>4, <1>5, <1>6, <1>7, ServerStay

LEMMA AnsweredServer ==
    ASSUME ListInv, NEW a \in Accounts, TopUpAnswered(a)
    PROVE  ServerKept'
<1>1. MailTypes /\ PlaceTypes /\ BarTypes /\ ServerKept
  BY DEF ListInv, ListTypes
<1>2. PICK l \in Labels : l = slot[a].label
  BY DEF TopUpAnswered
<1>3. PICK n \in Nat : n = slot[a].from
  BY <1>1 DEF MailTypes, Slots
<1>4. PICK all \in Seq(Ids) : all = AtGmail(a, l)
  BY GmailLists
<1>5. PICK page \in SUBSET Ids : page = Range(Take(Drop(all, n), PageSize))
  BY PageIds
<1>6. PICK next \in Nat : next = IF n + PageSize >= Len(all) THEN 0 ELSE n + PageSize
  BY MessageListAssumption
<1>7. PICK C \in SUBSET Ids, D \in SUBSET Ids :
          C = Had /\ D = Had' /\ C \subseteq D /\ page \subseteq D
  <2>1. Had \in SUBSET Ids
    BY <1>1 DEF MailTypes, Had
  <2>2. Had' \in SUBSET Ids /\ Had \subseteq Had' /\ page \subseteq Had'
    BY <1>1, <1>2, <1>3, <1>4, <1>5, PageStored DEF Had
  <2> QED BY <2>1, <2>2
<1>8. /\ Had' = D /\ cursor' = [cursor EXCEPT ![a][l] = next]
      /\ slot' = [slot EXCEPT ![a] = Free] /\ UNCHANGED torn
      /\ \/ exhausted' = exhausted
         \/ exhausted' = [exhausted EXCEPT ![l] = IF next = 0 THEN a ELSE Nil]
  <2>2. /\ cursor' = [cursor EXCEPT ![a][l] = next]
        /\ slot' = [slot EXCEPT ![a] = Free] /\ UNCHANGED torn
        /\ \/ \E L, s : Shown(L, topUps, s, exhausted, FALSE)
           \/ UNCHANGED barVars
           \/ \E C2, L, s, k, done : done = (next = 0) /\ topUpFinished(a, C2, L, s, l, k, done)
    BY <1>2, <1>3, <1>4, <1>5, <1>6 DEF TopUpAnswered
  <2>3. \/ exhausted' = exhausted
        \/ exhausted' = [exhausted EXCEPT ![l] = IF next = 0 THEN a ELSE Nil]
    BY <2>2 DEF topUpFinished, Shown, barVars
  <2> QED BY <1>7, <2>2, <2>3
<1>9. slot[a].busy = "topUp"
  BY DEF TopUpAnswered
<1>10. ASSUME a \notin torn
       PROVE  Fetched(a, l, n + PageSize, D) /\ (n + PageSize >= Len(all) => Range(all) \subseteq D)
  <2>1. Fetched(a, l, n, C)
    BY <1>1, <1>2, <1>3, <1>7, <1>9, <1>10 DEF ServerKept
  <2>2. Range(Take(Drop(AtGmail(a, l), n), PageSize)) \subseteq D /\ C \subseteq D
    BY <1>4, <1>5, <1>7
  <2> QED BY <1>4, <2>1, <2>2, FetchedPage
<1>11. ASSUME NEW b \in Accounts \ torn, NEW k \in Labels
       PROVE  /\ Fetched(b, k, cursor'[b][k], D)
              /\ exhausted'[k] = b => Range(AtGmail(b, k)) \subseteq D
  <2>1. PICK i, j, x : i = cursor[b][k] /\ j = cursor'[b][k] /\ x = exhausted[k]
    BY Zenon
  <2>2. Fetched(b, k, i, C) /\ (x = b => Range(AtGmail(b, k)) \subseteq C) /\ C \subseteq D
    BY <1>1, <1>7, <2>1 DEF ServerKept
  <2>3. Fetched(b, k, i, D)
    BY <2>2, FetchedMore
  <2>4. CASE b = a /\ k = l
    <3>1. j = next /\ a \notin torn
      BY <1>1, <1>8, <2>1, <2>4 DEF MailTypes
    <3>2. Fetched(a, l, j, D)
      BY <1>6, <1>10, <3>1, FetchedNone
    <3>3. next = 0 => Range(all) \subseteq D
      BY <1>6, <1>10, <3>1, MessageListAssumption
    <3>4. exhausted'[l] = x \/ exhausted'[l] = IF next = 0 THEN a ELSE Nil
      BY <1>1, <1>8, <2>1, <2>4 DEF BarTypes
    <3>5. exhausted'[l] = a => Range(all) \subseteq D
      BY <1>4, <2>2, <2>4, <3>3, <3>4, MessageListAssumption
    <3> QED BY <1>4, <2>1, <2>4, <3>2, <3>5
  <2>5. CASE ~(b = a /\ k = l)
    <3>1. i = j
      BY <1>1, <1>8, <2>1, <2>5 DEF MailTypes
    <3>2. exhausted'[k] = b => x = b
      BY <1>1, <1>8, <2>1, <2>5, MessageListAssumption DEF BarTypes
    <3> QED BY <2>1, <2>2, <2>3, <3>1, <3>2
  <2> QED BY <2>4, <2>5
<1>12. ASSUME NEW b \in Accounts \ torn, slot'[b].busy = "topUp", slot'[b].label \in Labels
       PROVE  Fetched(b, slot'[b].label, slot'[b].from, D)
  <2>1. slot'[b] = slot[b]
    BY <1>1, <1>8, <1>12, FreeTypes DEF MailTypes
  <2>2. PICK u : u = slot[b]
    BY Zenon
  <2>3. Fetched(b, u.label, u.from, C) /\ C \subseteq D
    BY <1>1, <1>7, <1>12, <2>1, <2>2 DEF ServerKept
  <2>4. Fetched(b, u.label, u.from, D)
    BY <2>3, FetchedMore
  <2> QED BY <2>1, <2>2, <2>4
<1> QED BY <1>8, <1>11, <1>12 DEF ServerKept

LEMMA ClearedServer ==
    ASSUME ListInv, NEW a \in Accounts, cacheCleared(a)
    PROVE  ServerKept'
<1>1. MailTypes /\ PlaceTypes /\ BarTypes /\ ServerKept
  BY DEF ListInv, ListTypes
<1>2. PICK C \in SUBSET Ids, D \in SUBSET Ids : C = Had /\ D = {m \in C : Mail[m].account # a}
  BY <1>1 DEF MailTypes, Had
<1>3. /\ Had' = D /\ cursor' = [cursor EXCEPT ![a] = [l \in Labels |-> 0]]
      /\ UNCHANGED slot
      /\ \/ torn' = torn \cup {a}
         \/ a = account /\ slot[a].busy # "topUp" /\ torn' = torn \ {a}
      /\ \/ exhausted' = exhausted
         \/ exhausted' = [l \in Labels |-> Nil]
      /\ a = account => exhausted' = [l \in Labels |-> Nil]
  <2>1. Had' = D
    <3>1. /\ cached' = {m \in cached : Mail[m].account # a}
          /\ missed' = {m \in missed : Mail[m].account # a}
      BY DEF cacheCleared
    <3> QED BY <1>2, <3>1 DEF Had
  <2>2. exhausted' = exhausted \/ exhausted' = [l \in Labels |-> Nil]
    BY DEF cacheCleared, Shown, barVars
  <2>3. a = account => exhausted' = [l \in Labels |-> Nil]
    BY DEF cacheCleared, Shown
  <2> QED BY <2>1, <2>2, <2>3 DEF cacheCleared
<1>4. \A b \in Accounts, l \in Labels : \A i \in DOMAIN AtGmail(b, l) :
          b # a /\ AtGmail(b, l)[i] \in C => AtGmail(b, l)[i] \in D
  <2> SUFFICES ASSUME NEW b \in Accounts, NEW l \in Labels, NEW i \in DOMAIN AtGmail(b, l),
                      b # a, AtGmail(b, l)[i] \in C
               PROVE  AtGmail(b, l)[i] \in D
    OBVIOUS
  <2>1. Mail[AtGmail(b, l)[i]].account = b
    BY GmailLists
  <2> QED BY <1>2, <2>1
<1>5. ASSUME NEW b \in Accounts, b # a, b \notin torn, NEW l \in Labels
      PROVE  /\ Fetched(b, l, cursor'[b][l], D)
             /\ exhausted'[l] = b => Range(AtGmail(b, l)) \subseteq D
  <2>1. Fetched(b, l, cursor[b][l], C) /\ (exhausted[l] = b => Range(AtGmail(b, l)) \subseteq C)
    BY <1>1, <1>2, <1>5 DEF ServerKept
  <2>2. cursor'[b][l] = cursor[b][l] /\ (exhausted'[l] = b => exhausted[l] = b)
    BY <1>1, <1>3, <1>5, MessageListAssumption DEF MailTypes
  <2>3. Fetched(b, l, cursor[b][l], D)
    BY <1>4, <1>5, <2>1 DEF Fetched
  <2>4. Range(AtGmail(b, l)) \subseteq C => Range(AtGmail(b, l)) \subseteq D
    BY <1>4, <1>5 DEF Range
  <2> QED BY <2>1, <2>2, <2>3, <2>4
<1>6. ASSUME NEW b \in Accounts, b # a, b \notin torn, slot[b].busy = "topUp", slot[b].label \in Labels
      PROVE  Fetched(b, slot[b].label, slot[b].from, D)
  <2>1. Fetched(b, slot[b].label, slot[b].from, C)
    BY <1>1, <1>2, <1>6 DEF ServerKept
  <2> QED BY <1>4, <1>6, <2>1 DEF Fetched
<1>7. ASSUME NEW l \in Labels, a \notin torn'
      PROVE  Fetched(a, l, cursor'[a][l], D) /\ exhausted'[l] # a /\ slot[a].busy # "topUp"
  <2>1. cursor'[a][l] = 0
    BY <1>1, <1>3 DEF MailTypes
  <2>2. exhausted'[l] # a /\ slot[a].busy # "topUp"
    BY <1>3, <1>7, MessageListAssumption
  <2> QED BY <2>1, <2>2, FetchedNone
<1>8. torn \ {a} = torn' \ {a}
  BY <1>3
<1> QED BY <1>3, <1>5, <1>6, <1>7, <1>8 DEF ServerKept

LEMMA WindowServer ==
    ASSUME ListInv,
           \/ \E a \in Accounts : currentAccountChanged(a)
           \/ \E a \in Accounts, id \in Labels \cup {AllInboxes} : onLabelSelected(a, id)
           \/ onSearchChanged \/ onSearchSubmit \/ SearchAnswered
           \/ (\E m \in Ids : HitArrives(m)) \/ fetchesFromView \/ scrolledToEnd \/ chevronClicked
    PROVE  ServerKept'
<1>1. MailTypes /\ PlaceTypes /\ BarTypes /\ ServerKept
  BY DEF ListInv, ListTypes
<1>2. /\ UNCHANGED <<serviceVars, torn, missed>> /\ cached \subseteq cached'
      /\ UNCHANGED barVars \/ \E L, t, s, c : Shown(L, t, s, exhausted, c)
  <2>1. ASSUME NEW a \in Accounts, NEW id \in Labels \cup {AllInboxes}, onLabelSelected(a, id)
        PROVE  UNCHANGED <<serviceVars, torn, missed>> /\ cached \subseteq cached'
               /\ \E L, t, s, c : Shown(L, t, s, exhausted, c)
    <3>1. PICK c \in BOOLEAN, l \in Labels : Chosen(a, id, c, l)
      BY <2>1, LabelChosen, Zenon
    <3> QED BY <3>1 DEF Chosen
  <2>2. CASE \E a \in Accounts : currentAccountChanged(a)
    BY <2>2 DEF currentAccountChanged
  <2>3. CASE onSearchChanged \/ onSearchSubmit \/ SearchAnswered
    BY <2>3 DEF onSearchChanged, onSearchSubmit, SearchAnswered, ghostVars
  <2>4. CASE (\E m \in Ids : HitArrives(m)) \/ fetchesFromView \/ scrolledToEnd \/ chevronClicked
    BY <2>4 DEF HitArrives, fetchesFromView, scrolledToEnd, chevronClicked, ghostVars
  <2> QED BY <2>1, <2>2, <2>3, <2>4
<1>3. UNCHANGED exhausted
  BY <1>2, ShownExhausted
<1>4. /\ \A a \in Accounts, l \in Labels : cursor'[a][l] \in {cursor[a][l], 0}
      /\ \A a \in Accounts : slot'[a] = slot[a]
      /\ \A l \in Labels : exhausted'[l] \in {exhausted[l], Nil}
      /\ Had \subseteq Had'
  BY <1>2, <1>3 DEF serviceVars, Had
<1> QED BY <1>1, <1>2, <1>4, ServerStay

-----------------------------------------------------------------------------
(* The work waited for.                                                    *)

LEMMA WaitingType ==
    ASSUME NEW s \in Seq(Steps), NEW l
    PROVE  IsFiniteSet(ToGoOn(s, l)) /\ Waiting(s, l) \in Nat
<1>1. IsFiniteSet(1 .. Len(s)) /\ ToGoOn(s, l) \in SUBSET (1 .. Len(s))
  BY LenProperties, FS_Interval DEF ToGoOn
<1> QED BY <1>1, FS_Subset, FS_CardinalityType DEF Waiting

LEMMA WaitingAppend ==
    ASSUME NEW s \in Seq(Steps), NEW q \in Steps, NEW l
    PROVE  Waiting(Append(s, q), l) = Waiting(s, l) + IF q.label = l THEN 1 ELSE 0
<1>1. PICK r : r = Append(s, q)
  OBVIOUS
<1>2. /\ Len(r) = Len(s) + 1 /\ Len(s) \in Nat /\ r[Len(s) + 1] = q
      /\ \A i \in 1 .. Len(s) : r[i] = s[i]
  BY <1>1, AppendProperties, LenProperties
<1>3. CASE q.label = l
  <2>1. ToGoOn(r, l) = ToGoOn(s, l) \cup {Len(s) + 1} /\ Len(s) + 1 \notin ToGoOn(s, l)
    BY <1>2, <1>3 DEF ToGoOn
  <2>2. IsFiniteSet(ToGoOn(s, l)) /\ Waiting(s, l) \in Nat
    BY WaitingType
  <2>3. Cardinality(ToGoOn(s, l) \cup {Len(s) + 1}) = Cardinality(ToGoOn(s, l)) + 1
    BY ONLY <2>1, <2>2, FS_AddElement
  <2>4. Waiting(r, l) = Waiting(s, l) + 1
    BY ONLY <2>1, <2>3 DEF Waiting
  <2> QED BY <1>1, <1>3, <2>4
<1>4. CASE q.label # l
  <2>1. ToGoOn(r, l) = ToGoOn(s, l)
    BY <1>2, <1>4 DEF ToGoOn
  <2> QED BY <1>1, <1>4, <2>1, WaitingType DEF Waiting
<1> QED BY <1>3, <1>4

LEMMA WaitingTail ==
    ASSUME NEW s \in Seq(Steps), s # <<>>, NEW l
    PROVE  Waiting(s, l) = Waiting(Tail(s), l) + IF Head(s).label = l THEN 1 ELSE 0
<1>1. PICK r, n : r = Tail(s) /\ n = Len(r)
  OBVIOUS
<1>2. /\ r \in Seq(Steps) /\ n \in Nat /\ Len(s) = n + 1
      /\ \A i \in 1 .. n : r[i] = s[i + 1]
      /\ Head(s) = s[1]
  BY <1>1, HeadTailProperties, LenProperties
<1> DEFINE A == ToGoOn(r, l)
           B == ToGoOn(s, l) \ {1}
           f == [i \in A |-> i + 1]
<1>3. f \in Bijection(A, B)
  <2>1. \A i \in A : i \in 1 .. n /\ i + 1 \in B
    BY <1>1, <1>2 DEF ToGoOn
  <2>2. f \in [A -> B] /\ \A i, j \in A : f[i] = f[j] => i = j
    BY <2>1
  <2>3. ASSUME NEW j \in B
        PROVE  \E i \in A : f[i] = j
    <3>1. j \in 2 .. n + 1 /\ s[j].label = l
      BY <1>2 DEF ToGoOn
    <3>2. j - 1 \in 1 .. n /\ r[j - 1] = s[j]
      BY <1>2, <3>1
    <3>3. j - 1 \in A
      BY <1>1, <3>1, <3>2 DEF ToGoOn
    <3> QED BY <3>1, <3>3
  <2> QED BY <2>2, <2>3 DEF Bijection, Injection, Surjection, IsInjective
<1>4. IsFiniteSet(A) /\ IsFiniteSet(ToGoOn(s, l)) /\ Cardinality(ToGoOn(s, l)) \in Nat
  BY <1>2, WaitingType DEF Waiting
<1>5. Cardinality(A) = Cardinality(B)
  BY <1>3, <1>4, FS_Bijection DEF ExistsBijection
<1>6. Cardinality(B) = IF 1 \in ToGoOn(s, l) THEN Cardinality(ToGoOn(s, l)) - 1
                       ELSE Cardinality(ToGoOn(s, l))
  BY <1>4, FS_RemoveElement
<1>7. 1 \in ToGoOn(s, l) <=> s[1].label = l
  BY <1>2 DEF ToGoOn
<1> QED BY <1>1, <1>2, <1>4, <1>5, <1>6, <1>7 DEF Waiting

\* The label of the place, which is that of the list.
Here == PlaceLabel(cross, labelId, query)

LEMMA HereListed ==
    ASSUME ListKept
    PROVE  sourceLabelId(list) = Here
BY DEF ListKept, sourceLabelId, Paged, Here, PlaceLabel, PlaceSource

\* The label of the place as the list has it, the slot and the steps of an account.
LEMMA WorkTypes ==
    ASSUME ListInv, NEW a \in Accounts
    PROVE  /\ slot[a] \in Slots /\ steps[a] \in Seq(Steps) /\ topUps \in Nat
           /\ isSyncing \in BOOLEAN /\ crossed \in BOOLEAN /\ account \in Accounts
           /\ sourceLabelId(list) = Here
           /\ \A l : Going(slot[a], l) \in {0, 1} /\ Waiting(steps[a], l) \in Nat
<1>1. ListTypes /\ ListKept
  BY DEF ListInv
<1>2. steps[a] \in Seq(Steps)
  BY <1>1 DEF ListTypes, MailTypes
<1>3. PICK s \in Seq(Steps) : s = steps[a]
  BY <1>2
<1>4. \A l : Waiting(s, l) \in Nat
  BY WaitingType
<1> QED BY <1>1, <1>2, <1>3, <1>4, HereListed DEF ListTypes, MailTypes, PlaceTypes, BarTypes, Going

\* A step within a place.
LEMMA WorkMoves ==
    ASSUME ListInv, ListTypes', ListKept', UNCHANGED <<account, Here>>,
           ~crossed' => ~crossed \/ (topUps' = 0 /\ ~isSyncing'),
           ~crossed =>
               /\ isSyncing' => slot'[account].busy = "sync" /\ topUps' = 0
               /\ topUps' <= Going(slot'[account], Here) + Waiting(steps'[account], Here)
    PROVE  WorkKept'
<1>1. sourceLabelId(list') = Here
  <2>1. sourceLabelId(list)' = Here'
    BY DEF ListKept, sourceLabelId, Paged, Here, PlaceLabel, PlaceSource
  <2> QED BY <2>1
<1>2. PICK s \in Seq(Steps) : s = steps'[account]
  BY DEF ListInv, ListTypes, MailTypes, PlaceTypes
<1>3. Waiting(s, Here) \in Nat
  BY WaitingType
<1>4. Going(slot'[account], Here) \in {0, 1}
  BY DEF Going
<1> QED BY <1>1, <1>2, <1>3, <1>4 DEF WorkKept

\* A step after which nothing is counted, or what is was not begun elsewhere.
LEMMA WorkNone ==
    ASSUME ListTypes', topUps' = 0,
           ~crossed' => (isSyncing' => slot'[account'].busy = "sync")
    PROVE  WorkKept'
<1>1. PICK s, l : s \in Seq(Steps) /\ s = steps'[account'] /\ l = sourceLabelId(list')
  BY DEF ListTypes, MailTypes, PlaceTypes
<1>2. Waiting(s, l) \in Nat
  BY <1>1, WaitingType
<1>3. Going(slot'[account'], l) \in {0, 1}
  BY DEF Going
<1> QED BY <1>1, <1>2, <1>3 DEF WorkKept

\* What a top-up that ends does to the counts, with u in the slot and s to go on before it and
\* one of either less after it.
LEMMA FinishedWork ==
    ASSUME ListInv, ListTypes', ListKept', UNCHANGED <<account, Here>>,
           NEW a \in Accounts, NEW C, NEW L, NEW s, NEW l, NEW n, NEW done,
           topUpFinished(a, C, L, s, l, n, done), L.source = list.source, L.label = list.label,
           a = account /\ ~crossed /\ isSyncing /\ s => slot'[a].busy = "sync", s => isSyncing,
           \A h : Going(slot'[a], h) + Waiting(steps'[a], h) =
                      (Going(slot[a], h) + Waiting(steps[a], h)) - IF l = h THEN 1 ELSE 0,
           \A b \in Accounts \ {a} : slot'[b] = slot[b] /\ steps'[b] = steps[b]
    PROVE  WorkKept'
<1> DEFINE work == Going(slot[account], Here) + Waiting(steps[account], Here)
           left == Going(slot'[account], Here) + Waiting(steps'[account], Here)
<1>1. /\ account \in Accounts /\ topUps \in Nat /\ isSyncing \in BOOLEAN /\ crossed \in BOOLEAN
      /\ sourceLabelId(list) = Here /\ work \in Nat
  <2>1. account \in Accounts
    BY DEF ListInv, ListTypes, PlaceTypes
  <2>2. Going(slot[account], Here) \in {0, 1} /\ Waiting(steps[account], Here) \in Nat
    BY <2>1, WorkTypes
  <2>3. work \in Nat
    BY <2>2
  <2> HIDE DEF work
  <2> QED BY <2>1, <2>3, WorkTypes
<1>2. ~crossed => (isSyncing => slot[account].busy = "sync" /\ topUps = 0) /\ topUps <= work
  BY <1>1 DEF ListInv, WorkKept
<1>3. CASE a # account
  <2>1. UNCHANGED <<barVars, crossed>> /\ slot'[account] = slot[account] /\ steps'[account] = steps[account]
    BY <1>1, <1>3 DEF topUpFinished
  <2> QED BY <1>1, <1>2, <2>1, WorkMoves DEF barVars
<1>4. CASE a = account
  <2>1. sourceLabelId(L) = Here
    BY <1>1 DEF sourceLabelId, Paged
  <2>2. /\ topUps' = IF l = Here /\ topUps > 0 THEN topUps - 1 ELSE topUps
        /\ isSyncing' = s /\ crossed' = (crossed /\ (topUps' > 0 \/ s))
    BY <1>4, <2>1 DEF topUpFinished, Shown
  <2>3. left = work - IF l = Here THEN 1 ELSE 0
    <3>1. Going(slot'[a], Here) + Waiting(steps'[a], Here) =
              (Going(slot[a], Here) + Waiting(steps[a], Here)) - IF l = Here THEN 1 ELSE 0
      OBVIOUS
    <3> QED BY <1>4, <3>1
  <2>4. left \in Nat
    <3>1. PICK r \in Seq(Steps) : r = steps'[account]
      BY DEF ListInv, ListTypes, MailTypes, PlaceTypes
    <3>2. Waiting(r, Here) \in Nat
      BY WaitingType
    <3>3. Going(slot'[account], Here) \in {0, 1}
      BY DEF Going
    <3> QED BY <3>1, <3>2, <3>3
  <2>5. ~crossed => topUps' <= left
    <3> HIDE DEF work, left
    <3> QED BY <1>1, <1>2, <2>2, <2>3, <2>4
  <2>6. ~crossed => (isSyncing' => slot'[account].busy = "sync" /\ topUps' = 0)
    <3>1. ~crossed /\ isSyncing' => slot'[account].busy = "sync" /\ topUps = 0
      BY <1>2, <1>4, <2>2
    <3> QED BY <2>2, <3>1
  <2>7. ~crossed' => ~crossed \/ (topUps' = 0 /\ ~isSyncing')
    <3>1. ~(topUps' > 0) => topUps' = 0
      BY DEF ListTypes, BarTypes
    <3> QED BY <2>2, <3>1, Zenon
  <2> QED BY <2>5, <2>6, <2>7, WorkMoves
<1> QED BY <1>3, <1>4

LEMMA SyncWork ==
    ASSUME ListInv, NEW a \in Accounts, SyncBegins(a) \/ SyncEnds(a), ListTypes', ListKept'
    PROVE  WorkKept'
<1> DEFINE work == Going(slot[account], Here) + Waiting(steps[account], Here)
<1>1. /\ account \in Accounts /\ topUps \in Nat /\ isSyncing \in BOOLEAN /\ crossed \in BOOLEAN
      /\ sourceLabelId(list) = Here /\ Waiting(steps[account], Here) \in Nat
  <2>1. account \in Accounts
    BY DEF ListInv, ListTypes, PlaceTypes
  <2> QED BY <2>1, WorkTypes
<1>2. ~crossed => (isSyncing => slot[account].busy = "sync" /\ topUps = 0) /\ topUps <= work
  BY <1>1 DEF ListInv, WorkKept
<1>3. UNCHANGED <<steps, account, Here>>
  BY DEF SyncBegins, SyncEnds, placeVars, searchVars, Here
<1>4. slot \in [Accounts -> Slots]
  BY DEF ListInv, ListTypes, MailTypes
<1>5. CASE SyncBegins(a)
  <2>1. /\ slot[a].busy = "no" /\ slot' = [slot EXCEPT ![a] = [Free EXCEPT !.busy = "sync"]]
        /\ IF a = account /\ topUps = 0
           THEN Shown(list, topUps, TRUE, exhausted, FALSE)
           ELSE UNCHANGED <<list, barVars, crossed>>
    BY <1>5 DEF SyncBegins
  <2>2. CASE a = account /\ topUps = 0
    <3>1. /\ topUps' = 0 /\ slot'[account].busy = "sync" /\ crossed' = crossed
      BY <1>1, <1>4, <2>1, <2>2, FreeTypes DEF Shown
    <3>2. slot'[account'].busy = "sync"
      BY <1>3, <3>1
    <3> QED BY <3>1, <3>2, WorkNone
  <2>3. CASE a = account /\ topUps # 0
    <3>1. UNCHANGED <<topUps, isSyncing, crossed>> /\ Going(slot[account], Here) = 0
      BY <2>1, <2>3 DEF barVars, Going
    <3>2. ~crossed => ~isSyncing /\ topUps <= Waiting(steps[account], Here)
      BY <1>1, <1>2, <2>1, <2>3, <3>1
    <3>3. Going(slot'[account], Here) \in {0, 1}
      BY DEF Going
    <3> QED BY <1>1, <1>3, <3>1, <3>2, <3>3, WorkMoves
  <2>4. CASE a # account
    <3>1. UNCHANGED <<topUps, isSyncing, crossed>> /\ slot'[account] = slot[account]
      BY <1>1, <1>4, <2>1, <2>4 DEF barVars
    <3> QED BY <1>2, <1>3, <3>1, WorkMoves
  <2> QED BY <2>2, <2>3, <2>4
<1>6. CASE SyncEnds(a)
  <2>1. /\ slot[a].busy = "sync" /\ slot' = [slot EXCEPT ![a] = Free]
        /\ IF a = account THEN \E L : Shown(L, topUps, StillSyncing(a), exhausted, FALSE)
           ELSE UNCHANGED <<barVars, crossed>>
    BY <1>6 DEF SyncEnds
  <2>2. CASE a = account
    <3>1. /\ topUps' = topUps /\ isSyncing' = StillSyncing(a)
          /\ crossed' = (crossed /\ (topUps > 0 \/ StillSyncing(a)))
      BY <2>1, <2>2 DEF Shown
    <3>2. ~crossed => ~isSyncing'
      BY <1>2, <2>2, <3>1 DEF StillSyncing
    <3>3. Going(slot[account], Here) = 0 /\ Going(slot'[account], Here) \in {0, 1}
      BY <2>1, <2>2 DEF Going
    <3>4. ~crossed => topUps' <= Going(slot'[account], Here) + Waiting(steps'[account], Here)
      <4>1. steps'[account] = steps[account]
        BY <1>3
      <4> QED BY <1>1, <1>2, <3>1, <3>3, <4>1
    <3>5. ~crossed' => ~crossed \/ (topUps' = 0 /\ ~isSyncing')
      BY <1>1, <3>1
    <3> QED BY <1>3, <3>2, <3>4, <3>5, WorkMoves
  <2>3. CASE a # account
    <3>1. UNCHANGED <<topUps, isSyncing, crossed>> /\ slot'[account] = slot[account]
      BY <1>1, <1>4, <2>1, <2>3 DEF barVars
    <3> QED BY <1>2, <1>3, <3>1, WorkMoves
  <2> QED BY <2>2, <2>3
<1> QED BY <1>5, <1>6

LEMMA BegunWork ==
    ASSUME ListInv, NEW a \in Accounts, PostRuns(a) \/ tickBackgroundCrawl(a), ListTypes', ListKept'
    PROVE  WorkKept'
<1> DEFINE work == Going(slot[account], Here) + Waiting(steps[account], Here)
<1>1. /\ account \in Accounts /\ topUps \in Nat /\ isSyncing \in BOOLEAN /\ crossed \in BOOLEAN
      /\ sourceLabelId(list) = Here /\ Waiting(steps[account], Here) \in Nat
  <2>1. account \in Accounts
    BY DEF ListInv, ListTypes, PlaceTypes
  <2> QED BY <2>1, WorkTypes
<1>2. ~crossed => (isSyncing => slot[account].busy = "sync" /\ topUps = 0) /\ topUps <= work
  BY <1>1 DEF ListInv, WorkKept
<1>3. UNCHANGED <<steps, account, Here>>
  BY DEF PostRuns, tickBackgroundCrawl, placeVars, searchVars, Here
<1>4. slot \in [Accounts -> Slots]
  BY DEF ListInv, ListTypes, MailTypes
<1>5. UNCHANGED <<slot, barVars, crossed>> \/ (slot[a].busy = "no" /\ \E l : topUpLabel(a, l))
  BY DEF PostRuns, tickBackgroundCrawl
<1>6. CASE UNCHANGED <<slot, barVars, crossed>>
  BY <1>2, <1>3, <1>6, WorkMoves DEF barVars
<1>7. ASSUME slot[a].busy = "no", NEW l, topUpLabel(a, l)
      PROVE  WorkKept'
  <2>1. slot' = [slot EXCEPT ![a] = Listed(a, l, 0)]
    BY <1>7 DEF topUpLabel
  <2>2. CASE a = account
    <3>1. slot'[account] = Listed(a, l, 0) /\ Going(slot[account], Here) = 0
      BY <1>1, <1>4, <1>7, <2>1, <2>2 DEF Going
    <3>2. Going(slot'[account], Here) = IF l = Here THEN 1 ELSE 0
      BY <3>1 DEF Going, Listed
    <3>3. ~crossed => ~isSyncing /\ topUps <= Waiting(steps[account], Here)
      BY <1>1, <1>2, <1>7, <2>2, <3>1
    <3>4. CASE l = Here
      <4>1. topUps' = topUps + 1 /\ isSyncing' = isSyncing /\ crossed' = crossed
        BY <1>1, <1>7, <2>2, <3>4 DEF topUpLabel, Shown
      <4>2. ~crossed => topUps' <= Going(slot'[account], Here) + Waiting(steps'[account], Here)
        BY <1>1, <1>3, <3>2, <3>3, <3>4, <4>1
      <4> QED BY <1>3, <3>3, <4>1, <4>2, WorkMoves
    <3>5. CASE l # Here
      <4>1. UNCHANGED <<topUps, isSyncing, crossed>>
        BY <1>1, <1>7, <2>2, <3>5 DEF topUpLabel, barVars
      <4>2. ~crossed => topUps' <= Going(slot'[account], Here) + Waiting(steps'[account], Here)
        BY <1>1, <1>3, <3>2, <3>3, <3>5, <4>1
      <4> QED BY <1>3, <3>3, <4>1, <4>2, WorkMoves
    <3> QED BY <3>4, <3>5
  <2>3. CASE a # account
    <3>1. UNCHANGED <<topUps, isSyncing, crossed>> /\ slot'[account] = slot[account]
      BY <1>1, <1>4, <1>7, <2>1, <2>3 DEF topUpLabel, barVars
    <3> QED BY <1>2, <1>3, <3>1, WorkMoves
  <2> QED BY <2>2, <2>3
<1> QED BY <1>5, <1>6, <1>7

\* The slot of a top-up given up.
LEMMA FreedWork ==
    ASSUME MailTypes, NEW a \in Accounts, slot[a].busy = "topUp", slot' = [slot EXCEPT ![a] = Free],
           NEW h
    PROVE  Going(slot'[a], h) = 0 /\ Going(slot[a], h) = IF slot[a].label = h THEN 1 ELSE 0
<1>1. slot'[a] = Free
  BY DEF MailTypes
<1> QED BY <1>1 DEF Going, Free

LEMMA FailedWork ==
    ASSUME ListInv, NEW a \in Accounts, TopUpFails(a), ListTypes', ListKept'
    PROVE  WorkKept'
<1>1. MailTypes /\ isSyncing \in BOOLEAN
  BY DEF ListInv, ListTypes, BarTypes
<1>2. PICK l, s, C, L : l = slot[a].label /\ s = StillSyncing(a) /\ C = cached /\ L = list
  BY Zenon
<1>3. /\ slot[a].busy = "topUp" /\ slot' = [slot EXCEPT ![a] = Free]
      /\ UNCHANGED <<steps, account, Here>> /\ topUpFinished(a, C, L, s, l, 0, FALSE)
  BY <1>2 DEF TopUpFails, placeVars, searchVars, Here
<1>4. s => isSyncing
  BY <1>2 DEF StillSyncing
<1>5. a = account /\ ~crossed /\ isSyncing /\ s => slot'[a].busy = "sync"
  <2>1. ~crossed /\ isSyncing => slot[account].busy = "sync" /\ topUps = 0
    BY DEF ListInv, WorkKept
  <2>2. s => ~(a = account /\ topUps = 0)
    BY <1>2 DEF StillSyncing
  <2> QED BY <2>1, <2>2
<1>6. \A h : Going(slot'[a], h) + Waiting(steps'[a], h) =
                 (Going(slot[a], h) + Waiting(steps[a], h)) - IF l = h THEN 1 ELSE 0
  <2> SUFFICES ASSUME NEW h
               PROVE  Going(slot'[a], h) + Waiting(steps'[a], h) =
                          (Going(slot[a], h) + Waiting(steps[a], h)) - IF l = h THEN 1 ELSE 0
    OBVIOUS
  <2>1. Going(slot'[a], h) = 0 /\ Going(slot[a], h) = IF l = h THEN 1 ELSE 0
    BY <1>1, <1>2, <1>3, FreedWork
  <2>2. Waiting(steps[a], h) \in Nat
    BY WorkTypes
  <2>3. steps'[a] = steps[a]
    BY <1>3
  <2> QED BY <2>1, <2>2, <2>3
<1>7. \A b \in Accounts \ {a} : slot'[b] = slot[b] /\ steps'[b] = steps[b]
  BY <1>1, <1>3 DEF MailTypes
<1>8. UNCHANGED <<account, Here>> /\ L.source = list.source /\ L.label = list.label
  BY <1>2, <1>3
<1> QED BY <1>3, <1>4, <1>5, <1>6, <1>7, <1>8, FinishedWork, Zenon

LEMMA AnsweredWork ==
    ASSUME ListInv, NEW a \in Accounts, TopUpAnswered(a), ListTypes', ListKept'
    PROVE  WorkKept'
<1>1. MailTypes /\ BarTypes /\ GoodList(list, account, cached) /\ cached \in SUBSET Ids
  BY DEF ListInv, ListTypes, ListKept, MailTypes
<1>2. PICK l \in Labels : l = slot[a].label
  BY DEF TopUpAnswered
<1>3. PICK pages \in Nat : pages = slot[a].pages + 1
  BY <1>1 DEF MailTypes, Slots
<1>4. PICK q \in Steps : q = [label |-> l, pages |-> pages]
  BY DEF Steps
<1>5. PICK page \in SUBSET Ids : page = Range(Take(Drop(AtGmail(a, l), slot[a].from), PageSize))
  BY <1>1, GmailLists, PageIds DEF MailTypes, Slots
<1>6. PICK C \in SUBSET Ids : C = cached'
  BY <1>1, <1>2, <1>5, PageStored
<1>7. PICK L, s : L = messagesUpdated(a, C) /\ s = StillSyncing(a)
  BY Zenon
<1>8. /\ slot[a].busy = "topUp" /\ slot' = [slot EXCEPT ![a] = Free]
      /\ UNCHANGED <<account, Here>>
      /\ \/ /\ steps' = [steps EXCEPT ![a] = Append(@, q)]
            /\ IF a = account THEN Shown(L, topUps, s, exhausted, FALSE)
               ELSE UNCHANGED <<barVars, crossed>>
         \/ /\ UNCHANGED steps
            /\ \E n, done : topUpFinished(a, C, L, s, l, n, done)
  <2>1. UNCHANGED <<account, Here>>
    BY DEF TopUpAnswered, placeVars, searchVars, Here
  <2>2. slot[a].busy = "topUp"
    BY DEF TopUpAnswered
  <2> QED BY <1>2, <1>3, <1>4, <1>6, <1>7, <2>1, <2>2, AnsweredMoves, Zenon
<1>9. s => isSyncing /\ ~(a = account /\ topUps = 0)
  BY <1>7 DEF StillSyncing
<1>10. ~crossed => (isSyncing => slot[account].busy = "sync" /\ topUps = 0)
  BY DEF ListInv, WorkKept
<1>11. /\ account \in Accounts /\ topUps \in Nat /\ sourceLabelId(list) = Here
       /\ isSyncing \in BOOLEAN /\ crossed \in BOOLEAN
       /\ \A h : Going(slot[account], h) \in {0, 1} /\ Waiting(steps[account], h) \in Nat
  <2>1. account \in Accounts
    BY DEF ListInv, ListTypes, PlaceTypes
  <2> QED BY <2>1, WorkTypes
<1>12. ~crossed => topUps <= Going(slot[account], Here) + Waiting(steps[account], Here)
  BY <1>11 DEF ListInv, WorkKept
<1>13. \A b \in Accounts \ {a} : slot'[b] = slot[b] /\ steps'[b] = steps[b]
  BY <1>1, <1>8 DEF MailTypes
<1>14. \A h : Going(slot'[a], h) = 0 /\ Going(slot[a], h) = IF l = h THEN 1 ELSE 0
  BY <1>1, <1>2, <1>8, FreedWork
<1>15. CASE /\ steps' = [steps EXCEPT ![a] = Append(@, q)]
            /\ IF a = account THEN Shown(L, topUps, s, exhausted, FALSE)
               ELSE UNCHANGED <<barVars, crossed>>
  <2>1. CASE a = account
    <3>1. /\ topUps' = topUps /\ isSyncing' = s /\ crossed' = (crossed /\ (topUps > 0 \/ s))
      BY <1>15, <2>1 DEF Shown
    <3>2. ~crossed => ~isSyncing'
      BY <1>9, <1>10, <2>1, <3>1
    <3>3. PICK r \in Seq(Steps) : r = steps[account]
      BY <1>1, <1>11 DEF MailTypes
    <3>4. steps'[account] = Append(r, q)
      BY <1>1, <1>11, <1>15, <2>1, <3>3 DEF MailTypes
    <3>5. Waiting(Append(r, q), Here) = Waiting(r, Here) + IF l = Here THEN 1 ELSE 0
      BY <1>4, WaitingAppend
    <3>6. ~crossed => topUps' <= Going(slot'[account], Here) + Waiting(steps'[account], Here)
      <4>1. Waiting(steps'[account], Here) = Waiting(steps[account], Here) + IF l = Here THEN 1 ELSE 0
        BY <3>3, <3>4, <3>5
      <4>2. Going(slot'[account], Here) = 0 /\ Going(slot[account], Here) = IF l = Here THEN 1 ELSE 0
        BY <1>14, <2>1
      <4> QED BY <1>11, <1>12, <3>1, <4>1, <4>2
    <3>7. ~crossed' => ~crossed \/ (topUps' = 0 /\ ~isSyncing')
      <4>1. ~(topUps > 0) => topUps = 0
        BY <1>11
      <4> QED BY <3>1, <4>1, Zenon
    <3> QED BY <1>8, <3>2, <3>6, <3>7, WorkMoves
  <2>2. CASE a # account
    <3>1. UNCHANGED <<topUps, isSyncing, crossed>> /\ slot'[account] = slot[account]
          /\ steps'[account] = steps[account]
      BY <1>11, <1>13, <1>15, <2>2 DEF barVars
    <3> QED BY <1>8, <1>10, <1>12, <3>1, WorkMoves
  <2> QED BY <2>1, <2>2
<1>16. CASE UNCHANGED steps /\ \E n, done : topUpFinished(a, C, L, s, l, n, done)
  <2>1. PICK n, done : topUpFinished(a, C, L, s, l, n, done)
    BY <1>16
  <2>2. L.source = list.source /\ L.label = list.label
    BY <1>1, <1>7, UpdatedGood
  <2>3. a = account /\ ~crossed /\ isSyncing /\ s => slot'[a].busy = "sync"
    BY <1>9, <1>10
  <2>4. \A h : Going(slot'[a], h) + Waiting(steps'[a], h) =
                   (Going(slot[a], h) + Waiting(steps[a], h)) - IF l = h THEN 1 ELSE 0
    <3> SUFFICES ASSUME NEW h
                 PROVE  Going(slot'[a], h) + Waiting(steps'[a], h) =
                            (Going(slot[a], h) + Waiting(steps[a], h)) - IF l = h THEN 1 ELSE 0
      OBVIOUS
    <3>1. Going(slot'[a], h) = 0 /\ Going(slot[a], h) = IF l = h THEN 1 ELSE 0
      BY <1>14
    <3>2. Waiting(steps[a], h) \in Nat
      BY WorkTypes
    <3>3. steps'[a] = steps[a]
      BY <1>16
    <3> QED BY <3>1, <3>2, <3>3
  <2>5. (s => isSyncing) /\ UNCHANGED <<account, Here>>
    BY <1>8, <1>9
  <2> QED BY <1>13, <2>1, <2>2, <2>3, <2>4, <2>5, FinishedWork, Zenon
<1> QED BY <1>8, <1>15, <1>16

LEMMA StepWork ==
    ASSUME ListInv, NEW a \in Accounts, topUpLabelStep(a), ListTypes', ListKept'
    PROVE  WorkKept'
<1>1. MailTypes /\ BarTypes
  BY DEF ListInv, ListTypes
<1>2. /\ steps[a] # <<>> /\ steps' = [steps EXCEPT ![a] = Tail(@)] /\ UNCHANGED <<account, Here>>
  BY DEF topUpLabelStep, placeVars, searchVars, Here
<1>3. PICK r \in Seq(Steps) : r = steps[a] /\ r # <<>>
  BY <1>1, <1>2 DEF MailTypes
<1>4. PICK l, n : l = Head(r).label /\ n = Head(r).pages
  BY Zenon
<1>5. PICK C, L, s : C = cached /\ L = list /\ s = isSyncing
  BY Zenon
<1>6. \/ /\ slot[a].busy = "no" /\ slot' = [slot EXCEPT ![a] = Listed(a, l, n)]
         /\ UNCHANGED <<barVars, crossed>>
      \/ UNCHANGED slot /\ topUpFinished(a, C, L, s, l, 0, FALSE)
  BY <1>3, <1>4, <1>5 DEF topUpLabelStep
<1>7. \A h : /\ Waiting(steps[a], h) = Waiting(steps'[a], h) + IF l = h THEN 1 ELSE 0
             /\ Waiting(steps'[a], h) \in Nat
  <2>1. steps'[a] = Tail(r)
    BY <1>1, <1>2, <1>3 DEF MailTypes
  <2>2. Tail(r) \in Seq(Steps)
    BY <1>3
  <2>3. \A h : Waiting(r, h) = Waiting(Tail(r), h) + IF l = h THEN 1 ELSE 0
    BY <1>3, <1>4, WaitingTail
  <2>4. \A h : Waiting(Tail(r), h) \in Nat
    BY <2>2, WaitingType
  <2> QED BY <1>3, <2>1, <2>3, <2>4
<1>8. \A b \in Accounts \ {a} : steps'[b] = steps[b]
  BY <1>1, <1>2 DEF MailTypes
<1>9. ~crossed => (isSyncing => slot[account].busy = "sync" /\ topUps = 0)
  BY DEF ListInv, WorkKept
<1>10. /\ account \in Accounts /\ topUps \in Nat /\ sourceLabelId(list) = Here
       /\ \A h : Going(slot[account], h) \in {0, 1} /\ Waiting(steps[account], h) \in Nat
  <2>1. account \in Accounts
    BY DEF ListInv, ListTypes, PlaceTypes
  <2> QED BY <2>1, WorkTypes
<1>11. ~crossed => topUps <= Going(slot[account], Here) + Waiting(steps[account], Here)
  BY <1>10 DEF ListInv, WorkKept
<1>12. CASE /\ slot[a].busy = "no" /\ slot' = [slot EXCEPT ![a] = Listed(a, l, n)]
            /\ UNCHANGED <<barVars, crossed>>
  <2>1. UNCHANGED <<topUps, isSyncing, crossed>>
    BY <1>12 DEF barVars
  <2>2. CASE a = account
    <3>1. slot'[account] = Listed(a, l, n) /\ Going(slot[account], Here) = 0
      BY <1>1, <1>10, <1>12, <2>2 DEF Going, MailTypes
    <3>2. Going(slot'[account], Here) = IF l = Here THEN 1 ELSE 0
      BY <3>1 DEF Going, Listed
    <3>3. ~crossed => ~isSyncing
      BY <1>9, <1>12, <2>2
    <3>4. /\ Waiting(steps[account], Here) = Waiting(steps'[account], Here) + IF l = Here THEN 1 ELSE 0
          /\ Waiting(steps'[account], Here) \in Nat
      BY <1>7, <2>2
    <3>5. ~crossed => topUps' <= Going(slot'[account], Here) + Waiting(steps'[account], Here)
      BY <1>10, <1>11, <2>1, <3>1, <3>2, <3>4
    <3> QED BY <1>2, <2>1, <3>3, <3>5, WorkMoves
  <2>3. CASE a # account
    <3>1. slot'[account] = slot[account] /\ steps'[account] = steps[account]
      BY <1>1, <1>8, <1>10, <1>12, <2>3 DEF MailTypes
    <3> QED BY <1>2, <1>9, <1>11, <2>1, <3>1, WorkMoves
  <2> QED BY <2>2, <2>3
<1>13. CASE UNCHANGED slot /\ topUpFinished(a, C, L, s, l, 0, FALSE)
  <2>1. a = account /\ ~crossed /\ isSyncing /\ s => slot'[a].busy = "sync"
    BY <1>9, <1>13
  <2>2. \A h : Going(slot'[a], h) + Waiting(steps'[a], h) =
                   (Going(slot[a], h) + Waiting(steps[a], h)) - IF l = h THEN 1 ELSE 0
    <3> SUFFICES ASSUME NEW h
                 PROVE  Going(slot'[a], h) + Waiting(steps'[a], h) =
                            (Going(slot[a], h) + Waiting(steps[a], h)) - IF l = h THEN 1 ELSE 0
      OBVIOUS
    <3>1. Going(slot'[a], h) = Going(slot[a], h) /\ Going(slot[a], h) \in {0, 1}
      BY <1>13, WorkTypes
    <3>2. /\ Waiting(steps[a], h) = Waiting(steps'[a], h) + IF l = h THEN 1 ELSE 0
          /\ Waiting(steps'[a], h) \in Nat
      BY <1>7
    <3> QED BY <3>1, <3>2
  <2>3. /\ \A b \in Accounts \ {a} : slot'[b] = slot[b] /\ steps'[b] = steps[b]
        /\ (s => isSyncing) /\ L.source = list.source /\ L.label = list.label
    BY <1>5, <1>8, <1>13
  <2> QED BY <1>2, <1>13, <2>1, <2>2, <2>3, FinishedWork, Zenon
<1> QED BY <1>6, <1>12, <1>13

LEMMA WindowWork ==
    ASSUME ListInv, ListTypes', ListKept',
           \/ \E a \in Accounts : currentAccountChanged(a) \/ cacheCleared(a)
           \/ \E a \in Accounts, id \in Labels \cup {AllInboxes} : onLabelSelected(a, id)
           \/ onSearchChanged \/ onSearchSubmit \/ SearchAnswered
           \/ (\E m \in Ids : HitArrives(m)) \/ fetchesFromView \/ scrolledToEnd \/ chevronClicked
    PROVE  WorkKept'
<1>1. /\ account \in Accounts /\ topUps \in Nat /\ sourceLabelId(list) = Here
      /\ isSyncing \in BOOLEAN /\ crossed \in BOOLEAN
  <2>1. account \in Accounts
    BY DEF ListInv, ListTypes, PlaceTypes
  <2> QED BY <2>1, WorkTypes
<1>2. ~crossed => /\ isSyncing => slot[account].busy = "sync" /\ topUps = 0
                  /\ topUps <= Going(slot[account], Here) + Waiting(steps[account], Here)
  BY <1>1 DEF ListInv, WorkKept
<1>3. ASSUME UNCHANGED <<account, Here, slot, steps, topUps, isSyncing>>,
             crossed' = crossed \/ crossed' = (crossed /\ (topUps > 0 \/ isSyncing))
      PROVE  WorkKept'
  <2>1. ~crossed' => ~crossed \/ (topUps' = 0 /\ ~isSyncing')
    <3>1. ~(topUps > 0) => topUps = 0
      BY <1>1
    <3> QED BY <1>3, <3>1
  <2> QED BY <1>2, <1>3, <2>1, WorkMoves
<1>4. CASE \E a \in Accounts : currentAccountChanged(a)
  <2>1. topUps' = topUps /\ isSyncing' = isSyncing /\ crossed' = (topUps > 0 \/ isSyncing)
    BY <1>4 DEF currentAccountChanged, Shown
  <2>2. CASE crossed'
    BY <2>2 DEF WorkKept
  <2>3. CASE ~crossed'
    <3>1. ~(topUps > 0) => topUps = 0
      BY <1>1
    <3>2. topUps' = 0 /\ ~isSyncing'
      BY <2>1, <2>3, <3>1, Zenon
    <3> QED BY <3>2, WorkNone
  <2> QED BY <2>2, <2>3
<1>5. CASE \E a \in Accounts : cacheCleared(a)
  <2>1. /\ UNCHANGED <<account, Here, slot, steps, topUps, isSyncing>>
        /\ crossed' = crossed \/ crossed' = (crossed /\ (topUps > 0 \/ isSyncing))
    BY <1>5 DEF cacheCleared, Shown, barVars, placeVars, searchVars, Here
  <2> QED BY <1>3, <2>1
<1>6. ASSUME NEW a \in Accounts, NEW id \in Labels \cup {AllInboxes}, onLabelSelected(a, id)
      PROVE  WorkKept'
  <2>1. PICK c \in BOOLEAN, l \in Labels : Chosen(a, id, c, l)
    BY <1>6, LabelChosen, Zenon
  <2>2. /\ account' = a /\ UNCHANGED slot /\ isSyncing' = isSyncing
        /\ \/ topUps' = topUps /\ crossed' = (topUps > 0 \/ isSyncing)
           \/ topUps' = 0 /\ crossed' = ((crossed \/ a # account) /\ isSyncing)
    BY <2>1 DEF Chosen, Shown, serviceVars
  <2>3. CASE crossed'
    BY <2>3 DEF WorkKept
  <2>4. CASE ~crossed' /\ topUps' = topUps /\ crossed' = (topUps > 0 \/ isSyncing)
    <3>1. ~(topUps > 0) => topUps = 0
      BY <1>1
    <3>2. topUps' = 0 /\ ~isSyncing'
      BY <2>2, <2>4, <3>1, Zenon
    <3> QED BY <3>2, WorkNone
  <2>5. CASE ~crossed' /\ topUps' = 0 /\ crossed' = ((crossed \/ a # account) /\ isSyncing)
    <3>1. isSyncing' => slot'[account'].busy = "sync"
      BY <1>2, <2>2, <2>5
    <3> QED BY <2>5, <3>1, WorkNone
  <2> QED BY <2>2, <2>3, <2>4, <2>5
<1>7. CASE onSearchChanged \/ onSearchSubmit \/ SearchAnswered
  <2>1. /\ UNCHANGED <<account, slot, steps, topUps, isSyncing>>
        /\ \/ UNCHANGED <<Here, crossed>>
           \/ crossed' = ((crossed \/ topUps > 0) /\ (topUps > 0 \/ isSyncing))
    BY <1>7 DEF onSearchChanged, onSearchSubmit, SearchAnswered, Shown, placeVars, serviceVars,
                barVars, ghostVars, Here
  <2>2. CASE UNCHANGED <<Here, crossed>>
    BY <1>3, <2>1, <2>2
  <2>3. CASE crossed' = ((crossed \/ topUps > 0) /\ (topUps > 0 \/ isSyncing))
    <3>1. CASE crossed'
      BY <3>1 DEF WorkKept
    <3>2. CASE ~crossed'
      <4>1. topUps' = 0 /\ (isSyncing => ~crossed)
        <5>1. ~(topUps > 0) => topUps = 0
          BY <1>1
        <5> QED BY <2>1, <2>3, <3>2, <5>1, Zenon
      <4>2. isSyncing' => slot'[account'].busy = "sync"
        BY <1>2, <2>1, <4>1
      <4> QED BY <4>1, <4>2, WorkNone
    <3> QED BY <3>1, <3>2
  <2> QED BY <2>1, <2>2, <2>3
<1>8. CASE (\E m \in Ids : HitArrives(m)) \/ fetchesFromView \/ scrolledToEnd \/ chevronClicked
  <2>1. /\ UNCHANGED <<account, Here, slot, steps, topUps, isSyncing>>
        /\ crossed' = crossed \/ crossed' = (crossed /\ (topUps > 0 \/ isSyncing))
    BY <1>8 DEF HitArrives, fetchesFromView, scrolledToEnd, chevronClicked, Shown, placeVars,
                serviceVars, searchVars, barVars, ghostVars, Here
  <2> QED BY <1>3, <2>1
<1> QED BY <1>4, <1>5, <1>6, <1>7, <1>8

-----------------------------------------------------------------------------
(* The theorems.                                                           *)

LEMMA ListInvInit == ListInit => ListInv
<1> SUFFICES ASSUME ListInit
             PROVE  ListInv
  OBVIOUS
<1>1. /\ Seeded \in SUBSET Ids /\ Home \in Accounts /\ Inbox \in Labels /\ Inbox # Nil
  BY MessageListAssumption, InboxLabel
<1>2. MailTypes
  <2>1. <<>> \in Seq(Steps) /\ <<>> \in Seq(Labels \cup {AllInboxes})
    OBVIOUS
  <2>2. slot \in [Accounts -> Slots] /\ \A a \in Accounts : slot[a].busy = "no"
    BY FreeTypes DEF ListInit
  <2>3. cursor \in [Accounts -> [Labels -> Nat]]
    BY DEF ListInit
  <2>4. steps \in [Accounts -> Seq(Steps)] /\ posted \in [Accounts -> Seq(Labels \cup {AllInboxes})]
    BY <2>1 DEF ListInit
  <2> QED BY <1>1, <2>2, <2>3, <2>4 DEF ListInit, MailTypes
<1>3. PlaceTypes /\ BarTypes
  BY <1>1 DEF ListInit, PlaceTypes, BarTypes
<1>4. ListKept
  <2>1. PICK a \in Accounts, C \in SUBSET Ids : a = account /\ C = cached
    BY <1>1 DEF ListInit
  <2>2. list = reloadCurrentLabel(a, FALSE, Inbox, FALSE, C) /\ ~cross /\ labelId = Inbox /\ ~query
    BY <2>1 DEF ListInit
  <2>3. /\ GoodList(list, a, C) /\ list.source = PlaceSource(FALSE, Inbox, FALSE)
        /\ list.label = PlaceLabel(FALSE, Inbox, FALSE)
    BY <1>1, <2>2, ReloadGood
  <2> QED BY <2>1, <2>2, <2>3 DEF ListKept, PlaceLabel, PlaceSource
<1>5. FooterKept
  BY DEF ListInit, FooterKept
<1>6. ServerKept
  <2>1. \A a \in Accounts, l \in Labels : cursor[a][l] = 0 /\ exhausted[l] = Nil
    BY DEF ListInit
  <2>2. \A a \in Accounts : slot[a].busy = "no" /\ a # Nil
    BY MessageListAssumption DEF ListInit, Free
  <2> QED BY <2>1, <2>2, FetchedNone DEF ServerKept
<1>7. WorkKept
  <2>1. isSyncing = FALSE /\ topUps = 0 /\ account \in Accounts /\ slot[account] \in Slots
        /\ steps[account] \in Seq(Steps)
    BY <1>1, <1>2 DEF ListInit, MailTypes
  <2>2. \A l : Going(slot[account], l) \in {0, 1} /\ Waiting(steps[account], l) \in Nat
    BY <2>1, WaitingType DEF Going
  <2>3. \A l : 0 <= Going(slot[account], l) + Waiting(steps[account], l)
    BY <2>2
  <2> QED BY <2>1, <2>3 DEF WorkKept
<1> QED BY <1>2, <1>3, <1>4, <1>5, <1>6, <1>7 DEF ListInv, ListTypes

LEMMA ServiceInv ==
    ASSUME ListInv, NEW a \in Accounts, Service(a)
    PROVE  ListInv'
<1>1. CASE SyncBegins(a) \/ SyncEnds(a)
  <2>1. ListTypes' /\ Kept /\ ServerKept'
    BY <1>1, SyncTypes, SyncKept, ServiceServer
  <2> QED BY <1>1, <2>1, SyncWork DEF ListInv, Kept
<1>2. CASE PostRuns(a) \/ tickBackgroundCrawl(a)
  <2>1. ListTypes' /\ Kept /\ ServerKept'
    BY <1>2, BegunTypes, BegunKept, ServiceServer
  <2> QED BY <1>2, <2>1, BegunWork DEF ListInv, Kept
<1>3. CASE TopUpFails(a)
  <2>1. ListTypes' /\ Kept /\ ServerKept'
    BY <1>3, FailedTypes, EndedKept, ServiceServer
  <2> QED BY <1>3, <2>1, FailedWork DEF ListInv, Kept
<1>4. CASE TopUpAnswered(a)
  <2>1. ListTypes' /\ Kept /\ ServerKept'
    BY <1>4, AnsweredTypes, AnsweredKept, AnsweredServer
  <2> QED BY <1>4, <2>1, AnsweredWork DEF ListInv, Kept
<1>5. CASE topUpLabelStep(a)
  <2>1. ListTypes' /\ Kept /\ ServerKept'
    BY <1>5, StepTypes, EndedKept, ServiceServer
  <2> QED BY <1>5, <2>1, StepWork DEF ListInv, Kept
<1> QED BY <1>1, <1>2, <1>3, <1>4, <1>5 DEF Service

LEMMA WindowInv ==
    ASSUME ListInv,
           \/ \E a \in Accounts : currentAccountChanged(a) \/ cacheCleared(a)
           \/ \E a \in Accounts, id \in Labels \cup {AllInboxes} : onLabelSelected(a, id)
           \/ onSearchChanged \/ onSearchSubmit \/ SearchAnswered
           \/ (\E m \in Ids : HitArrives(m)) \/ fetchesFromView \/ scrolledToEnd \/ chevronClicked
    PROVE  ListInv'
<1>1. ListTypes'
  BY PlaceStepTypes, SearchTypes, RowsTypes
<1>2. Kept
  BY MovedKept, ClearedKept, ChosenKept, SearchKept, RowsKept
<1>3. ServerKept'
  <2>1. CASE \E a \in Accounts : cacheCleared(a)
    BY <2>1, ClearedServer
  <2>2. CASE ~\E a \in Accounts : cacheCleared(a)
    BY <2>2, WindowServer
  <2> QED BY <2>1, <2>2
<1>4. WorkKept'
  BY <1>1, <1>2, WindowWork DEF Kept
<1> QED BY <1>1, <1>2, <1>3, <1>4 DEF ListInv, Kept

LEMMA ListInvNext == ListInv /\ [ListNext]_listVars => ListInv'
<1> SUFFICES ASSUME ListInv, [ListNext]_listVars
             PROVE  ListInv'
  OBVIOUS
<1>1. ASSUME NEW a \in Accounts, Service(a)
      PROVE  ListInv'
  BY <1>1, ServiceInv
<1>2. CASE \/ \E a \in Accounts : currentAccountChanged(a) \/ cacheCleared(a)
           \/ \E a \in Accounts, id \in Labels \cup {AllInboxes} : onLabelSelected(a, id)
           \/ onSearchChanged \/ onSearchSubmit \/ SearchAnswered
           \/ (\E m \in Ids : HitArrives(m)) \/ fetchesFromView \/ scrolledToEnd \/ chevronClicked
  BY <1>2, WindowInv
<1>3. CASE UNCHANGED listVars
  <2>1. ListTypes' /\ ListKept' /\ FooterKept'
    BY <1>3 DEF ListInv, ListTypes, MailTypes, PlaceTypes, BarTypes, ListKept, FooterKept, listVars,
                serviceVars, placeVars, searchVars, barVars, ghostVars
  <2>2. ServerKept' /\ WorkKept'
    BY <1>3 DEF ListInv, ServerKept, Had, WorkKept, listVars, serviceVars, placeVars, searchVars,
                barVars, ghostVars
  <2> QED BY <2>1, <2>2 DEF ListInv
<1> QED BY <1>1, <1>2, <1>3 DEF ListNext

\* The inductive invariant.
THEOREM ListInvAlways == ListSpec => []ListInv
BY ListInvInit, ListInvNext, PTL DEF ListSpec

\* The window's list, its footer and the services keep their types.
THEOREM ListTypeOKAlways == ListSpec => []ListTypeOK
<1>1. ListInv => ListTypeOK
  BY DEF ListInv, ListTypes, MailTypes, PlaceTypes, BarTypes, ListTypeOK, Slots
<1> QED BY <1>1, ListInvAlways, PTL

\* Paging by offset through a cache that syncs, top-ups and refreshes move under it loads each
\* conversation once and passes none over, and under each open one are its other messages
\* (MessageListModel::fetchMore, refreshFromSource, expandLoadedRows, toggleThreadExpand).
THEOREM LoadedIsPrefixAlways == ListSpec => []LoadedIsPrefix
<1>1. ListInv => LoadedIsPrefix
  <2> SUFFICES ASSUME ListInv, ~list.skew
               PROVE  /\ Parents(list) = Take(Listing(list, account, cached), Len(list.rows))
                      /\ Reopened(list, list.expanded, cached) = list
    BY DEF LoadedIsPrefix
  <2>1. /\ cached \in SUBSET Ids /\ list \in Lists /\ list.source \in Sources
        /\ Fits(list, account, cached)
    BY DEF ListInv, ListTypes, MailTypes, ListKept, GoodList, Lists
  <2>2. PICK F : F = Listing(list, account, cached)
    BY Zenon
  <2>3. F \in Seq(ListRows) /\ \A i \in DOMAIN F : F[i].under = <<>>
    BY <2>1, <2>2, ListingLists
  <2>4. Matches(list.rows, F) /\ Blocks(list.rows, list.expanded, cached)
    BY <2>1, <2>2 DEF Fits
  <2>5. Parents(list) = Take(F, Len(list.rows))
    BY <2>1, <2>3, <2>4, ParentsMatch
  <2>6. Reopened(list, list.expanded, cached) = list
    BY <2>1, <2>4, ReopenedSame
  <2> QED BY <2>2, <2>5, <2>6
<1> QED BY <1>1, ListInvAlways, PTL

\* "No more messages" is shown only when all mail Gmail has of the label is in the list, but for
\* messages a top-up asked for and did not get, which its cursor passes all the same: what
\* serverExhaustedByLabel_ remembers of one label, or one account, is never shown for another
\* (MainWindow's refreshListFooter, SyncService's chained top-ups).
THEOREM NoMoreIsTrueAlways == ListSpec => []NoMoreIsTrue
<1>1. ListInv => NoMoreIsTrue
  <2> SUFFICES ASSUME ListInv, footer = "NoMore", ~list.skew, ~Misled
               PROVE  OldMailLoaded /\ Parents(list) = Listing(list, account, cached)
    BY DEF NoMoreIsTrue
  <2>1. /\ cached \in SUBSET Ids /\ list \in Lists /\ list.source \in Sources
        /\ Fits(list, account, cached) /\ Paged(list) /\ list.drained /\ list.label \in Labels
        /\ exhausted[list.label] # Nil
    BY DEF ListInv, ListTypes, MailTypes, ListKept, FooterKept, GoodList, Lists
  <2>2. account \in Accounts \ torn /\ exhausted[list.label] = account
    BY <2>1 DEF ListInv, ListTypes, PlaceTypes, Misled
  <2>3. Range(AtGmail(account, list.label)) \ (missed \ cached) \subseteq cached
    BY <2>1, <2>2 DEF ListInv, ServerKept, Had
  <2>4. PICK F : F = Listing(list, account, cached)
    BY Zenon
  <2>5. /\ F \in Seq(ListRows) /\ \A i \in DOMAIN F : F[i].under = <<>>
        /\ \A m \in Selected(list.source, list.label, account, cached) :
               \E i \in DOMAIN F : Thread(F[i]) = Mail[m].thread
    BY <2>1, <2>4, ListingLists
  <2>6. Matches(list.rows, F) /\ Len(list.rows) = Len(F)
    BY <2>1, <2>4 DEF Fits
  <2>7. Parents(list) = F
    BY <2>1, <2>5, <2>6, ParentsMatch
  <2>8. ASSUME NEW m \in Range(AtGmail(account, list.label)) \ (missed \ cached)
        PROVE  \E i \in DOMAIN list.rows : Mail[list.rows[i].id].thread = Mail[m].thread
    <3>1. m \in cached /\ Mail[m].account = account /\ HasLabel(m, list.label)
      BY <2>3, LabelledAtGmail
    <3>2. m \in Selected(list.source, list.label, account, cached)
      BY <2>1, <3>1 DEF Selected, Paged
    <3>3. PICK i \in DOMAIN F : Thread(F[i]) = Mail[m].thread
      BY <2>5, <3>2
    <3>4. DOMAIN list.rows = DOMAIN F
      BY <2>1, <2>5, <2>6 DEF Lists
    <3> QED BY <2>6, <3>3, <3>4 DEF Matches, Thread
  <2> QED BY <2>4, <2>7, <2>8 DEF OldMailLoaded
<1> QED BY <1>1, ListInvAlways, PTL

\* "Loading more messages" is shown only while the account's SyncService is at work or about to
\* be: no way through labels, syncs and chained top-ups leaves it behind (topUpsInFlight_,
\* MainWindow.h:334), but for a change of account or a search under a top-up.
THEOREM LoadingMeansWorkAlways == ListSpec => []LoadingMeansWork
<1>1. ListInv => LoadingMeansWork
  <2> SUFFICES ASSUME ListInv, footer = "Loading", ~crossed, slot[account].busy = "no"
               PROVE  steps[account] # <<>>
    BY DEF LoadingMeansWork, ListInv, ListTypes, MailTypes, PlaceTypes, Slots
  <2>1. PICK l : l = sourceLabelId(list)
    BY Zenon
  <2>2. ~isSyncing /\ topUps > 0
    BY DEF ListInv, FooterKept, WorkKept
  <2>3. topUps <= Going(slot[account], l) + Waiting(steps[account], l)
    BY <2>1 DEF ListInv, WorkKept
  <2>4. Going(slot[account], l) = 0
    BY DEF Going
  <2>5. topUps \in Nat /\ Waiting(steps[account], l) \in Nat
    <3>1. account \in Accounts
      BY DEF ListInv, ListTypes, PlaceTypes
    <3> QED BY <3>1, WorkTypes
  <2>6. Waiting(steps[account], l) # 0
    BY <2>2, <2>3, <2>4, <2>5
  <2>7. Waiting(<<>>, l) = 0
    BY FS_EmptySet DEF Waiting, ToGoOn
  <2> QED BY <2>6, <2>7
<1> QED BY <1>1, ListInvAlways, PTL
===============================================================================
