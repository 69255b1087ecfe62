---------------------------- MODULE ReaderProofs ----------------------------
(***************************************************************************)
(* Theorems about Reader with Attachments that hold for every mailbox, every *)
(* set of attachments and every bound: what is open, shown and edited is one *)
(* conversation, and no download takes the place of a file that was there.   *)
(***************************************************************************)
EXTENDS Attachments, FiniteSetTheorems, WellFoundedInduction, TLAPS

-----------------------------------------------------------------------------
(* Messages in order.                                                      *)

LEMMA IdsAreNumbers ==
    /\ Ids \subseteq Nat \ {0} /\ None \notin Ids /\ IsFiniteSet(Ids)
    /\ \A S \in SUBSET Ids : IsFiniteSet(S)
<1>1. Len(Mail) \in Nat /\ Ids = 1 .. Len(Mail)
  BY ReaderAssumption
<1>2. IsFiniteSet(1 .. Len(Mail))
  <2>1. 1 \in Int /\ Len(Mail) \in Int
    BY <1>1
  <2> QED BY ONLY <2>1, FS_Interval
<1>3. ASSUME NEW S \in SUBSET Ids
      PROVE  IsFiniteSet(S)
  BY <1>1, <1>2, FS_Subset
<1>4. Ids \subseteq Nat \ {0} /\ None \notin Ids
  BY <1>1 DEF None
<1> QED BY <1>3, <1>4

LEMMA Least ==
    ASSUME NEW S, S \subseteq Nat, S # {}
    PROVE  \E p \in S : \A q \in S : p <= q
<1>1. PICK p \in S : \A q \in S : ~ (<<q, p>> \in OpToRel(<, Nat))
  BY NatLessThanWellFounded, WFMin
<1>2. \A q \in S : ~ (q < p)
  BY <1>1 DEF OpToRel
<1> QED BY <1>2

\* A set of messages has a latest one.
LEMMA Latest ==
    ASSUME NEW S \in SUBSET Ids, S # {}
    PROVE  \E p \in S : \A q \in S : q <= p
<1>1. Len(Mail) \in Nat /\ \A m \in S : m \in Nat /\ m <= Len(Mail)
  BY ReaderAssumption
<1> DEFINE T == {Len(Mail) - m : m \in S}
<1>2. T \subseteq Nat /\ T # {}
  BY <1>1
<1>3. PICK t \in T : \A u \in T : t <= u
  BY <1>2, Least
<1>4. PICK p \in S : t = Len(Mail) - p
  BY <1>3
<1>5. \A q \in S : Len(Mail) - p <= Len(Mail) - q
  BY <1>3, <1>4
<1> QED BY <1>1, <1>4, <1>5

\* The places of the members of a set, counted from the largest.
LEMMA PlacesOnto ==
    ASSUME NEW H \in SUBSET Ids
    PROVE  /\ Cardinality(H) \in Nat
           /\ \A m \in H : RowAt(H, m) \in 1 .. Cardinality(H)
           /\ \A m, n \in H : RowAt(H, m) = RowAt(H, n) => m = n
           /\ \A i \in 1 .. Cardinality(H) : \E m \in H : RowAt(H, m) = i
<1> DEFINE From(m) == {n \in H : n >= m}
           T == 1 .. Cardinality(H)
           f == [m \in H |-> Cardinality(From(m))]
<1>1. IsFiniteSet(H) /\ Cardinality(H) \in Nat /\ \A m \in H : m \in Nat
  BY IdsAreNumbers, FS_CardinalityType
<1>2. ASSUME NEW m \in H
      PROVE  IsFiniteSet(From(m)) /\ Cardinality(From(m)) \in T
  <2>1. From(m) \in SUBSET H /\ m \in From(m)
    BY <1>1
  <2> HIDE DEF From
  <2>2. IsFiniteSet(From(m)) /\ Cardinality(From(m)) <= Cardinality(H)
    BY <1>1, <2>1, FS_Subset
  <2>3. Cardinality(From(m)) \in Nat /\ Cardinality(From(m)) # 0
    BY <2>1, <2>2, FS_CardinalityType, FS_EmptySet
  <2> QED BY <1>1, <2>2, <2>3
<1>3. ASSUME NEW m \in H, NEW n \in H, m < n
      PROVE  Cardinality(From(m)) # Cardinality(From(n))
  <2>1. From(n) \in SUBSET From(m) /\ m \in From(m) /\ m \notin From(n)
    <3>1. m \in Nat /\ n \in Nat /\ \A k \in H : k \in Nat
      BY <1>1
    <3>2. (\A k \in H : k >= n => k >= m) /\ m >= m /\ ~ (m >= n)
      BY <1>3, <3>1
    <3> QED BY <3>2
  <2> HIDE DEF From
  <2> QED BY <1>2, <2>1, FS_Subset
<1>4. \A m, n \in H : Cardinality(From(m)) = Cardinality(From(n)) => m = n
  <2> SUFFICES ASSUME NEW m \in H, NEW n \in H, m # n
               PROVE  Cardinality(From(m)) # Cardinality(From(n))
    OBVIOUS
  <2>1. m < n \/ n < m
    BY <1>1
  <2> HIDE DEF From
  <2> QED BY <1>3, <2>1
<1>5. f \in Surjection(H, T)
  <2> HIDE DEF From
  <2>1. f \in Injection(H, T)
    BY <1>2, <1>4 DEF Injection, IsInjective
  <2>2. IsFiniteSet(T) /\ Cardinality(T) = Cardinality(H)
    <3>1. 1 \in Int /\ Cardinality(H) \in Int /\ (1 > Cardinality(H) => Cardinality(H) = 0)
      BY <1>1
    <3> QED BY <1>1, <3>1, FS_Interval
  <2> HIDE DEF T, f
  <2> QED BY <1>1, <2>1, <2>2, FS_Injection
<1>6. \A i \in T : \E m \in H : f[m] = i
  BY <1>5 DEF Surjection
<1> QED BY <1>1, <1>2, <1>4, <1>6 DEF RowAt

-----------------------------------------------------------------------------
(* The rows of the list.                                                   *)

\* Rows lists the latest messages, each in its place.
LEMMA RowsList ==
    ASSUME NEW S \in SUBSET Ids
    PROVE  /\ Rows(S) \in Seq(Ids) /\ Heads(S) \in SUBSET S
           /\ \A i \in DOMAIN Rows(S) : Rows(S)[i] \in Heads(S)
           /\ \A m \in Heads(S) : /\ RowAt(Heads(S), m) \in DOMAIN Rows(S)
                                  /\ RowAt(Heads(S), m) \in Nat \ {0}
                                  /\ Rows(S)[RowAt(Heads(S), m)] = m
<1>1. PICK H \in SUBSET Ids : H = Heads(S) /\ H \in SUBSET S
  BY DEF Heads
<1>2. PICK N \in Nat : N = Cardinality(H)
  BY <1>1, PlacesOnto
<1>3. Rows(S) = [i \in 1 .. N |-> CHOOSE m \in H : RowAt(H, m) = i]
  BY <1>1, <1>2 DEF Rows
<1>4. \A i \in 1 .. N : Rows(S)[i] \in H /\ RowAt(H, Rows(S)[i]) = i
  BY <1>2, <1>3, PlacesOnto
<1>5. DOMAIN Rows(S) = 1 .. N /\ Rows(S) \in Seq(Ids)
  <2>1. Rows(S) \in [1 .. N -> Ids]
    BY <1>3, <1>4
  <2> QED BY <2>1
<1>6. ASSUME NEW m \in H
      PROVE  RowAt(H, m) \in 1 .. N /\ Rows(S)[RowAt(H, m)] = m
  <2>1. RowAt(H, m) \in 1 .. N
    BY <1>2, PlacesOnto
  <2> QED BY <1>4, <2>1, PlacesOnto
<1> QED BY <1>1, <1>4, <1>5, <1>6

\* A conversation with a message listed has a row.
LEMMA HeadOf ==
    ASSUME NEW S \in SUBSET Ids, NEW m \in S
    PROVE  \E h \in Heads(S) : Mail[h].thread = Mail[m].thread
<1> DEFINE T == {n \in S : Mail[n].thread = Mail[m].thread}
<1>1. T \in SUBSET Ids /\ T # {}
  OBVIOUS
<1>2. PICK h \in T : \A n \in T : n <= h
  BY <1>1, Latest
<1> QED BY <1>2 DEF Heads

\* A row found again is one of the list, and of the conversation it was looked for by.
LEMMA RowFound ==
    ASSUME NEW S \in SUBSET Ids, NEW m \in Ids \cup {None}
    PROVE  /\ RowOf(S, m) \in Nat /\ RowOfThread(S, m) \in Nat /\ rowRestored(S, m) \in Nat
           /\ m = None => rowRestored(S, m) = 0
           /\ RowOfThread(S, m) = 0 /\ m # None =>
                \A i \in DOMAIN Rows(S) : Mail[Rows(S)[i]].thread # Mail[m].thread
<1> DEFINE same == {n \in Heads(S) : m # None /\ Mail[n].thread = Mail[m].thread}
<1>1. \A n \in same : n \in Heads(S)
  OBVIOUS
<1>2. RowOf(S, m) \in Nat /\ (m = None => RowOf(S, m) = 0)
  BY RowsList, IdsAreNumbers DEF RowOf
<1>3. RowOfThread(S, m) = IF same = {} THEN 0 ELSE RowAt(Heads(S), CHOOSE n \in same : TRUE)
  BY DEF RowOfThread
<1>4. CASE same = {}
  BY <1>2, <1>3, <1>4, RowsList DEF rowRestored
<1>5. CASE same # {}
  <2>1. PICK n \in same : n = CHOOSE k \in same : TRUE
    BY <1>5
  <2>2. RowOfThread(S, m) = RowAt(Heads(S), n) /\ m # None
    BY <1>3, <1>5, <2>1
  <2>3. RowOfThread(S, m) \in Nat \ {0}
    BY <1>1, <2>1, <2>2, RowsList
  <2> QED BY <1>2, <2>2, <2>3 DEF rowRestored
<1> QED BY <1>4, <1>5

-----------------------------------------------------------------------------
(* What the operators of the list and the reader keep.                     *)

\* What is shown and open at one time fits together.
GoodUi(u) ==
    /\ u \in Ui
    /\ u.shows = "mail" => u.current # None /\ u.cards \subseteq Together(u.current)
                                            /\ u.focus \in u.cards
    /\ u.shows = "nothing" => u.current = None
    /\ u.current # None => u.focus \in Together(u.current)

Boxes == [Ids -> SUBSET Known]
Edits == [by: {"nobody", "keys"}, of: SUBSET Ids, read: SUBSET Ids]

LEMMA ListedTypes ==
    ASSUME NEW C \in SUBSET Ids, NEW l, NEW c, NEW a, NEW B
    PROVE  Listed(l, c, a, C, B) \in SUBSET Ids
BY DEF Listed

LEMMA ThreadTypes ==
    ASSUME stored \in SUBSET Ids, NEW m \in Ids
    PROVE  /\ byThread(m) \in SUBSET Ids /\ byThread(m) \subseteq Together(m)
           /\ m \in Together(m) /\ (m \in stored => m \in byThread(m))
BY DEF byThread, Together

LEMMA DiffedTypes ==
    ASSUME NEW B \in Boxes, NEW S, NEW add, NEW remove
    PROVE  Diffed(B, S, add, remove) \in Boxes
BY DEF Diffed, Boxes

\* An empty reader.
LEMMA ClosedGood ==
    ASSUME NEW rows \in Seq(Ids)
    PROVE  GoodUi(Closed(rows)) /\ Closed(rows).rows = rows
BY DEF Closed, GoodUi, Ui, None

\* The list loaded again keeps what is open, or closes it.
LEMMA ReloadedGood ==
    ASSUME NEW u, GoodUi(u), NEW S \in SUBSET Ids
    PROVE  GoodUi(reloaded(u, S)) /\ reloaded(u, S).rows = Rows(S)
<1>1. u \in Ui /\ u.current \in Ids \cup {None}
  BY DEF GoodUi, Ui
<1>2. PICK at \in Nat : at = rowRestored(S, u.current)
  BY <1>1, RowFound
<1>3. PICK rows \in Seq(Ids) : rows = Rows(S)
  BY RowsList
<1>4. CASE at # 0
  <2>1. reloaded(u, S) = [u EXCEPT !.rows = rows, !.selected = at, !.row = at]
    BY <1>2, <1>3, <1>4 DEF reloaded
  <2> QED BY <1>1, <1>3, <2>1 DEF GoodUi, Ui
<1>5. CASE at = 0
  <2>1. reloaded(u, S) = Closed(rows)
    BY <1>2, <1>3, <1>5 DEF reloaded
  <2> QED BY <1>3, <2>1, ClosedGood
<1> QED BY <1>4, <1>5

LEMMA RefreshedGood ==
    ASSUME NEW u, GoodUi(u), NEW S \in SUBSET Ids
    PROVE  GoodUi(refreshed(u, S))
<1>1. u \in Ui /\ u.current \in Ids \cup {None}
  BY DEF GoodUi, Ui
<1>2. PICK at \in Nat : at = RowOf(S, u.current)
  BY <1>1, RowFound
<1>3. PICK rows \in Seq(Ids) : rows = Rows(S)
  BY RowsList
<1>4. refreshed(u, S) = [u EXCEPT !.rows = rows, !.selected = at]
  BY <1>2, <1>3 DEF refreshed
<1> QED BY <1>1, <1>3, <1>4 DEF GoodUi, Ui

\* A message rendered is the open one, with its conversation around it.
LEMMA RenderedGood ==
    ASSUME stored \in SUBSET Ids, NEW u, GoodUi(u), NEW m \in Ids
    PROVE  /\ GoodUi(rendered(u, m)) /\ rendered(u, m).current = m
           /\ rendered(u, m).shows = "mail" /\ rendered(u, m).rows = u.rows
           /\ m \in stored => byThread(m) \subseteq rendered(u, m).cards
<1>1. u \in Ui
  BY DEF GoodUi
<1>2. PICK T \in SUBSET Ids : T = byThread(m)
  BY ThreadTypes
<1>3. T \subseteq Together(m) /\ m \in Together(m) /\ (m \in stored => m \in T)
  BY <1>2, ThreadTypes
<1>4. IsFiniteSet(T) /\ Cardinality(T) \in Nat /\ m # None
  BY IdsAreNumbers, FS_CardinalityType
<1>5. CASE Cardinality(T) > 1
  <2>1. T # {}
    BY <1>4, <1>5, FS_EmptySet
  <2>2. PICK f \in T : f = IF m \notin T THEN CHOOSE n \in T : \A k \in T : k <= n ELSE m
    BY <2>1, Latest
  <2>3. rendered(u, m) = [u EXCEPT !.current = m, !.shows = "mail", !.focus = f, !.cards = T]
    BY <1>2, <1>5, <2>2 DEF rendered
  <2>4. PICK r : r = rendered(u, m)
    OBVIOUS
  <2>5. /\ r.current = m /\ r.shows = "mail" /\ r.focus = f /\ r.cards = T
        /\ r.rows = u.rows /\ r \in Ui
    <3>1. r = [u EXCEPT !.current = m, !.shows = "mail", !.focus = f, !.cards = T]
      BY <2>3, <2>4
    <3>2. f \in Ids /\ T \in SUBSET Ids
      BY <2>2
    <3> HIDE DEF Ids
    <3>3. r = [rows |-> u.rows, selected |-> u.selected, row |-> u.row, current |-> m,
               shows |-> "mail", focus |-> f, cards |-> T]
      BY <1>1, <3>1 DEF Ui
    <3> QED BY <1>1, <3>2, <3>3 DEF Ui
  <2>6. GoodUi(r)
    BY <1>3, <1>4, <2>2, <2>5 DEF GoodUi
  <2> QED BY <1>2, <1>3, <2>4, <2>5, <2>6
<1>6. CASE ~ (Cardinality(T) > 1)
  <2>1. rendered(u, m) = [u EXCEPT !.current = m, !.shows = "mail", !.focus = m, !.cards = {m}]
    BY <1>2, <1>6 DEF rendered
  <2>2. m \in stored => T \subseteq {m}
    <3>1. SUFFICES ASSUME m \in T, NEW n \in T, n # m
                   PROVE  FALSE
      BY <1>3
    <3>2. Cardinality({m, n}) = 2 /\ {m, n} \in SUBSET T
      <4>1. IsFiniteSet({m}) /\ Cardinality({m}) = 1 /\ n \notin {m}
        BY <3>1, FS_Singleton
      <4>2. Cardinality({m} \cup {n}) = Cardinality({m}) + 1
        BY <4>1, FS_AddElement
      <4>3. {m} \cup {n} = {m, n}
        OBVIOUS
      <4> QED BY <3>1, <4>1, <4>2, <4>3
    <3>3. Cardinality({m, n}) <= Cardinality(T)
      BY <1>4, <3>2, FS_Subset
    <3> QED BY <1>4, <1>6, <3>2, <3>3
  <2>4. PICK r : r = rendered(u, m)
    OBVIOUS
  <2>5. /\ r.current = m /\ r.shows = "mail" /\ r.focus = m /\ r.cards = {m}
        /\ r.rows = u.rows /\ r \in Ui
    <3>1. r = [u EXCEPT !.current = m, !.shows = "mail", !.focus = m, !.cards = {m}]
      BY <2>1, <2>4
    <3>2. m \in Ids /\ {m} \in SUBSET Ids
      BY <1>2
    <3> HIDE DEF Ids
    <3>3. r = [rows |-> u.rows, selected |-> u.selected, row |-> u.row, current |-> m,
               shows |-> "mail", focus |-> m, cards |-> {m}]
      BY <1>1, <3>1 DEF Ui
    <3> QED BY <1>1, <3>2, <3>3 DEF Ui
  <2>6. GoodUi(r)
    BY <1>3, <1>4, <2>5 DEF GoodUi
  <2> QED BY <1>2, <1>3, <2>2, <2>4, <2>5, <2>6
<1> QED BY <1>5, <1>6

LEMMA UnshownGood ==
    ASSUME NEW u, GoodUi(u)
    PROVE  GoodUi(showLoading(u)) /\ GoodUi(showFailed(u))
<1>1. u \in Ui
  BY DEF GoodUi
<1> QED BY <1>1 DEF GoodUi, Ui, showLoading, showFailed

\* The row and the view's index say nothing about what is open.
LEMMA RowGood ==
    ASSUME NEW u, GoodUi(u), NEW i \in Nat
    PROVE  /\ GoodUi([u EXCEPT !.row = i]) /\ [u EXCEPT !.row = i].rows = u.rows
           /\ GoodUi([u EXCEPT !.selected = i]) /\ [u EXCEPT !.selected = i].rows = u.rows
<1>1. u \in Ui
  BY DEF GoodUi
<1> QED BY <1>1 DEF GoodUi, Ui

-----------------------------------------------------------------------------
(* The inductive invariant of the reader, and what one step does.          *)

Fetches == [msg: Ids, was: SUBSET Known]
Answers == [msg: Ids, err: BOOLEAN]

ReaderInv ==
    /\ stored \in SUBSET Ids /\ whole \subseteq stored
    /\ box \in Boxes /\ snooze \in [Ids -> {"never", "later", "due"}]
    /\ account \in Accounts /\ cross \in BOOLEAN
    /\ GoodUi(ui)
    /\ fetching \in Seq(Fetches) /\ answers \in Seq(Answers)
    /\ dialog.kind \in OfCurrent \cup OfCard => dialog.about \in Ids

\* What ReadIsSeen and EditsAsAimed say of one step.
ReadSeen ==
    \A m \in queued'.read :
        \/ ui'.shows = "mail" /\ m \in ui'.cards
        \/ ui'.current \notin stored \cup {None}
        \/ \A i \in DOMAIN ui'.rows : ui'.rows[i] \notin Together(m)

Aimed ==
    LET edit == queued'
    IN  /\ edit.by = "keys" => edit.of \subseteq Together(ui.focus)
        /\ edit.by = "card" => edit.of \subseteq ui.cards
        /\ edit.by \in OfCard => edit.of = {dialog.about}
        /\ edit.by \in OfCurrent /\ ui.current = dialog.about =>
              /\ edit.of \subseteq Together(dialog.about)
              /\ edit.by = "delete" => edit.of = {dialog.about}

LEMMA QuietStep ==
    ASSUME queued' = NoEdit
    PROVE  ReadSeen /\ Aimed
BY DEF ReadSeen, Aimed, NoEdit, OfCard, OfCurrent

LEMMA HereTypes ==
    ASSUME ReaderInv, NEW B
    PROVE  Here(B) \in SUBSET Ids
BY ListedTypes DEF Here, ReaderInv

\* A message shown with its conversation marked read.
LEMMA RenderThreadStep ==
    ASSUME ReaderInv, NEW u, GoodUi(u), NEW m \in Ids, NEW B \in Boxes,
           NEW E \in Edits, E.read = {}, renderThread(u, m, B, E)
    PROVE  /\ box' \in Boxes /\ GoodUi(ui') /\ ReadSeen
           /\ queued'.by = E.by /\ queued'.of = E.of
<1>1. stored \in SUBSET Ids
  BY DEF ReaderInv
<1>2. PICK r : r = rendered(u, m)
  OBVIOUS
<1>3. GoodUi(r) /\ r.current = m /\ r.shows = "mail" /\ (m \in stored => byThread(m) \subseteq r.cards)
  BY <1>1, <1>2, RenderedGood
<1>4. PICK T \in SUBSET Ids : T = byThread(m) /\ T \subseteq Together(m)
  BY <1>1, ThreadTypes
<1>5. CASE box' = B /\ ui' = r /\ queued' = E
  BY <1>3, <1>5 DEF ReadSeen
<1>6. CASE /\ box' = Diffed(B, T, {}, {"UNREAD"})
           /\ \E S \in {Here(box')} : ui' = reloaded(r, S)
           /\ queued' = [E EXCEPT !.read = T]
  <2>1. box' \in Boxes
    BY <1>6, DiffedTypes
  <2>2. PICK S \in SUBSET Ids : ui' = reloaded(r, S)
    BY <1>6, HereTypes
  <2>3. GoodUi(ui') /\ ui'.rows = Rows(S)
    BY <1>3, <2>2, ReloadedGood
  <2>4. queued'.by = E.by /\ queued'.of = E.of /\ queued'.read = T
    BY <1>6 DEF Edits
  <2>5. PICK at \in Nat : at = rowRestored(S, m)
    BY RowFound
  <2>6. CASE at # 0
    <3>1. ui' = [r EXCEPT !.rows = Rows(S), !.selected = at, !.row = at]
      BY <1>3, <2>2, <2>5, <2>6 DEF reloaded
    <3>2. ui'.shows = "mail" /\ ui'.cards = r.cards /\ ui'.current = m
      BY <1>3, <3>1 DEF GoodUi, Ui
    <3>3. m \notin stored => ui'.current \notin stored \cup {None}
      BY <3>2, IdsAreNumbers
    <3> QED BY <1>3, <1>4, <2>1, <2>3, <2>4, <3>2, <3>3 DEF ReadSeen
  <2>7. CASE at = 0
    <3>1. RowOfThread(S, m) = 0 /\ m # None
      BY <2>5, <2>7, IdsAreNumbers DEF rowRestored
    <3>2. \A i \in DOMAIN ui'.rows : Mail[ui'.rows[i]].thread # Mail[m].thread
      BY <2>3, <3>1, RowFound
    <3>3. \A n \in T : \A i \in DOMAIN ui'.rows : ui'.rows[i] \notin Together(n)
      BY <1>4, <3>2 DEF Together
    <3> QED BY <2>1, <2>3, <2>4, <3>3 DEF ReadSeen
  <2> QED BY <2>6, <2>7
<1> QED BY <1>2, <1>4, <1>5, <1>6 DEF renderThread

\* A row opened: its message is shown or asked for.
LEMMA ActivatedStep ==
    ASSUME ReaderInv, NEW u, GoodUi(u), NEW i \in DOMAIN u.rows, NEW B \in Boxes,
           NEW E \in Edits, E.read = {}, onMessageActivated(u, i, B, E)
    PROVE  /\ box' \in Boxes /\ GoodUi(ui') /\ ReadSeen /\ fetching' \in Seq(Fetches)
           /\ queued'.by = E.by /\ queued'.of = E.of
<1>1. u.rows \in Seq(Ids) /\ i \in Nat
  BY DEF GoodUi, Ui
<1>2. PICK m \in Ids : m = u.rows[i]
  BY <1>1
<1>3. PICK v : v = [u EXCEPT !.row = i]
  OBVIOUS
<1>4. GoodUi(v)
  BY <1>1, <1>3, RowGood
<1>5. fetching \in Seq(Fetches)
  BY DEF ReaderInv
<1>6. CASE renderThread(v, m, B, E) /\ UNCHANGED fetching
  BY <1>4, <1>5, <1>6, RenderThreadStep
<1>7. CASE /\ ui' = showLoading(v) /\ box' = B /\ queued' = E
           /\ fetching' = Append(fetching, [msg |-> m, was |-> B[m]])
  <2>1. [msg |-> m, was |-> B[m]] \in Fetches
    BY DEF Fetches, Boxes
  <2>2. fetching' \in Seq(Fetches)
    BY <1>5, <1>7, <2>1
  <2> QED BY <1>4, <1>7, <2>2, UnshownGood DEF ReadSeen
<1> QED BY <1>2, <1>3, <1>6, <1>7 DEF onMessageActivated

\* An edit keeps the types, and is about what it was given.
LEMMA EditedStep ==
    ASSUME ReaderInv, NEW by, NEW S, NEW add, NEW remove, edited(by, S, add, remove)
    PROVE  /\ box' \in Boxes /\ GoodUi(ui') /\ ReadSeen
           /\ queued'.by = by /\ queued'.of = S
<1>1. box' \in Boxes
  BY DiffedTypes DEF edited, ReaderInv
<1>2. PICK L \in SUBSET Ids : ui' = reloaded(ui, L)
  BY HereTypes DEF edited
<1>3. GoodUi(ui')
  BY <1>2, ReloadedGood DEF ReaderInv
<1>4. queued' = [by |-> by, of |-> S, read |-> {}]
  BY DEF edited, NoEdit
<1> QED BY <1>1, <1>3, <1>4 DEF ReadSeen

LEMMA NotAimed ==
    ASSUME queued'.by \in {"nobody", "star", "wake"}
    PROVE  Aimed
BY DEF Aimed, OfCard, OfCurrent

LEMMA NoEditTypes == NoEdit \in Edits /\ NoEdit.read = {} /\ NoEdit.by = "nobody"
<1>1. NoEdit.read = {} /\ NoEdit.by = "nobody"
  BY DEF NoEdit
<1>2. NoEdit \in Edits
  BY DEF NoEdit, Edits
<1> QED BY <1>1, <1>2

LEMMA OpenStep ==
    ASSUME ReaderInv, openNext
    PROVE  ReaderInv' /\ ReadSeen /\ Aimed
<1>1. GoodUi(ui) /\ box \in Boxes
  BY DEF ReaderInv
<1>2. ui.rows \in Seq(Ids) /\ ui.selected \in Nat /\ ui.row \in Nat
  BY <1>1 DEF GoodUi, Ui
<1>3. ASSUME NEW u, GoodUi(u), NEW i \in DOMAIN u.rows, onMessageActivated(u, i, box, NoEdit),
             UNCHANGED cacheOnly
      PROVE  ReaderInv' /\ ReadSeen /\ Aimed
  <2>1. /\ box' \in Boxes /\ GoodUi(ui') /\ ReadSeen /\ fetching' \in Seq(Fetches)
        /\ queued'.by = "nobody"
    BY <1>1, <1>3, ActivatedStep, NoEditTypes
  <2> QED BY <1>3, <2>1, NotAimed DEF ReaderInv, cacheOnly, placeVars
<1>4. ASSUME NEW i \in DOMAIN ui.rows, click(i)
      PROVE  ReaderInv' /\ ReadSeen /\ Aimed
  <2>1. PICK u : u = [ui EXCEPT !.selected = i]
    OBVIOUS
  <2>2. GoodUi(u) /\ i \in DOMAIN u.rows
    <3>1. i \in Nat
      BY <1>2
    <3>2. GoodUi(u) /\ u.rows = ui.rows
      BY <1>1, <2>1, <3>1, RowGood
    <3> QED BY <3>2
  <2> QED BY <1>3, <1>4, <2>1, <2>2 DEF click
<1>5. ASSUME NEW step \in {-1, 1}, NEW footer \in {0, 1}, selectAt(step, footer)
      PROVE  ReaderInv' /\ ReadSeen /\ Aimed
  <2> DEFINE n    == Len(ui.rows) + footer
             from == IF ui.selected # 0 THEN ui.selected ELSE ui.row
             at   == IF from + step < 1 THEN 1 ELSE IF from + step > n THEN n ELSE from + step
  <2>1. PICK i \in Nat : i = at
    BY <1>2
  <2>2. PICK u : u = [ui EXCEPT !.selected = i]
    OBVIOUS
  <2>3. GoodUi(u) /\ u.rows = ui.rows
    BY <1>1, <2>1, <2>2, RowGood
  <2>4. /\ IF i \in DOMAIN ui.rows
           THEN onMessageActivated(u, i, box, NoEdit)
           ELSE ui' = u /\ queued' = NoEdit /\ UNCHANGED <<box, fetching>>
        /\ UNCHANGED cacheOnly
    BY <1>5, <2>1, <2>2 DEF selectAt
  <2>5. CASE i \in DOMAIN ui.rows
    BY <1>3, <2>3, <2>4, <2>5
  <2>6. CASE i \notin DOMAIN ui.rows
    BY <2>3, <2>4, <2>6, QuietStep DEF ReaderInv, cacheOnly, placeVars
  <2> QED BY <2>5, <2>6
<1>6. CASE onOpenCurrent
  BY <1>1, <1>3, <1>6 DEF onOpenCurrent
<1> QED BY <1>4, <1>5, <1>6 DEF openNext

LEMMA MoveStep ==
    ASSUME ReaderInv, moveNext
    PROVE  ReaderInv' /\ ReadSeen /\ Aimed
<1>1. GoodUi(ui) /\ stored \in SUBSET Ids
  BY DEF ReaderInv
<1>2. ui.rows \in Seq(Ids) /\ ui.selected \in Nat /\ ui.row \in Nat
  BY <1>1 DEF GoodUi, Ui
<1>3. ASSUME NEW i \in DOMAIN ui.rows, arrow(i)
      PROVE  ReaderInv' /\ queued' = NoEdit
  <2>1. i \in Nat /\ ui' = [ui EXCEPT !.selected = i]
    BY <1>2, <1>3 DEF arrow
  <2>2. GoodUi(ui')
    BY <1>1, <2>1, RowGood
  <2> QED BY <1>3, <2>2 DEF arrow, ReaderInv, cacheOnly, placeVars
<1>4. CASE onBackToList
  <2>1. GoodUi(ui')
    BY <1>1, <1>2, <1>4, RowGood DEF onBackToList
  <2> QED BY <1>4, <2>1, QuietStep DEF onBackToList, ReaderInv, cacheOnly, placeVars
<1>5. CASE onToggleLinkDisplay
  <2>1. GoodUi(ui')
    BY <1>1, <1>5, RenderedGood DEF onToggleLinkDisplay
  <2> QED BY <1>5, <2>1, QuietStep DEF onToggleLinkDisplay, ReaderInv, cacheOnly, placeVars
<1>6. ASSUME NEW a \in Accounts, NEW l, NEW c \in BOOLEAN, onLabelSelected(a, l, c)
      PROVE  ReaderInv' /\ queued' = NoEdit
  <2>1. PICK u : u = IF a = account THEN ui ELSE Closed(<<>>)
    OBVIOUS
  <2>2. GoodUi(u)
    <3>1. <<>> \in Seq(Ids)
      OBVIOUS
    <3>2. GoodUi(Closed(<<>>))
      BY <3>1, ClosedGood
    <3> QED BY <1>1, <2>1, <3>2
  <2>3. PICK L \in SUBSET Ids : ui' = reloaded(u, L)
    BY <1>1, <1>6, <2>1, ListedTypes DEF onLabelSelected
  <2>4. GoodUi(ui')
    BY <2>2, <2>3, ReloadedGood
  <2> QED BY <1>6, <2>4 DEF onLabelSelected, ReaderInv, netVars
<1>7. account \in Accounts
  BY DEF ReaderInv
<1> QED BY <1>3, <1>4, <1>5, <1>6, <1>7, QuietStep DEF moveNext

LEMMA EditStep ==
    ASSUME ReaderInv, editNext
    PROVE  ReaderInv' /\ ReadSeen /\ Aimed
<1>1. GoodUi(ui) /\ box \in Boxes /\ stored \in SUBSET Ids
  BY DEF ReaderInv
<1>2. /\ ui.rows \in Seq(Ids) /\ ui.selected \in Nat /\ ui.row \in Nat
      /\ ui.current \in Ids \cup {None} /\ ui.cards \in SUBSET Ids
  BY <1>1 DEF GoodUi, Ui
<1>3. ui.current # None => byThread(ui.current) \subseteq Together(ui.focus)
  <2>1. SUFFICES ASSUME ui.current # None
                 PROVE  byThread(ui.current) \subseteq Together(ui.focus)
    OBVIOUS
  <2>2. ui.focus \in Together(ui.current) /\ ui.current \in Ids
    BY <1>1, <1>2, <2>1 DEF GoodUi
  <2> QED BY <1>1, <2>2 DEF Together, byThread
<1>4. ASSUME NEW by, NEW S, NEW add, NEW remove, edited(by, S, add, remove),
             UNCHANGED <<cacheOnly, fetching>>
      PROVE  ReaderInv' /\ ReadSeen /\ queued'.by = by /\ queued'.of = S
  <2>1. box' \in Boxes /\ GoodUi(ui') /\ ReadSeen /\ queued'.by = by /\ queued'.of = S
    BY <1>4, EditedStep
  <2> QED BY <1>4, <2>1 DEF ReaderInv, cacheOnly, placeVars
<1>5. ASSUME NEW e \in ThreadEdits, guardedThreadAction(e)
      PROVE  ReaderInv' /\ ReadSeen /\ Aimed
  <2>1. ReaderInv' /\ ReadSeen /\ queued'.by = "keys" /\ queued'.of = byThread(ui.current)
    BY <1>4, <1>5 DEF guardedThreadAction
  <2> QED BY <1>3, <1>5, <2>1 DEF guardedThreadAction, Aimed, OfCard, OfCurrent
<1>6. CASE onMarkImportant
  <2>1. queued' = [by |-> "keys", of |-> byThread(ui.current), read |-> {}] /\ ui.current # None
    BY <1>6 DEF onMarkImportant, NoEdit
  <2>2. box' \in Boxes
    BY <1>1, <1>6, DiffedTypes DEF onMarkImportant
  <2>3. ReaderInv'
    BY <1>6, <2>2 DEF onMarkImportant, ReaderInv, cacheOnly, placeVars
  <2>4. queued'.by = "keys" /\ queued'.of \subseteq Together(ui.focus) /\ queued'.read = {}
    BY <1>3, <2>1
  <2> QED BY <2>3, <2>4 DEF ReadSeen, Aimed, OfCard, OfCurrent
<1>7. ASSUME NEW step \in {"prev", "next"}, NEW footer \in {0, 1}, onArchiveAndGo(step, footer)
      PROVE  ReaderInv' /\ ReadSeen /\ Aimed
  <2>1. PICK T \in SUBSET Ids : T = byThread(ui.current)
    BY <1>1, <1>2, <1>7, ThreadTypes DEF onArchiveAndGo
  <2>2. PICK B \in Boxes : B = Diffed(box, T, {}, {Inbox})
    BY <1>1, DiffedTypes
  <2>3. PICK u : u = reloaded(ui, Here(B))
    OBVIOUS
  <2>4. GoodUi(u)
    BY <1>1, <2>3, ReloadedGood, HereTypes
  <2>5. u.rows \in Seq(Ids)
    BY <2>4 DEF GoodUi, Ui
  <2> DEFINE n  == Len(u.rows) + footer
             at == IF step = "prev" THEN IF ui.row > 1 THEN ui.row - 1 ELSE 1
                   ELSE IF ui.row < n THEN ui.row ELSE n
  <2>6. PICK i \in Nat : i = at
    BY <1>2, <2>5
  <2>7. PICK v : v = IF i \in 1 .. n THEN [u EXCEPT !.selected = i] ELSE u
    OBVIOUS
  <2>8. GoodUi(v) /\ v.rows = u.rows
    BY <2>4, <2>6, <2>7, RowGood
  <2>9. PICK E : E = [NoEdit EXCEPT !.by = "keys", !.of = T]
    OBVIOUS
  <2>10. E \in Edits /\ E.by = "keys" /\ E.of = T /\ E.read = {}
    <3>1. E = [by |-> "keys", of |-> T, read |-> {}]
      BY <2>9 DEF NoEdit
    <3> QED BY <3>1 DEF Edits
  <2>11. IF i \in DOMAIN u.rows THEN onMessageActivated(v, i, B, E)
         ELSE ui' = v /\ box' = B /\ queued' = E /\ UNCHANGED fetching
    BY <1>7, <2>1, <2>2, <2>3, <2>6, <2>7, <2>9 DEF onArchiveAndGo
  <2>12. /\ box' \in Boxes /\ GoodUi(ui') /\ ReadSeen /\ fetching' \in Seq(Fetches)
         /\ queued'.by = "keys" /\ queued'.of = T
    <3>1. CASE i \in DOMAIN u.rows
      BY <2>8, <2>10, <2>11, <3>1, ActivatedStep
    <3>2. CASE i \notin DOMAIN u.rows
      BY <2>8, <2>10, <2>11, <3>2 DEF ReadSeen, ReaderInv
    <3> QED BY <3>1, <3>2
  <2>13. ReaderInv'
    BY <1>7, <2>12 DEF onArchiveAndGo, ReaderInv, cacheOnly, placeVars
  <2> QED BY <1>3, <1>7, <2>1, <2>12, <2>13 DEF onArchiveAndGo, Aimed, OfCard, OfCurrent
<1>8. ASSUME NEW m, onToggleStarFor(m)
      PROVE  ReaderInv' /\ ReadSeen /\ Aimed
  <2>1. ReaderInv' /\ ReadSeen /\ queued'.by = "star"
    BY <1>4, <1>8 DEF onToggleStarFor
  <2> QED BY <2>1, NotAimed
<1>9. ASSUME NEW m, onCardAction(m)
      PROVE  ReaderInv' /\ ReadSeen /\ Aimed
  <2>1. ReaderInv' /\ ReadSeen /\ queued'.by = "card" /\ queued'.of = {m} /\ m \in ui.cards
    BY <1>4, <1>9 DEF onCardAction
  <2> QED BY <2>1 DEF Aimed, OfCard, OfCurrent
<1>10. ASSUME NEW kind, NEW m \in Current \cup ui.cards, ask(kind, m)
       PROVE  ReaderInv' /\ ReadSeen /\ Aimed
  <2>1. m \in Ids
    BY <1>2, <1>10 DEF Current
  <2>2. dialog'.about = m /\ queued' = NoEdit
    BY <1>10 DEF ask
  <2>3. ReaderInv'
    BY <1>10, <2>1, <2>2 DEF ask, ReaderInv, placeVars, netVars
  <2> QED BY <2>2, <2>3, QuietStep
<1> QED BY <1>5, <1>6, <1>7, <1>8, <1>9, <1>10 DEF editNext

LEMMA ConfirmStep ==
    ASSUME ReaderInv, confirm
    PROVE  ReaderInv' /\ ReadSeen /\ Aimed
<1>1. GoodUi(ui) /\ box \in Boxes /\ stored \in SUBSET Ids
  BY DEF ReaderInv
<1>2. ui.current \in Ids \cup {None}
  BY <1>1 DEF GoodUi, Ui
<1>3. PICK S : S = CurrentThread
  OBVIOUS
<1>4. ui.current # None => ui.current \in Ids /\ S = byThread(ui.current)
  BY <1>2, <1>3 DEF CurrentThread, Current
<1>5. dialog.kind \in OfCurrent => dialog.about \in Ids /\ dialog.about # None
  BY IdsAreNumbers DEF ReaderInv
<1>6. dialog.kind \in OfCurrent /\ ui.current = dialog.about => S \subseteq Together(dialog.about)
  BY <1>1, <1>4, <1>5, ThreadTypes
<1>7. ASSUME NEW by, NEW T, NEW add, NEW remove, edited(by, T, add, remove),
             snooze' \in [Ids -> {"never", "later", "due"}]
      PROVE  ReaderInv' /\ ReadSeen /\ queued'.by = by /\ queued'.of = T
  <2>1. box' \in Boxes /\ GoodUi(ui') /\ ReadSeen /\ queued'.by = by /\ queued'.of = T
    BY <1>7, EditedStep
  <2>2. dialog' = NoDialog /\ UNCHANGED <<stored, whole, account, cross, fetching, answers>>
    BY DEF confirm, placeVars, netVars
  <2>3. dialog'.kind \notin OfCurrent \cup OfCard
    BY <2>2 DEF NoDialog, OfCurrent, OfCard
  <2> QED BY <1>7, <2>1, <2>2, <2>3 DEF ReaderInv
<1>8. CASE confirmDelete
  <2>1. PICK T : T = IF dialog.kind = "delete" THEN Current ELSE {dialog.about}
    OBVIOUS
  <2>2. edited(dialog.kind, T, {"TRASH"}, {Inbox})
    BY <1>8, <2>1 DEF confirmDelete
  <2>3. snooze' \in [Ids -> {"never", "later", "due"}]
    BY <1>8 DEF confirmDelete, ReaderInv
  <2>4. ReaderInv' /\ ReadSeen /\ queued'.by = dialog.kind /\ queued'.of = T
    BY <1>7, <2>2, <2>3
  <2>5. CASE dialog.kind = "delete"
    <3>1. ui.current = dialog.about => T = {dialog.about}
      BY <1>5, <2>1, <2>5 DEF Current, OfCurrent
    <3>2. T = {dialog.about} => T \subseteq Together(dialog.about)
      BY <1>1, <1>5, <2>5, ThreadTypes DEF OfCurrent
    <3> QED BY <2>4, <2>5, <3>1, <3>2 DEF Aimed, OfCard, OfCurrent
  <2>6. CASE dialog.kind = "deleteCard"
    BY <2>1, <2>4, <2>6 DEF Aimed, OfCard, OfCurrent
  <2> QED BY <1>8, <2>5, <2>6 DEF confirmDelete
<1>9. CASE confirmSnooze
  <2>1. PICK T : T = IF dialog.kind = "snooze" THEN S ELSE {dialog.about}
    OBVIOUS
  <2>2. edited(dialog.kind, T, {}, {Inbox})
    BY <1>3, <1>9, <2>1 DEF confirmSnooze
  <2>3. snooze' \in [Ids -> {"never", "later", "due"}]
    BY <1>9 DEF confirmSnooze, ReaderInv
  <2>4. ReaderInv' /\ ReadSeen /\ queued'.by = dialog.kind /\ queued'.of = T
    BY <1>7, <2>2, <2>3
  <2>5. CASE dialog.kind = "snooze"
    BY <1>6, <2>1, <2>4, <2>5 DEF Aimed, OfCard, OfCurrent
  <2>6. CASE dialog.kind = "snoozeCard"
    BY <2>1, <2>4, <2>6 DEF Aimed, OfCard, OfCurrent
  <2> QED BY <1>9, <2>5, <2>6 DEF confirmSnooze
<1>10. ASSUME NEW kind \in {"labels", "move"}, dialog.kind = kind, UNCHANGED snooze,
              NEW add, NEW remove,
              \/ UNCHANGED <<box, ui>> /\ queued' = NoEdit
              \/ edited(kind, S, add, remove)
       PROVE  ReaderInv' /\ ReadSeen /\ Aimed
  <2>1. snooze' \in [Ids -> {"never", "later", "due"}]
    BY <1>10 DEF ReaderInv
  <2>2. CASE UNCHANGED <<box, ui>> /\ queued' = NoEdit
    <3>1. dialog' = NoDialog /\ UNCHANGED <<stored, whole, account, cross, fetching, answers>>
      BY DEF confirm, placeVars, netVars
    <3>2. dialog'.kind \notin OfCurrent \cup OfCard
      BY <3>1 DEF NoDialog, OfCurrent, OfCard
    <3> QED BY <2>1, <2>2, <3>1, <3>2, QuietStep DEF ReaderInv
  <2>3. CASE edited(kind, S, add, remove)
    <3>1. ReaderInv' /\ ReadSeen /\ queued'.by = kind /\ queued'.of = S
      BY <1>7, <2>1, <2>3
    <3> QED BY <1>6, <1>10, <3>1 DEF Aimed, OfCard, OfCurrent
  <2> QED BY <1>10, <2>2, <2>3
<1>11. CASE confirmLabels
  <2>1. PICK ticked \in SUBSET UserLabels :
          LET add    == ticked \ dialog.applied
              remove == (dialog.applied \cap UserLabels) \ ticked
          IN  IF add \cup remove = {}
              THEN UNCHANGED <<box, ui>> /\ queued' = NoEdit
              ELSE edited("labels", S, add, remove)
    BY <1>3, <1>11 DEF confirmLabels
  <2>2. PICK add, remove : \/ UNCHANGED <<box, ui>> /\ queued' = NoEdit
                           \/ edited("labels", S, add, remove)
    BY <2>1
  <2> QED BY <1>10, <1>11, <2>2 DEF confirmLabels
<1>12. CASE confirmMove
  <2>1. PICK chosen \in UserLabels :
          LET add    == {chosen} \ dialog.applied
              remove == {labelId} \ {chosen}
          IN  IF add \cup remove = {}
              THEN UNCHANGED <<box, ui>> /\ queued' = NoEdit
              ELSE edited("move", S, add, remove)
    BY <1>3, <1>12 DEF confirmMove
  <2>2. PICK add, remove : \/ UNCHANGED <<box, ui>> /\ queued' = NoEdit
                           \/ edited("move", S, add, remove)
    BY <2>1
  <2> QED BY <1>10, <1>12, <2>2 DEF confirmMove
<1> QED BY <1>8, <1>9, <1>11, <1>12 DEF confirm

LEMMA CancelStep ==
    ASSUME ReaderInv, cancel
    PROVE  ReaderInv' /\ ReadSeen /\ Aimed
BY QuietStep DEF ReaderInv, cancel, placeVars, netVars, NoDialog, OfCurrent, OfCard

\* A call taken out of the queue.
LEMMA RemoveAtTypes ==
    ASSUME NEW S, NEW s \in Seq(S), NEW i \in DOMAIN s
    PROVE  RemoveAt(s, i) \in Seq(S)
BY DEF RemoveAt

LEMMA AnswerStep ==
    ASSUME ReaderInv, gmailAnswers \/ answerShown
    PROVE  ReaderInv' /\ ReadSeen /\ Aimed
<1>1. /\ fetching \in Seq(Fetches) /\ answers \in Seq(Answers) /\ GoodUi(ui) /\ box \in Boxes
      /\ stored \in SUBSET Ids /\ whole \subseteq stored
  BY DEF ReaderInv
<1>2. CASE gmailAnswers
  <2>1. PICK i \in DOMAIN fetching :
          /\ messageArrives(fetching[i]) \/ getMessageFails(fetching[i])
          /\ fetching' = RemoveAt(fetching, i)
    BY <1>2 DEF gmailAnswers
  <2>2. PICK f \in Fetches : f = fetching[i]
    BY <1>1, <2>1
  <2>3. fetching' \in Seq(Fetches)
    BY <1>1, <2>1, RemoveAtTypes
  <2>4. f.msg \in Ids /\ f.was \in SUBSET Known
    BY <2>2 DEF Fetches
  <2>5. /\ answers' \in Seq(Answers) /\ stored' \in SUBSET Ids /\ whole' \subseteq stored'
        /\ box' \in Boxes
    <3>1. CASE messageArrives(f)
      <4>1. [msg |-> f.msg, err |-> FALSE] \in Answers
        BY <2>4 DEF Answers
      <4>2. answers' \in Seq(Answers)
        BY <1>1, <3>1, <4>1 DEF messageArrives
      <4>3. box' \in Boxes
        BY <1>1, <2>4, <3>1 DEF messageArrives, Boxes
      <4> QED BY <1>1, <2>4, <3>1, <4>2, <4>3 DEF messageArrives
    <3>2. CASE getMessageFails(f)
      <4>1. [msg |-> f.msg, err |-> TRUE] \in Answers
        BY <2>4 DEF Answers
      <4> QED BY <1>1, <3>2, <4>1 DEF getMessageFails
    <3> QED BY <2>1, <2>2, <3>1, <3>2
  <2>6. /\ queued' = NoEdit /\ UNCHANGED <<snooze, account, cross, ui, dialog>>
    BY <1>2 DEF gmailAnswers, placeVars
  <2> QED BY <2>3, <2>5, <2>6, QuietStep DEF ReaderInv
<1>3. CASE answerShown
  <2>1. answers # <<>> /\ answers' = Tail(answers)
    BY <1>3 DEF answerShown
  <2>2. PICK a \in Answers : a = Head(answers)
    BY <1>1, <2>1
  <2>3. answers' \in Seq(Answers) /\ a.msg \in Ids
    BY <1>1, <2>1 DEF Answers
  <2>4. IF a.err
        THEN ui' = showFailed(ui) /\ queued' = NoEdit /\ UNCHANGED box
        ELSE renderThread(ui, a.msg, box, NoEdit)
    BY <1>3, <2>2 DEF answerShown
  <2>5. box' \in Boxes /\ GoodUi(ui') /\ ReadSeen /\ queued'.by = "nobody"
    <3>1. CASE ui' = showFailed(ui) /\ queued' = NoEdit /\ UNCHANGED box
      BY <1>1, <3>1, UnshownGood, QuietStep, NoEditTypes
    <3>2. CASE renderThread(ui, a.msg, box, NoEdit)
      BY <1>1, <2>3, <3>2, RenderThreadStep, NoEditTypes
    <3> QED BY <2>4, <3>1, <3>2
  <2>6. UNCHANGED <<stored, whole, snooze, account, cross, fetching, dialog>>
    BY <1>3 DEF answerShown, placeVars
  <2> QED BY <2>3, <2>5, <2>6, NotAimed DEF ReaderInv
<1> QED BY <1>2, <1>3

LEMMA SnoozeStep ==
    ASSUME ReaderInv, snoozeLapses \/ wakeDueSnoozedMessages
    PROVE  ReaderInv' /\ ReadSeen /\ Aimed
<1>1. CASE snoozeLapses
  <2>1. snooze' \in [Ids -> {"never", "later", "due"}]
    BY <1>1 DEF snoozeLapses, ReaderInv
  <2> QED BY <1>1, <2>1, QuietStep DEF snoozeLapses, ReaderInv, placeVars, netVars
<1>2. CASE wakeDueSnoozedMessages
  <2>1. PICK S : edited("wake", S, {Inbox}, {})
    BY <1>2 DEF wakeDueSnoozedMessages
  <2>2. box' \in Boxes /\ GoodUi(ui') /\ ReadSeen /\ queued'.by = "wake"
    BY <2>1, EditedStep
  <2>3. snooze' \in [Ids -> {"never", "later", "due"}]
    BY <1>2 DEF wakeDueSnoozedMessages, Woken, ReaderInv
  <2>4. UNCHANGED <<stored, whole, account, cross, fetching, answers, dialog>>
    BY <1>2 DEF wakeDueSnoozedMessages, placeVars, netVars
  <2> QED BY <2>2, <2>3, <2>4, NotAimed DEF ReaderInv
<1> QED BY <1>1, <1>2

LEMMA SyncStep ==
    ASSUME ReaderInv, syncLands
    PROVE  ReaderInv' /\ ReadSeen /\ Aimed
<1>1. PICK m \in Ids :
        /\ arrives(m) \/ changesAtGmail(m)
        /\ snooze' = [snooze EXCEPT ![m] = IF m \in stored' THEN @ ELSE "never"]
        /\ shownAfterSync(m)
  BY DEF syncLands
<1>2. stored \in SUBSET Ids /\ whole \subseteq stored /\ box \in Boxes /\ GoodUi(ui)
  BY DEF ReaderInv
<1>3. stored' \in SUBSET Ids /\ whole' \subseteq stored' /\ box' \in Boxes
  <2>1. CASE arrives(m)
    <3>1. {Inbox, "UNREAD"} \in SUBSET Known
      BY DEF Known
    <3> QED BY <1>1, <1>2, <2>1, <3>1 DEF arrives, Boxes
  <2>2. CASE changesAtGmail(m)
    <3>1. CASE \E l \in box[m] \cap {Inbox, "UNREAD"} :
                 box' = [box EXCEPT ![m] = @ \ {l}] /\ UNCHANGED <<stored, whole>>
      BY <1>1, <1>2, <3>1 DEF Boxes
    <3>2. CASE stored' = stored \ {m} /\ whole' = whole \ {m} /\ box' = [box EXCEPT ![m] = {}]
      BY <1>1, <1>2, <3>2 DEF Boxes
    <3> QED BY <2>2, <3>1, <3>2 DEF changesAtGmail
  <2> QED BY <1>1, <2>1, <2>2
<1>4. GoodUi(ui')
  <2>1. CASE \E L \in {Listed(labelId, cross, account, stored', box')} : ui' = refreshed(ui, L)
    <3>1. PICK L \in SUBSET Ids : ui' = refreshed(ui, L)
      BY <1>3, <2>1, ListedTypes
    <3> QED BY <1>2, <3>1, RefreshedGood
  <2>2. CASE UNCHANGED ui
    BY <1>2, <2>2
  <2> QED BY <1>1, <2>1, <2>2 DEF shownAfterSync
<1>5. snooze' \in [Ids -> {"never", "later", "due"}]
  <2>1. PICK z : z = IF m \in stored' THEN snooze[m] ELSE "never"
    OBVIOUS
  <2>2. z \in {"never", "later", "due"}
    BY <2>1 DEF ReaderInv
  <2> QED BY <1>1, <2>1, <2>2 DEF ReaderInv
<1>6. UNCHANGED <<account, cross, fetching, answers, dialog>> /\ queued' = NoEdit
  BY DEF syncLands, placeVars, netVars
<1> QED BY <1>3, <1>4, <1>5, <1>6, QuietStep DEF ReaderInv

LEMMA CrashStep ==
    ASSUME ReaderInv, crash
    PROVE  ReaderInv' /\ ReadSeen /\ Aimed
<1>1. box' \in Boxes
  BY DiffedTypes DEF crash, ReaderInv
<1>2. snooze' \in [Ids -> {"never", "later", "due"}]
  BY DEF crash, Woken, ReaderInv
<1>3. Restarted(box')
  BY DEF crash
<1>4. PICK S \in SUBSET Ids : ui' = Closed(Rows(S))
  BY <1>3, HereTypes DEF Restarted
<1>5. GoodUi(ui')
  BY <1>4, RowsList, ClosedGood
<1>6. /\ fetching' = <<>> /\ answers' = <<>> /\ dialog'.kind = "none" /\ queued' = NoEdit
      /\ UNCHANGED <<stored, whole, account, cross>>
  BY <1>3 DEF Restarted, NoDialog, placeVars
<1>7. <<>> \in Seq(Fetches) /\ <<>> \in Seq(Answers)
  OBVIOUS
<1> QED BY <1>1, <1>2, <1>5, <1>6, <1>7, QuietStep DEF ReaderInv, OfCurrent, OfCard

LEMMA RunStep ==
    ASSUME ReaderInv, runNext \/ crash
    PROVE  ReaderInv' /\ ReadSeen /\ Aimed
BY OpenStep, MoveStep, EditStep, CancelStep, ConfirmStep, AnswerStep, SnoozeStep, SyncStep,
   CrashStep DEF runNext

\* The chips and the downloads leave the reader as it is.
LEMMA AttachmentStep ==
    ASSUME ReaderInv, attachmentNext
    PROVE  ReaderInv' /\ ReadSeen /\ Aimed
<1>1. UNCHANGED readerIdle /\ queued' = NoEdit
  BY DEF attachmentNext, onOpenAttachment, onSaveAs, onDownloadAll, askWhere, pickedWhere,
         downloadEnds
<1>2. dialog' = dialog \/ dialog'.kind \notin OfCurrent \cup OfCard
  <2>1. CASE \E a \in Parts : onOpenAttachment(a)
    BY <2>1 DEF onOpenAttachment
  <2>2. ASSUME NEW kind \in PickerKinds, NEW m, NEW S, askWhere(kind, m, S)
        PROVE  dialog'.kind \notin OfCurrent \cup OfCard
    BY <2>2 DEF askWhere, PickerKinds, OfCurrent, OfCard
  <2>3. CASE pickedWhere
    BY <2>3 DEF pickedWhere, NoDialog, OfCurrent, OfCard
  <2>4. CASE downloadEnds
    BY <2>4 DEF downloadEnds
  <2> QED BY <2>1, <2>2, <2>3, <2>4 DEF attachmentNext, onSaveAs, onDownloadAll, PickerKinds
<1> QED BY <1>1, <1>2, QuietStep DEF ReaderInv, readerIdle, placeVars, netVars

LEMMA ReaderInit ==
    ASSUME Init
    PROVE  ReaderInv
<1>1. stored \in SUBSET Ids /\ whole \subseteq stored /\ box \in Boxes
  BY ReaderAssumption DEF Init, Boxes
<1>2. snooze \in [Ids -> {"never", "later", "due"}] /\ cross \in BOOLEAN
  BY DEF Init
<1>3. account \in Accounts
  BY ReaderAssumption DEF Init
<1>4. PICK S \in SUBSET Ids : ui = Closed(Rows(S))
  BY <1>1, ListedTypes DEF Init
<1>5. GoodUi(ui)
  BY <1>4, RowsList, ClosedGood
<1>6. fetching \in Seq(Fetches) /\ answers \in Seq(Answers)
  BY DEF Init
<1>7. dialog.kind \notin OfCurrent \cup OfCard
  BY DEF Init, NoDialog, OfCurrent, OfCard
<1> QED BY <1>1, <1>2, <1>3, <1>5, <1>6, <1>7 DEF ReaderInv

\* One step of the window, or none.
LEMMA ReaderStep ==
    ASSUME ReaderInv, [WindowNext]_windowVars
    PROVE  ReaderInv' /\ (UNCHANGED vars \/ (ReadSeen /\ Aimed))
<1>1. CASE readerNext
  BY <1>1, RunStep DEF readerNext
<1>2. CASE attachmentNext
  BY <1>2, AttachmentStep
<1>3. CASE UNCHANGED windowVars
  BY <1>3 DEF windowVars, vars, ReaderInv, placeVars, netVars
<1> QED BY <1>1, <1>2, <1>3 DEF WindowNext

\* The inductive invariant of the reader: the types, with what the reader shows and what it
\* would edit of one conversation, and each open question about a message.
THEOREM ReaderInvAlways == WindowSpec => []ReaderInv
<1>1. WindowInit => ReaderInv
  BY ReaderInit DEF WindowInit
<1>2. ReaderInv /\ [WindowNext]_windowVars => ReaderInv'
  BY ReaderStep
<1> QED BY <1>1, <1>2, PTL DEF WindowSpec

\* The cache, the list and the reader keep their types, whatever is opened, edited, synced,
\* fetched, downloaded or cut short by a crash.
THEOREM TypeOKAlways == WindowSpec => []TypeOK
<1>1. ReaderInv => TypeOK
  BY DEF ReaderInv, TypeOK, Boxes, GoodUi
<1> QED BY <1>1, ReaderInvAlways, PTL

\* Mail in the reader is the conversation of currentMessage_, and an empty reader has no current
\* message behind it for the toolbar to act on (MainWindow::renderThread, reloadCurrentLabel).
THEOREM ReaderAgreesAlways == WindowSpec => []ReaderAgrees
<1>1. ReaderInv => ReaderAgrees
  BY DEF ReaderInv, ReaderAgrees, GoodUi
<1> QED BY <1>1, ReaderInvAlways, PTL

\* What opening marks read is what the reader then shows, or the label no longer lists the
\* conversation, or the message was deleted while it was fetched.
THEOREM ReadIsSeenAlways == WindowSpec => ReadIsSeen
<1>1. ReaderInv /\ [WindowNext]_windowVars => [ReadSeen]_vars
  BY ReaderStep
<1>2. [][ReadSeen]_vars => ReadIsSeen
  BY PTL DEF ReadSeen, ReadIsSeen
<1> QED BY <1>1, <1>2, ReaderInvAlways, PTL DEF WindowSpec

\* Whatever syncs, answers and wake-ups come in between, the toolbar edits the conversation last
\* shown, a card and its question their one message, and a question the message it was about.
THEOREM EditsAsAimedAlways == WindowSpec => EditsAsAimed
<1>1. ReaderInv /\ [WindowNext]_windowVars => [Aimed]_vars
  BY ReaderStep
<1>2. [][Aimed]_vars => EditsAsAimed
  BY PTL DEF Aimed, EditsAsAimed
<1> QED BY <1>1, <1>2, ReaderInvAlways, PTL DEF WindowSpec

-----------------------------------------------------------------------------
(* The files of the attachments.                                           *)

DownloadTypes == [of: Parts, path: Paths \cup {NoPath}, found: 0 .. Cut, met: BOOLEAN]

\* What a download is going to overwrite it was asked for or has met, or its number is the last.
FoundStands(d, F) ==
    d.path # NoPath => d.found = F[d.path] \/ d.met \/ d.path.number = MaxNames

FilesInv ==
    /\ WindowTypeOK
    /\ \A d \in downloads : FoundStands(d, files)

\* What FilesKept says of one step.
KeptStep ==
    \A p \in Paths : files[p] # Empty /\ files'[p] \notin {files[p], Empty} =>
        \/ \E d \in downloads : d.path = p /\ (d.found = files[p] \/ d.met)
        \/ p.number = MaxNames

LEMMA PartTypes ==
    /\ Len(Attached) \in Nat /\ MaxNames \in Nat \ {0} /\ Cut \in Nat /\ Own \in 0 .. Cut
    /\ Cut \in 0 .. Cut /\ Empty \in 0 .. Cut /\ Parts \subseteq 0 .. Cut /\ NoPath \notin Paths
    /\ \A a \in Parts : Attached[a].name \in Names
BY AttachmentsAssumption DEF Cut, Own, Empty, NoPath, Paths, Names

\* There always is a name to take: one that is free, or the one with the last number.
LEMMA TargetFound ==
    ASSUME NEW dir \in {"home", "temp"}, NEW name \in Names
    PROVE  LET p == uniqueTargetPath(dir, name)
           IN  p \in Paths /\ (files[p] = Empty \/ p.number = MaxNames)
<1> DEFINE P(i) == [dir |-> dir, name |-> name, number |-> i]
           Free0(i) == files[P(i)] = Empty \/ i = MaxNames
           T == {i \in 0 .. MaxNames : Free0(i)}
<1>1. MaxNames \in Nat
  BY PartTypes
<1>2. T \subseteq Nat /\ MaxNames \in T
  BY <1>1
<1>3. PICK i \in T : \A j \in T : i <= j
  <2> HIDE DEF T
  <2> QED BY <1>2, Least
<1>4. P(i) \in Paths /\ P(i).dir = dir /\ P(i).name = name /\ P(i).number = i
  BY <1>3 DEF Paths
<1>5. ASSUME NEW q \in Paths, q.dir = dir, q.name = name, q.number < i
      PROVE  files[q] # Empty
  <2>1. q = P(q.number) /\ q.number \in 0 .. MaxNames
    BY <1>5 DEF Paths
  <2>2. q.number \notin T
    BY <1>1, <1>2, <1>3, <1>5, <2>1
  <2> QED BY <2>1, <2>2
<1>6. \E p \in Paths :
        /\ p.dir = dir /\ p.name = name
        /\ files[p] = Empty \/ p.number = MaxNames
        /\ \A q \in Paths : q.dir = dir /\ q.name = name /\ q.number < p.number
                            => files[q] # Empty
  <2>1. files[P(i)] = Empty \/ P(i).number = MaxNames
    BY <1>3, <1>4
  <2> HIDE DEF P
  <2> QED BY <1>4, <1>5, <2>1
<1> QED BY <1>6 DEF uniqueTargetPath

LEMMA FilesInit ==
    ASSUME WindowInit
    PROVE  FilesInv
<1>1. files \in [Paths -> 0 .. Cut] /\ saved \in [Parts -> Paths \cup {NoPath}]
  BY PartTypes DEF WindowInit
<1>2. picked = {} /\ downloads = {}
  BY DEF WindowInit
<1> QED BY <1>1, <1>2 DEF FilesInv, WindowTypeOK

\* The reader's own steps drop rows, and a crash drops the downloads.
LEMMA FilesReaderStep ==
    ASSUME FilesInv, readerNext
    PROVE  FilesInv' /\ KeptStep
<1>1. saved' \in [Parts -> Paths \cup {NoPath}]
  BY DEF FilesInv, WindowTypeOK, readerNext, RowsFollow
<1>2. picked' \subseteq Parts /\ (picked' # {} => dialog'.kind \in PickerKinds)
  BY DEF FilesInv, WindowTypeOK, readerNext
<1>3. CASE UNCHANGED <<files, downloads>>
  BY <1>1, <1>2, <1>3 DEF FilesInv, WindowTypeOK, KeptStep
<1>4. CASE files' = TempEmptied /\ downloads' = {}
  <2>1. files' \in [Paths -> 0 .. Cut] /\ \A p \in Paths : files'[p] \in {files[p], Empty}
    BY <1>4, PartTypes DEF FilesInv, WindowTypeOK, TempEmptied
  <2> QED BY <1>1, <1>2, <1>4, <2>1 DEF FilesInv, WindowTypeOK, KeptStep
<1> QED BY <1>3, <1>4 DEF readerNext

\* New downloads, their paths chosen.
LEMMA AskedStep ==
    ASSUME FilesInv, UNCHANGED <<files, saved>>,
           NEW D \in SUBSET DownloadTypes, downloads' = downloads \cup D,
           \A d \in D : FoundStands(d, files),
           picked' \in SUBSET Parts, picked' # {} => dialog'.kind \in PickerKinds
    PROVE  FilesInv' /\ KeptStep
<1>1. files' \in [Paths -> 0 .. Cut] /\ saved' \in [Parts -> Paths \cup {NoPath}]
  BY DEF FilesInv, WindowTypeOK
<1>2. downloads' \in SUBSET DownloadTypes
  BY DEF FilesInv, WindowTypeOK, DownloadTypes
<1>3. \A d \in downloads' : FoundStands(d, files')
  BY DEF FilesInv
<1>4. KeptStep
  BY DEF KeptStep
<1> QED BY <1>1, <1>2, <1>3, <1>4 DEF FilesInv, WindowTypeOK, DownloadTypes

\* A download writes where it was told to, or where there was nothing.
LEMMA WrittenStep ==
    ASSUME FilesInv, NEW d \in downloads, NEW c \in Nat, c \in 0 .. Cut, c # Empty,
           files' = [files EXCEPT ![Target(d)] = c],
           downloads' = Met(downloads \ {d}, Target(d))
    PROVE  /\ files' \in [Paths -> 0 .. Cut] /\ downloads' \in SUBSET DownloadTypes
           /\ \A e \in downloads' : FoundStands(e, files')
           /\ KeptStep
<1>1. files \in [Paths -> 0 .. Cut] /\ downloads \in SUBSET DownloadTypes
  BY DEF FilesInv, WindowTypeOK, DownloadTypes
<1>2. d.of \in Parts /\ d.path \in Paths \cup {NoPath}
  BY <1>1 DEF DownloadTypes
<1>3. PICK t : t = Target(d)
  OBVIOUS
<1>4. t \in Paths /\ (d.path = NoPath => files[t] = Empty \/ t.number = MaxNames)
                  /\ (d.path # NoPath => t = d.path)
  <2>1. CASE d.path = NoPath
    BY <1>2, <1>3, <2>1, TargetFound, PartTypes DEF Target
  <2>2. CASE d.path # NoPath
    BY <1>2, <1>3, <2>2 DEF Target
  <2> QED BY <2>1, <2>2
<1>5. files' = [files EXCEPT ![t] = c] /\ files' \in [Paths -> 0 .. Cut]
  BY <1>1, <1>3, <1>4
<1>6. downloads' = {[e EXCEPT !.met = e.met \/ e.path = t] : e \in downloads \ {d}}
  BY <1>3 DEF Met
<1>7. ASSUME NEW x \in downloads'
      PROVE  x \in DownloadTypes /\ FoundStands(x, files')
  <2>1. PICK e \in downloads : x = [e EXCEPT !.met = e.met \/ e.path = t]
    BY <1>6
  <2>2. e \in DownloadTypes /\ FoundStands(e, files)
    BY <1>1 DEF FilesInv
  <2>3. PICK b \in BOOLEAN : b = (e.met \/ e.path = t)
    OBVIOUS
  <2>4. x = [of |-> e.of, path |-> e.path, found |-> e.found, met |-> b]
    BY <2>1, <2>2, <2>3 DEF DownloadTypes
  <2>5. x \in DownloadTypes
    BY <2>2, <2>4 DEF DownloadTypes
  <2>6. x.path = e.path /\ x.found = e.found /\ x.met = b
    BY <2>4
  <2>7. e.path \in Paths /\ e.path # t => files'[e.path] = files[e.path]
    BY <1>1, <1>5
  <2>8. e.path \in Paths \cup {NoPath}
    BY <2>2 DEF DownloadTypes
  <2> HIDE DEF NoPath
  <2> QED BY <2>2, <2>3, <2>5, <2>6, <2>7, <2>8 DEF FoundStands
<1>8. KeptStep
  <2>1. SUFFICES ASSUME NEW p \in Paths, files[p] # Empty, files'[p] \notin {files[p], Empty}
                 PROVE  \/ \E e \in downloads : e.path = p /\ (e.found = files[p] \/ e.met)
                        \/ p.number = MaxNames
    BY DEF KeptStep
  <2>2. p = t
    BY <1>1, <1>5, <2>1
  <2>3. CASE d.path = NoPath
    BY <1>4, <2>1, <2>2, <2>3
  <2>4. CASE d.path # NoPath
    <3>1. d.path = p /\ FoundStands(d, files)
      BY <1>4, <2>2, <2>4 DEF FilesInv
    <3> QED BY <2>4, <3>1 DEF FoundStands
  <2> QED BY <2>3, <2>4
<1> QED BY <1>5, <1>7, <1>8

LEMMA FilesAttachmentStep ==
    ASSUME FilesInv, attachmentNext
    PROVE  FilesInv' /\ KeptStep
<1>1. /\ files \in [Paths -> 0 .. Cut] /\ saved \in [Parts -> Paths \cup {NoPath}]
      /\ picked \in SUBSET Parts /\ downloads \in SUBSET DownloadTypes
  BY DEF FilesInv, WindowTypeOK, DownloadTypes
<1>2. ASSUME NEW a \in Parts, NEW p \in Paths \cup {NoPath}, NEW f \in 0 .. Cut
      PROVE  /\ Download(a, p, f) \in DownloadTypes
             /\ Download(a, p, f).path = p /\ Download(a, p, f).found = f
  BY <1>2 DEF Download, DownloadTypes
<1>3. ASSUME NEW a \in Parts, onOpenAttachment(a)
      PROVE  FilesInv' /\ KeptStep
  <2>1. PICK d : d = Download(a, NoPath, Empty)
    OBVIOUS
  <2>2. d \in DownloadTypes /\ d.path = NoPath
    BY <1>2, <2>1, PartTypes
  <2>3. /\ downloads' = downloads \cup {d} /\ UNCHANGED <<dialog, files, saved, picked>>
    BY <1>3, <2>1 DEF onOpenAttachment
  <2>4. picked' \in SUBSET Parts /\ (picked' # {} => dialog'.kind \in PickerKinds)
    BY <2>3 DEF FilesInv, WindowTypeOK
  <2>5. FoundStands(d, files)
    BY <2>2 DEF FoundStands
  <2>6. {d} \in SUBSET DownloadTypes /\ \A e \in {d} : FoundStands(e, files)
    BY <2>2, <2>5
  <2> QED BY <2>3, <2>4, <2>6, AskedStep
<1>4. ASSUME NEW kind \in PickerKinds, NEW m, NEW S \in SUBSET Parts, askWhere(kind, m, S)
      PROVE  FilesInv' /\ KeptStep
  BY <1>4 DEF askWhere, FilesInv, WindowTypeOK, KeptStep
<1>5. ASSUME NEW a \in Parts, onSaveAs(a)
      PROVE  FilesInv' /\ KeptStep
  BY <1>4, <1>5 DEF onSaveAs, PickerKinds
<1>6. ASSUME NEW m, onDownloadAll(m)
      PROVE  FilesInv' /\ KeptStep
  BY <1>4, <1>6 DEF onDownloadAll, PickerKinds, AttachmentsOf
<1>7. CASE pickedWhere
  <2>1. picked' = {} /\ UNCHANGED <<files, saved>>
    BY <1>7 DEF pickedWhere
  <2>2. CASE saveAsPicked
    <3>1. PICK a \in picked, p \in Paths : downloads' = downloads \cup {Download(a, p, files[p])}
      BY <2>2 DEF saveAsPicked
    <3>2. PICK d : d = Download(a, p, files[p])
      OBVIOUS
    <3>3. d \in DownloadTypes /\ d.path = p /\ d.found = files[p]
      BY <1>1, <1>2, <3>2
    <3>4. {d} \in SUBSET DownloadTypes /\ \A e \in {d} : FoundStands(e, files)
      BY <3>3 DEF FoundStands
    <3> QED BY <2>1, <3>1, <3>2, <3>4, AskedStep
  <2>3. CASE saveAllPicked
    <3>1. PICK D : D = {Download(a, uniqueTargetPath("home", Attached[a].name), Empty) : a \in picked}
      OBVIOUS
    <3>2. ASSUME NEW e \in D
          PROVE  e \in DownloadTypes /\ FoundStands(e, files)
      <4>1. PICK a \in Parts : e = Download(a, uniqueTargetPath("home", Attached[a].name), Empty)
        BY <1>1, <3>1
      <4>2. PICK p : p = uniqueTargetPath("home", Attached[a].name)
        OBVIOUS
      <4>3. p \in Paths /\ (files[p] = Empty \/ p.number = MaxNames)
        BY <4>2, TargetFound, PartTypes
      <4>4. e \in DownloadTypes /\ e.path = p /\ e.found = Empty
        BY <1>2, <4>1, <4>2, <4>3, PartTypes
      <4> QED BY <4>3, <4>4 DEF FoundStands
    <3>3. D \in SUBSET DownloadTypes /\ downloads' = downloads \cup D
      BY <2>3, <3>1, <3>2 DEF saveAllPicked
    <3> QED BY <2>1, <3>2, <3>3, AskedStep
  <2> QED BY <1>7, <2>2, <2>3 DEF pickedWhere
<1>8. CASE downloadEnds
  <2>1. PICK d \in downloads : attachmentArrives(d) \/ downloadFails(d)
    BY <1>8 DEF downloadEnds
  <2>2. picked' \in SUBSET Parts /\ (picked' # {} => dialog'.kind \in PickerKinds)
    BY <1>8 DEF downloadEnds, FilesInv, WindowTypeOK
  <2>3. d.of \in Parts /\ d.path \in Paths \cup {NoPath}
    BY <1>1 DEF DownloadTypes
  <2>4. CASE attachmentArrives(d)
    <3>1. d.of \in Nat /\ d.of \in 0 .. Cut /\ d.of # Empty
      BY <2>3, AttachmentsAssumption, PartTypes DEF Empty
    <3>2. /\ files' \in [Paths -> 0 .. Cut] /\ downloads' \in SUBSET DownloadTypes
          /\ \A e \in downloads' : FoundStands(e, files')
          /\ KeptStep
      BY <2>4, <3>1, WrittenStep DEF attachmentArrives
    <3>3. saved' \in [Parts -> Paths \cup {NoPath}]
      <4>1. CASE UNCHANGED saved
        BY <1>1, <4>1
      <4>2. CASE saved' = [saved EXCEPT ![d.of] = IF Attached[d.of].msg \in whole THEN d.path ELSE @]
        BY <1>1, <2>3, <4>2
      <4> QED BY <2>4, <4>1, <4>2 DEF attachmentArrives, markDownloaded
    <3> QED BY <2>2, <3>2, <3>3 DEF FilesInv, WindowTypeOK, DownloadTypes
  <2>5. CASE downloadFails(d)
    <3>1. CASE UNCHANGED files /\ downloads' = downloads \ {d}
      <4>1. saved' \in [Parts -> Paths \cup {NoPath}]
        BY <1>1, <2>5 DEF downloadFails
      <4>2. KeptStep
        BY <3>1 DEF KeptStep
      <4> QED BY <1>1, <2>2, <3>1, <4>1, <4>2 DEF FilesInv, WindowTypeOK, DownloadTypes
    <3>2. CASE files' = [files EXCEPT ![Target(d)] = Cut] /\ downloads' = Met(downloads \ {d}, Target(d))
      <4>1. Cut \in Nat /\ Cut \in 0 .. Cut /\ Cut # Empty
        BY PartTypes DEF Cut, Empty
      <4>2. /\ files' \in [Paths -> 0 .. Cut] /\ downloads' \in SUBSET DownloadTypes
            /\ \A e \in downloads' : FoundStands(e, files')
            /\ KeptStep
        BY <3>2, <4>1, WrittenStep
      <4>3. saved' \in [Parts -> Paths \cup {NoPath}]
        BY <1>1, <2>5 DEF downloadFails
      <4> QED BY <2>2, <4>2, <4>3 DEF FilesInv, WindowTypeOK, DownloadTypes
    <3> QED BY <2>5, <3>1, <3>2 DEF downloadFails
  <2> QED BY <2>1, <2>4, <2>5
<1> QED BY <1>3, <1>5, <1>6, <1>7, <1>8 DEF attachmentNext

\* The inductive invariant of the files: the types, with what each download found under the
\* name it was given still there, or met; a step from it keeps the files.
THEOREM FilesInvAlways == WindowSpec => []FilesInv /\ FilesKept
<1>1. WindowInit => FilesInv
  BY FilesInit
<1>2. FilesInv /\ [WindowNext]_windowVars => FilesInv' /\ [KeptStep]_windowVars
  <2>1. FilesInv /\ WindowNext => FilesInv' /\ KeptStep
    BY FilesReaderStep, FilesAttachmentStep DEF WindowNext
  <2>2. FilesInv /\ UNCHANGED windowVars => FilesInv'
    BY DEF FilesInv, WindowTypeOK, windowVars, vars, attachmentVars
  <2> QED BY <2>1, <2>2
<1>3. [][KeptStep]_windowVars => FilesKept
  BY PTL DEF KeptStep, FilesKept
<1> QED BY <1>1, <1>2, <1>3, PTL DEF WindowSpec

\* The files, the rows of attachments and the downloads keep their types, and only a file
\* dialog is about attachments.
THEOREM WindowTypeOKAlways == WindowSpec => []WindowTypeOK
<1>1. FilesInv => WindowTypeOK
  BY DEF FilesInv
<1> QED BY <1>1, FilesInvAlways, PTL

\* No download takes the place of a file its user was not asked about, unless that was written
\* while the download was under way, or every number is taken (MainWindow.cpp:3235-3238).
THEOREM FilesKeptAlways == WindowSpec => FilesKept
BY FilesInvAlways, PTL

-----------------------------------------------------------------------------
(* Snoozed mail.                                                           *)

\* What StampGoesWithInbox says of one step.
StampKept ==
    \A m \in Ids : snooze[m] = "due" /\ snooze'[m] # "due" =>
        \/ Inbox \in box'[m] \/ snooze'[m] = "later"
        \/ m \in lost' \/ m \notin stored'

LEMMA DiffedAdds ==
    ASSUME NEW B \in Boxes, NEW S, NEW m \in S \cap stored, m \in Ids
    PROVE  Inbox \in Diffed(B, S, {Inbox}, {})[m]
BY DEF Diffed, Boxes, Known

LEMMA StampStep ==
    ASSUME ReaderInv, WindowNext
    PROVE  StampKept
<1>1. box \in Boxes /\ stored \in SUBSET Ids /\ snooze \in [Ids -> {"never", "later", "due"}]
  BY DEF ReaderInv
<1>2. CASE UNCHANGED snooze
  BY <1>2 DEF StampKept
<1>3. CASE snoozeLapses
  BY <1>1, <1>3 DEF snoozeLapses, StampKept
<1>4. CASE wakeDueSnoozedMessages
  <2>1. SUFFICES ASSUME NEW m \in Ids, snooze[m] = "due", snooze'[m] # "due"
                 PROVE  Inbox \in box'[m]
    BY DEF StampKept
  <2>2. m \in dueSnoozeWakeups /\ m \in stored
    BY <1>4, <2>1 DEF wakeDueSnoozedMessages, Woken, dueSnoozeWakeups
  <2>3. PICK S : S = UNION {byThread(n) : n \in dueSnoozeWakeups}
    OBVIOUS
  <2>4. m \in S
    BY <2>2, <2>3 DEF byThread
  <2>5. box' = Diffed(box, S, {Inbox}, {})
    BY <1>4, <2>3 DEF wakeDueSnoozedMessages, edited
  <2> QED BY <1>1, <2>2, <2>4, <2>5, DiffedAdds
<1>5. CASE confirmSnooze
  BY <1>1, <1>5 DEF confirmSnooze, StampKept
<1>6. CASE syncLands
  <2>1. PICK n \in Ids : snooze' = [snooze EXCEPT ![n] = IF n \in stored' THEN @ ELSE "never"]
    BY <1>6 DEF syncLands
  <2> QED BY <1>1, <2>1 DEF StampKept
<1>7. CASE crash
  <2>1. PICK due : due = dueSnoozeWakeups
    OBVIOUS
  <2>2. PICK cleared \in SUBSET due, back \in SUBSET UNION {byThread(m) : m \in due} :
          /\ snooze' = Woken(cleared) /\ lost' = lost \cup (cleared \ back)
          /\ box' = Diffed(box, back, {Inbox}, {})
    BY <1>7, <2>1 DEF crash
  <2>3. back \in SUBSET stored
    BY <2>2 DEF byThread
  <2>4. SUFFICES ASSUME NEW m \in Ids, snooze[m] = "due", snooze'[m] # "due"
                 PROVE  Inbox \in box'[m] \/ m \in lost'
    BY DEF StampKept
  <2>5. m \in cleared
    BY <2>2, <2>4 DEF Woken
  <2>6. CASE m \in back
    <3>1. m \in back \cap stored
      BY <2>3, <2>6
    <3> QED BY <1>1, <2>2, <3>1, DiffedAdds
  <2> QED BY <2>2, <2>5, <2>6
<1>8. CASE openNext
  BY <1>2, <1>8 DEF openNext, click, selectAt, onOpenCurrent, cacheOnly
<1>9. CASE moveNext
  BY <1>2, <1>9 DEF moveNext, arrow, onBackToList, onToggleLinkDisplay, onLabelSelected, cacheOnly
<1>10. CASE editNext
  BY <1>2, <1>10 DEF editNext, guardedThreadAction, onMarkImportant, onArchiveAndGo,
                     onToggleStarFor, onCardAction, ask, cacheOnly
<1>11. CASE attachmentNext
  <2>1. UNCHANGED readerIdle
    BY <1>11 DEF attachmentNext, onOpenAttachment, onSaveAs, onDownloadAll, askWhere, pickedWhere,
                 downloadEnds
  <2> QED BY <1>2, <2>1 DEF readerIdle
<1>12. CASE cancel \/ gmailAnswers \/ answerShown
  BY <1>2, <1>12 DEF cancel, gmailAnswers, answerShown
<1>13. CASE confirmDelete \/ confirmLabels \/ confirmMove
  BY <1>2, <1>13 DEF confirmDelete, confirmLabels, confirmMove
<1> QED BY <1>3, <1>4, <1>5, <1>6, <1>7, <1>8, <1>9, <1>10, <1>11, <1>12, <1>13
        DEF WindowNext, readerNext, runNext, confirm

\* The stamp of a message that is due goes with INBOX back in its labels, unless the message was
\* snoozed again or deleted, or a crash fell between the two (MainWindow::wakeDueSnoozedMessages).
THEOREM StampGoesWithInboxAlways == WindowSpec => StampGoesWithInbox
<1>1. ReaderInv /\ [WindowNext]_windowVars => [StampKept]_vars
  BY StampStep DEF windowVars
<1>2. [][StampKept]_vars => StampGoesWithInbox
  BY PTL DEF StampKept, StampGoesWithInbox
<1> QED BY <1>1, <1>2, ReaderInvAlways, PTL DEF WindowSpec
=============================================================================
