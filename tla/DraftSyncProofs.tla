-------------------------- MODULE DraftSyncProofs --------------------------
(***************************************************************************)
(* Theorems about DraftSync that hold for any number of accounts, windows  *)
(* and saves and for every bound on what goes wrong.                       *)
(***************************************************************************)
EXTENDS DraftSync, FiniteSetTheorems, TLAPS

\* What is counted is finite, and an account whose context is still to go is
\* gone.
Finite ==
    /\ IsFiniteSet(Rows) /\ IsFiniteSet(calls) /\ IsFiniteSet(gmail)
    /\ doomed \cap accounts = {}

\* What Gmail has answered is there, and a row that was not saved again is
\* still what its call carries.
CallsTrue ==
    \A c \in calls :
        /\ c.at = "created" => [id |-> c.id, key |-> c.key, text |-> c.text] \in gmail
        /\ c.key \in Rows /\ ~ c.overtaken => drafts[c.key].text = c.text

Created(k) == \E c \in calls : c.key = k /\ c.at = "created"
Open(k)    == \E c \in calls : c.key = k /\ c.at # "created"

\* While a key may still be created once more, Gmail has no more drafts of it
\* than have been accounted for.
RoomForOne ==
    \A k \in Keys : Open(k) \/ (k \in Rows /\ ~ Created(k)) =>
                        Cardinality(Copies(k)) <= unheard[k] + revived[k]

\* The inductive invariant.
IInv ==
    /\ TypeOK
    /\ Finite
    /\ OneCallPerDraft
    /\ CallsTrue
    /\ SavedTextKept
    /\ CleanRowsAtGmail
    /\ DuplicatesExplained
    /\ RoomForOne

-----------------------------------------------------------------------------
LEMMA InitIInv == Init => IInv
<1> SUFFICES ASSUME Init
             PROVE  IInv
  OBVIOUS
<1>1. /\ Rows = {} /\ calls = {} /\ synced = {} /\ gmail = {} /\ remaining = 0 /\ busy = FALSE
      /\ drafts \in [Rows -> Row]
  BY DEF Init, Rows
<1>2. IsFiniteSet({}) /\ Cardinality({}) = 0
  BY FS_EmptySet
<1>3. window \in [Windows -> Window]
  <2>1. 1 \in Texts
    BY DraftAssumption DEF Texts
  <2>2. window \in [Windows -> Closed]
    BY DEF Init
  <2>3. Closed \subseteq Window
    BY <2>1 DEF Closed, Window
  <2> QED BY <2>2, <2>3
<1>4. /\ told \in [Keys -> Texts \cup {0}] /\ unheard \in [Keys -> Nat] /\ revived \in [Keys -> Nat]
      /\ \A k \in Keys : told[k] = 0 /\ unheard[k] = 0 /\ revived[k] = 0
  BY DEF Init
<1>5. TypeOK
  <2>1. /\ accounts \subseteq Accounts /\ doomed \subseteq Accounts /\ signedIn \subseteq accounts
        /\ saves \in 0 .. MaxSaves /\ missing \subseteq Keys
        /\ faults \in Nat /\ signOuts \in Nat /\ removals \in Nat /\ crashes \in Nat
    BY DraftAssumption DEF Init
  <2> QED BY <1>1, <1>3, <1>4, <2>1 DEF TypeOK
<1>6. Finite /\ OneCallPerDraft /\ CallsTrue
  BY <1>1, <1>2 DEF Init, Finite, OneCallPerDraft, CallsTrue
<1>7. SavedTextKept /\ CleanRowsAtGmail
  BY <1>1, <1>4 DEF SavedTextKept, CleanRowsAtGmail
<1>8. \A k \in Keys : Cardinality(Copies(k)) = 0
  <2>1. \A k : Copies(k) = {}
    BY <1>1 DEF Copies
  <2> QED BY <1>2, <2>1
<1>9. DuplicatesExplained /\ RoomForOne
  BY <1>4, <1>8 DEF DuplicatesExplained, RoomForOne
<1> QED BY <1>5, <1>6, <1>7, <1>9 DEF IInv

\* Gmail's drafts of a key are finitely many.
LEMMA CopiesFinite ==
    ASSUME IInv, NEW k
    PROVE  IsFiniteSet(Copies(k)) /\ Cardinality(Copies(k)) \in Nat
<1>1. Copies(k) \subseteq gmail /\ IsFiniteSet(gmail)
  BY DEF Copies, IInv, Finite
<1> QED BY <1>1, FS_Subset, FS_CardinalityType

-----------------------------------------------------------------------------
(* A batch starts, or does not.                                            *)

\* One call per item, so the batch counts its calls.
LEMMA CallsOfItems ==
    ASSUME NEW table, table \in [DOMAIN table -> Row], DOMAIN table \subseteq Keys,
           IsFiniteSet(DOMAIN table), NEW items, items \subseteq DOMAIN table,
           NEW new, new = NewCalls(table, items)
    PROVE  /\ IsFiniteSet(new) /\ new \subseteq Call
           /\ Cardinality(new) = Cardinality(items)
           /\ Cardinality(items) \in Nat
           /\ items # {} => Cardinality(items) > 0
           /\ \A c \in new : /\ c.key \in items /\ c.text = table[c.key].text
                             /\ c.at = "posted" /\ ~ c.overtaken
           /\ \A c, d \in new : c.key = d.key => c = d
<1> DEFINE call == [k \in items |-> NewCall(table, k)]
<1>1. IsFiniteSet(items)
  BY FS_Subset
<1>2. \A k \in items : /\ NewCall(table, k).key = k /\ NewCall(table, k).text = table[k].text
                       /\ NewCall(table, k).at = "posted" /\ ~ NewCall(table, k).overtaken
  BY DEF NewCall
<1>3. \A k \in items : NewCall(table, k) \in Call
  <2> TAKE k \in items
  <2>1. table[k] \in Row /\ k \in Keys
    OBVIOUS
  <2>2. table[k].text \in Texts
    BY <2>1 DEF Row
  <2> QED BY <2>1, <2>2 DEF NewCall, Call
<1>0. new = {NewCall(table, k) : k \in items}
  BY DEF NewCalls
<1>4. call \in Bijection(items, new)
  <2>1. call \in [items -> new]
    BY <1>0
  <2>2. \A x \in new : \E k \in items : call[k] = x
    BY <1>0
  <2>3. \A j, k \in items : call[j] = call[k] => j = k
    BY <1>2
  <2> QED BY <2>1, <2>2, <2>3 DEF Bijection, Injection, Surjection, IsInjective
<1>5. ExistsBijection(items, new)
  BY <1>4 DEF ExistsBijection
<1>6. IsFiniteSet(new) /\ Cardinality(new) = Cardinality(items)
  BY <1>1, <1>5, FS_Bijection
<1>7. Cardinality(items) \in Nat /\ (items # {} => Cardinality(items) > 0)
  BY <1>1, FS_CardinalityType, FS_EmptySet
<1> QED BY <1>0, <1>2, <1>3, <1>6, <1>7

\* The calls a flush finds, with or without notes on them, are the calls there
\* were; a batch starts only when there are none.
LEMMA FlushCalls ==
    ASSUME IInv, NEW table, table \in [DOMAIN table -> Row], DOMAIN table \subseteq Keys,
           IsFiniteSet(DOMAIN table),
           NEW out, out \subseteq Call, IsFiniteSet(out), Cardinality(out) = Cardinality(calls),
           \A c, d \in out : c.key = d.key => c = d,
           flush(table, out), accounts' = accounts
    PROVE  /\ calls' \subseteq Call /\ IsFiniteSet(calls')
           /\ busy' \in BOOLEAN /\ remaining' \in Nat
           /\ OneCallPerDraft'
           /\ \/ calls' = out
              \/ /\ calls = {}
                 /\ \A c \in calls' : /\ c.key \in DOMAIN table /\ c.text = table[c.key].text
                                      /\ c.at = "posted" /\ ~ c.overtaken
<1> DEFINE items == dirtyDraftsAllAccounts(table)
<1>1. /\ busy \in BOOLEAN /\ remaining \in Nat /\ (busy <=> remaining > 0)
      /\ remaining >= Cardinality(calls) /\ IsFiniteSet(calls)
      /\ (accounts = Accounts => remaining = Cardinality(calls))
  BY DEF IInv, TypeOK, OneCallPerDraft, Finite
<1>2. CASE busy \/ items = {}
  <2>1. UNCHANGED <<busy, remaining>> /\ calls' = out
    BY <1>2 DEF flush
  <2> QED BY <1>1, <2>1 DEF OneCallPerDraft
<1>3. CASE ~ busy /\ items # {}
  <2>0. PICK new : new = NewCalls(table, items)
    OBVIOUS
  <2>1. busy' = TRUE /\ remaining' = Cardinality(items) /\ calls' = out \cup new
    BY <1>3, <2>0 DEF flush
  <2>2. Cardinality(calls) = 0 /\ calls = {} /\ out = {}
    <3>1. Cardinality(calls) \in Nat
      BY <1>1, FS_CardinalityType
    <3>2. Cardinality(calls) = 0
      BY <1>1, <1>3, <3>1
    <3> QED BY <1>1, <3>2, FS_EmptySet
  <2>3. items \subseteq DOMAIN table
    BY DEF dirtyDraftsAllAccounts
  <2> HIDE DEF items
  <2>4. /\ IsFiniteSet(new) /\ new \subseteq Call
        /\ Cardinality(new) = Cardinality(items)
        /\ Cardinality(items) \in Nat /\ Cardinality(items) > 0
        /\ \A c \in new : /\ c.key \in items /\ c.text = table[c.key].text
                          /\ c.at = "posted" /\ ~ c.overtaken
        /\ \A c, d \in new : c.key = d.key => c = d
    BY <1>3, <2>0, <2>3, CallsOfItems
  <2>5. calls' = new
    BY <2>1, <2>2
  <2> QED BY <2>1, <2>2, <2>3, <2>4, <2>5 DEF OneCallPerDraft
<1> QED BY <1>2, <1>3


LEMMA TickStep == IInv /\ Tick => IInv'
<1> SUFFICES ASSUME IInv, Tick
             PROVE  IInv'
  OBVIOUS
<1>1. /\ flush(drafts, calls)
      /\ UNCHANGED <<accounts, doomed, signedIn, window, drafts, synced, gmail, told, missing,
                     revived, unheard, saves, faults, signOuts, removals, crashes>>
  BY DEF Tick, accountVars, tableVars, saveVars, boundVars
<1>2. /\ drafts \in [DOMAIN drafts -> Row] /\ DOMAIN drafts \subseteq Keys
      /\ IsFiniteSet(DOMAIN drafts) /\ calls \subseteq Call /\ IsFiniteSet(calls)
      /\ \A c, d \in calls : c.key = d.key => c = d
  BY DEF IInv, TypeOK, Finite, OneCallPerDraft, Rows
<1>3. /\ calls' \subseteq Call /\ IsFiniteSet(calls')
      /\ busy' \in BOOLEAN /\ remaining' \in Nat /\ OneCallPerDraft'
      /\ \/ calls' = calls
         \/ /\ calls = {}
            /\ \A c \in calls' : /\ c.key \in DOMAIN drafts /\ c.text = drafts[c.key].text
                                 /\ c.at = "posted" /\ ~ c.overtaken
  BY <1>1, <1>2, FlushCalls
<1>4. Rows' = Rows
  BY <1>1 DEF Rows
<1>5. TypeOK' /\ Finite'
  BY <1>1, <1>3, <1>4 DEF IInv, TypeOK, Finite
<1>6. CallsTrue'
  BY <1>1, <1>3, <1>4 DEF IInv, CallsTrue, Rows
<1>7. SavedTextKept' /\ CleanRowsAtGmail' /\ DuplicatesExplained'
  BY <1>1, <1>4 DEF IInv, SavedTextKept, CleanRowsAtGmail, DuplicatesExplained, Copies
<1>8. RoomForOne'
  <2>1. CASE calls' = calls
    BY <1>1, <1>4, <2>1 DEF IInv, RoomForOne, Open, Created, Copies
  <2>2. CASE calls = {} /\ \A c \in calls' : c.key \in Rows
    <3> SUFFICES ASSUME NEW k \in Keys, Open(k)' \/ (k \in Rows' /\ ~ Created(k)')
                 PROVE  Cardinality(Copies(k)) <= unheard[k] + revived[k]
      BY <1>1 DEF RoomForOne, Copies
    <3>1. k \in Rows /\ ~ Created(k)
      BY <1>4, <2>2 DEF Open, Created
    <3> QED BY <3>1 DEF IInv, RoomForOne
  <2> QED BY <1>3, <2>1, <2>2 DEF Rows
<1> QED BY <1>3, <1>5, <1>6, <1>7, <1>8 DEF IInv

-----------------------------------------------------------------------------
(* The windows, and signing in and out.                                    *)

\* Steps that leave the table, the calls and Gmail alone.
LEMMA QuietStep ==
    ASSUME IInv, TypeOK',
           UNCHANGED <<accounts, doomed, drafts, synced, busy, remaining, calls, gmail, told,
                       missing, unheard, revived>>
    PROVE  IInv'
<1>1. Rows' = Rows
  BY DEF Rows
<1>2. Finite' /\ OneCallPerDraft' /\ CallsTrue'
  BY <1>1 DEF IInv, Finite, OneCallPerDraft, CallsTrue
<1>3. SavedTextKept' /\ CleanRowsAtGmail' /\ DuplicatesExplained'
  BY <1>1 DEF IInv, SavedTextKept, CleanRowsAtGmail, DuplicatesExplained, Copies
<1>4. RoomForOne'
  BY <1>1 DEF IInv, RoomForOne, Open, Created, Copies
<1> QED BY <1>2, <1>3, <1>4 DEF IInv

\* A window that changes stays a window.
LEMMA WindowStep ==
    ASSUME IInv, NEW w \in Windows,
           Type(w) \/ \E a \in Accounts : openComposeWindow(w, a) \/ ChooseFrom(w, a)
    PROVE  IInv'
<1>1. UNCHANGED <<accounts, doomed, signedIn, drafts, synced, busy, remaining, calls, gmail, told,
                  missing, unheard, revived, saves, faults, signOuts, removals, crashes>>
  BY DEF Type, openComposeWindow, ChooseFrom, accountVars, tableVars, batchVars, saveVars, boundVars
<1>2. window \in [Windows -> Window] /\ window[w] \in Window
  BY DEF IInv, TypeOK
<1>3. PICK v \in Window : window' = [window EXCEPT ![w] = v]
  <2>1. CASE Type(w)
    <3>1. saves + 2 \in Texts
      BY <2>1, DraftAssumption DEF Type, IInv, TypeOK, Texts
    <3>2. [window[w] EXCEPT !.text = saves + 2, !.dirty = TRUE] \in Window
      BY <1>2, <3>1 DEF Window
    <3>3. window' = [window EXCEPT ![w] = [window[w] EXCEPT !.text = saves + 2, !.dirty = TRUE]]
      BY <1>2, <2>1 DEF Type
    <3> QED BY <3>2, <3>3
  <2>2. CASE \E a \in Accounts : ChooseFrom(w, a)
    <3>1. PICK a \in Accounts : ChooseFrom(w, a)
      BY <2>2
    <3>2. [window[w] EXCEPT !.from = a, !.dirty = TRUE] \in Window
      BY <1>2 DEF Window
    <3>3. window' = [window EXCEPT ![w] = [window[w] EXCEPT !.from = a, !.dirty = TRUE]]
      BY <1>2, <3>1 DEF ChooseFrom
    <3> QED BY <3>2, <3>3
  <2>3. CASE \E a \in Accounts : openComposeWindow(w, a)
    <3>1. PICK a \in Accounts : openComposeWindow(w, a)
      BY <2>3
    <3>2. 1 \in Texts /\ signedIn \in SUBSET Accounts
      BY DraftAssumption DEF Texts, IInv, TypeOK
    <3>3. prefillFrom(a) \in Window
      BY <3>2 DEF prefillFrom, Window
    <3>4. window' = [window EXCEPT ![w] = prefillFrom(a)]
      BY <3>1 DEF openComposeWindow
    <3> QED BY <3>3, <3>4
  <2> QED BY <2>1, <2>2, <2>3
<1>4. window' \in [Windows -> Window]
  BY <1>2, <1>3
<1>5. TypeOK'
  BY <1>1, <1>4 DEF IInv, TypeOK, Rows
<1> QED BY <1>1, <1>5, QuietStep

LEMMA SignInOutStep ==
    ASSUME IInv, NEW a \in Accounts, signOut(a) \/ signIn(a)
    PROVE  IInv'
<1>1. UNCHANGED <<accounts, doomed, window, drafts, synced, busy, remaining, calls, gmail, told,
                  missing, unheard, revived, saves, faults, removals, crashes>>
  BY DEF signOut, signIn, tableVars, batchVars, saveVars, boundVars
<1>2. signedIn' \subseteq accounts /\ signOuts' \in Nat
  BY DEF signOut, signIn, boundVars, IInv, TypeOK
<1>3. TypeOK'
  BY <1>1, <1>2 DEF IInv, TypeOK, Rows
<1> QED BY <1>1, <1>3, QuietStep

-----------------------------------------------------------------------------
(* Saving.                                                                 *)

\* The calls that are out, as a save leaves them.
LEMMA OvertakenCalls ==
    ASSUME IInv, NEW k \in Keys, NEW out, out = Overtake(k)
    PROVE  /\ out \subseteq Call /\ IsFiniteSet(out) /\ Cardinality(out) = Cardinality(calls)
           /\ \A c, d \in out : c.key = d.key => c = d
           /\ \A c \in out : \E d \in calls :
                  /\ c.key = d.key /\ c.text = d.text /\ c.at = d.at /\ c.id = d.id
                  /\ IF d.key = k THEN c.overtaken ELSE c = d
           /\ \A d \in calls : \E c \in out : c.key = d.key /\ c.at = d.at
<1> DEFINE mark(c) == IF c.key = k THEN [c EXCEPT !.overtaken = TRUE] ELSE c
           f == [c \in calls |-> mark(c)]
<1>1. \A c \in calls : c \in Call
  BY DEF IInv, TypeOK
<1>2. \A c \in calls : /\ mark(c) \in Call /\ mark(c).key = c.key /\ mark(c).text = c.text
                       /\ mark(c).at = c.at /\ mark(c).id = c.id
                       /\ IF c.key = k THEN mark(c).overtaken ELSE mark(c) = c
  BY <1>1 DEF Call
<1>3. out = {mark(c) : c \in calls}
  BY DEF Overtake
<1>4. \A c, d \in calls : c.key = d.key => c = d
  BY DEF IInv, OneCallPerDraft
<1> HIDE DEF mark
<1>5. \A c \in out : \E d \in calls : c = mark(d)
  BY <1>3
<1>6. f \in Bijection(calls, out)
  <2>1. f \in [calls -> out] /\ \A c \in out : \E d \in calls : f[d] = c
    BY <1>3
  <2>2. \A c, d \in calls : f[c] = f[d] => c = d
    BY <1>2, <1>4
  <2> QED BY <2>1, <2>2 DEF Bijection, Injection, Surjection, IsInjective
<1>7. IsFiniteSet(out) /\ Cardinality(out) = Cardinality(calls)
  <2>1. IsFiniteSet(calls) /\ ExistsBijection(calls, out)
    BY <1>6 DEF IInv, Finite, ExistsBijection
  <2> QED BY <2>1, FS_Bijection
<1>8. \A c, d \in out : c.key = d.key => c = d
  BY <1>2, <1>4, <1>5
<1>9. out \subseteq Call
  BY <1>2, <1>5
<1>10. \A c \in out : \E d \in calls :
          /\ c.key = d.key /\ c.text = d.text /\ c.at = d.at /\ c.id = d.id
          /\ IF d.key = k THEN c.overtaken ELSE c = d
  BY <1>2, <1>5
<1>11. \A d \in calls : \E c \in out : c.key = d.key /\ c.at = d.at
  BY <1>2, <1>3
<1> QED BY <1>7, <1>8, <1>9, <1>10, <1>11

\* Nothing at Gmail under a key that never went out.
LEMMA UnpushedKey ==
    ASSUME IInv, NEW k \in Keys, ~ Pushed(k)
    PROVE  Cardinality(Copies(k)) = 0 /\ ~ Open(k) /\ ~ Created(k)
<1>1. Copies(k) = {}
  BY DEF Pushed, Copies
<1>2. Cardinality(Copies(k)) = 0
  BY <1>1, FS_EmptySet
<1> QED BY <1>2 DEF Pushed, Open, Created

\* A save that reached the table.
LEMMA UpsertDone ==
    ASSUME IInv, NEW w \in Windows, upsert(w, TRUE),
           UNCHANGED <<accounts, doomed, signedIn, gmail, unheard, signOuts, removals, crashes>>,
           window' \in [Windows -> Window], saves' \in 0 .. MaxSaves, faults' \in Nat
    PROVE  IInv'
<1> DEFINE k == <<window[w].from, w>>
           text == window[w].text
<1>1. window[w] \in Window /\ k \in Keys /\ text \in Texts
  BY DEF IInv, TypeOK, Window, Keys
<1>2. PICK table : table = Upserted(k, text)
  OBVIOUS
<1>3. PICK out : out = Overtake(k)
  OBVIOUS
<1>4. /\ told' = [told EXCEPT ![k] = text] /\ drafts' = table /\ missing' = missing \ {k}
      /\ revived' = [revived EXCEPT ![k] = IF Pushed(k) /\ k \notin Rows THEN @ + 1 ELSE @]
      /\ flush(table, out) /\ synced' = synced
  BY <1>2, <1>3 DEF upsert
<1> HIDE DEF k, text
<1>5. /\ DOMAIN table = Rows \cup {k} /\ table \in [DOMAIN table -> Row]
      /\ table[k].text = text /\ table[k].dirty /\ \A j \in Rows \ {k} : table[j] = drafts[j]
  <2>1. table = [j \in Rows \cup {k} |-> IF j = k THEN [text |-> text, dirty |-> TRUE] ELSE drafts[j]]
    BY <1>2 DEF Upserted
  <2>2. [text |-> text, dirty |-> TRUE] \in Row
    BY <1>1 DEF Row
  <2>3. \A j \in Rows : drafts[j] \in Row
    BY DEF IInv, TypeOK
  <2> QED BY <2>1, <2>2, <2>3
<1>6. Rows' = Rows \cup {k} /\ Rows' \subseteq Keys /\ IsFiniteSet(Rows')
  <2>1. Rows' = Rows \cup {k}
    BY <1>4, <1>5 DEF Rows
  <2>2. IsFiniteSet(Rows \cup {k})
    BY FS_AddElement DEF IInv, Finite
  <2> QED BY <1>1, <2>1, <2>2 DEF IInv, TypeOK
<1>7. /\ out \subseteq Call /\ IsFiniteSet(out) /\ Cardinality(out) = Cardinality(calls)
      /\ \A c, d \in out : c.key = d.key => c = d
      /\ \A c \in out : \E d \in calls :
             /\ c.key = d.key /\ c.text = d.text /\ c.at = d.at /\ c.id = d.id
             /\ IF d.key = k THEN c.overtaken ELSE c = d
      /\ \A d \in calls : \E c \in out : c.key = d.key /\ c.at = d.at
  BY <1>1, <1>3, OvertakenCalls
<1>8. /\ calls' \subseteq Call /\ IsFiniteSet(calls')
      /\ busy' \in BOOLEAN /\ remaining' \in Nat /\ OneCallPerDraft'
      /\ \/ calls' = out
         \/ /\ calls = {}
            /\ \A c \in calls' : /\ c.key \in DOMAIN table /\ c.text = table[c.key].text
                                 /\ c.at = "posted" /\ ~ c.overtaken
  BY <1>4, <1>5, <1>6, <1>7, FlushCalls DEF Rows
<1>9. \A j \in Keys : /\ told'[j] = IF j = k THEN text ELSE told[j]
                      /\ revived'[j] = IF j = k /\ Pushed(k) /\ k \notin Rows
                                       THEN revived[j] + 1 ELSE revived[j]
  BY <1>1, <1>4 DEF IInv, TypeOK
<1>10. told' \in [Keys -> Texts \cup {0}] /\ revived' \in [Keys -> Nat]
  BY <1>1, <1>4 DEF IInv, TypeOK
<1>11. TypeOK'
  BY <1>4, <1>5, <1>6, <1>8, <1>10 DEF IInv, TypeOK
<1>12. Finite'
  BY <1>6, <1>8 DEF IInv, Finite
<1>13. CallsTrue'
  <2>1. CASE calls' = out
    <3> SUFFICES ASSUME NEW c \in out
                 PROVE  /\ c.at = "created" =>
                               [id |-> c.id, key |-> c.key, text |-> c.text] \in gmail
                        /\ c.key \in Rows' /\ ~ c.overtaken => drafts'[c.key].text = c.text
      BY <2>1 DEF CallsTrue
    <3>1. PICK d \in calls : /\ c.key = d.key /\ c.text = d.text /\ c.at = d.at /\ c.id = d.id
                             /\ IF d.key = k THEN c.overtaken ELSE c = d
      BY <1>7
    <3>2. /\ d.at = "created" => [id |-> d.id, key |-> d.key, text |-> d.text] \in gmail
          /\ d.key \in Rows /\ ~ d.overtaken => drafts[d.key].text = d.text
      BY DEF IInv, CallsTrue
    <3> QED BY <1>4, <1>5, <1>6, <3>1, <3>2
  <2>2. CASE \A c \in calls' : /\ c.key \in DOMAIN table /\ c.text = table[c.key].text
                               /\ c.at = "posted" /\ ~ c.overtaken
    BY <1>4, <2>2 DEF CallsTrue
  <2> QED BY <1>8, <2>1, <2>2
<1>14. SavedTextKept'
  BY <1>4, <1>5, <1>6, <1>9 DEF IInv, SavedTextKept
<1>15. CleanRowsAtGmail'
  BY <1>4, <1>5, <1>6 DEF IInv, CleanRowsAtGmail
<1>16. ASSUME NEW j \in Keys
       PROVE  /\ Cardinality(Copies(j)) <= 1 + unheard[j] + revived'[j]
              /\ Open(j)' \/ (j \in Rows' /\ ~ Created(j)') =>
                     Cardinality(Copies(j)) <= unheard[j] + revived'[j]
  <2>1. unheard[j] \in Nat /\ revived[j] \in Nat /\ Cardinality(Copies(j)) \in Nat
    BY CopiesFinite DEF IInv, TypeOK
  <2>2. Cardinality(Copies(j)) <= 1 + unheard[j] + revived[j]
    BY DEF IInv, DuplicatesExplained
  <2>3. revived'[j] \in Nat /\ revived'[j] >= revived[j]
    BY <1>9, <2>1
  <2>4. CASE j = k /\ Pushed(k) /\ k \notin Rows
    BY <1>9, <2>1, <2>2, <2>4
  <2>5. CASE j = k /\ ~ Pushed(k)
    BY <2>1, <2>3, <2>5, UnpushedKey
  <2>6. CASE j # k \/ k \in Rows
    <3> SUFFICES ASSUME Open(j)' \/ (j \in Rows' /\ ~ Created(j)')
                 PROVE  Cardinality(Copies(j)) <= unheard[j] + revived[j]
      BY <2>1, <2>2, <2>3
    <3>1. j \in Rows' => j \in Rows
      BY <1>6, <2>6
    <3>2. CASE calls' = out
      <4>1. Open(j)' => Open(j)
        BY <1>7, <3>2 DEF Open
      <4>2. Created(j) => Created(j)'
        BY <1>7, <3>2 DEF Created
      <4> QED BY <3>1, <4>1, <4>2 DEF IInv, RoomForOne
    <3>3. CASE calls = {} /\ \A c \in calls' : c.key \in DOMAIN table
      <4>1. Open(j)' => j \in Rows
        BY <1>4, <3>1, <3>3 DEF Open, Rows
      <4>2. ~ Created(j)
        BY <3>3 DEF Created
      <4> QED BY <3>1, <4>1, <4>2 DEF IInv, RoomForOne
    <3> QED BY <1>8, <3>2, <3>3
  <2> QED BY <2>4, <2>5, <2>6
<1>17. \A j : Copies(j)' = Copies(j)
  BY DEF Copies
<1>18. DuplicatesExplained' /\ RoomForOne'
  BY <1>16, <1>17 DEF DuplicatesExplained, RoomForOne
<1> QED BY <1>8, <1>11, <1>12, <1>13, <1>14, <1>15, <1>18 DEF IInv

\* A save that did not reach it.
LEMMA UpsertFailed ==
    ASSUME IInv, NEW w \in Windows, upsert(w, FALSE),
           UNCHANGED <<accounts, doomed, signedIn, gmail, unheard, signOuts, removals, crashes>>,
           window' \in [Windows -> Window], saves' \in 0 .. MaxSaves, faults' \in Nat
    PROVE  IInv'
<1> DEFINE k == <<window[w].from, w>>
           text == window[w].text
<1>1. window[w] \in Window /\ k \in Keys /\ text \in Texts
  BY DEF IInv, TypeOK, Window, Keys
<1>2. /\ told' = [told EXCEPT ![k] = text] /\ missing' = missing \cup {k}
      /\ UNCHANGED <<drafts, revived, synced>> /\ flush(drafts, calls)
  BY DEF upsert
<1> HIDE DEF k, text
<1>3. Rows' = Rows
  BY <1>2 DEF Rows
<1>4. /\ drafts \in [DOMAIN drafts -> Row] /\ DOMAIN drafts \subseteq Keys
      /\ IsFiniteSet(DOMAIN drafts) /\ calls \subseteq Call /\ IsFiniteSet(calls)
      /\ \A c, d \in calls : c.key = d.key => c = d
  BY DEF IInv, TypeOK, Finite, OneCallPerDraft, Rows
<1>5. /\ calls' \subseteq Call /\ IsFiniteSet(calls')
      /\ busy' \in BOOLEAN /\ remaining' \in Nat /\ OneCallPerDraft'
      /\ \/ calls' = calls
         \/ /\ calls = {}
            /\ \A c \in calls' : /\ c.key \in DOMAIN drafts /\ c.text = drafts[c.key].text
                                 /\ c.at = "posted" /\ ~ c.overtaken
  BY <1>2, <1>4, FlushCalls
<1>6. told' \in [Keys -> Texts \cup {0}]
      /\ \A j \in Keys \ missing' : told'[j] = told[j] /\ j \notin missing
  BY <1>1, <1>2 DEF IInv, TypeOK
<1>7. TypeOK' /\ Finite'
  BY <1>1, <1>2, <1>3, <1>5, <1>6 DEF IInv, TypeOK, Finite
<1>8. CallsTrue'
  BY <1>2, <1>3, <1>5 DEF IInv, CallsTrue, Rows
<1>9. SavedTextKept' /\ CleanRowsAtGmail' /\ DuplicatesExplained'
  BY <1>2, <1>3, <1>6 DEF IInv, SavedTextKept, CleanRowsAtGmail, DuplicatesExplained, Copies
<1>10. RoomForOne'
  <2>1. CASE calls' = calls
    BY <1>2, <1>3, <2>1 DEF IInv, RoomForOne, Open, Created, Copies
  <2>2. CASE calls = {} /\ \A c \in calls' : c.key \in Rows
    <3> SUFFICES ASSUME NEW j \in Keys, Open(j)' \/ (j \in Rows' /\ ~ Created(j)')
                 PROVE  Cardinality(Copies(j)) <= unheard[j] + revived[j]
      BY <1>2 DEF RoomForOne, Copies
    <3>1. j \in Rows /\ ~ Created(j)
      BY <1>3, <2>2 DEF Open, Created
    <3> QED BY <3>1 DEF IInv, RoomForOne
  <2> QED BY <1>5, <2>1, <2>2 DEF Rows
<1> QED BY <1>5, <1>7, <1>8, <1>9, <1>10 DEF IInv

LEMMA SaveStep ==
    ASSUME IInv, NEW w \in Windows, onSaveDraft(w) \/ closeEvent(w)
    PROVE  IInv'
<1>1. window' \in [Windows -> Window]
  <2>1. window \in [Windows -> Window] /\ window[w] \in Window
    BY DEF IInv, TypeOK
  <2>2. [window[w] EXCEPT !.dirty = FALSE] \in Window /\ [window[w] EXCEPT !.open = FALSE] \in Window
    BY <2>1 DEF Window
  <2>3. \/ window' = [window EXCEPT ![w] = [window[w] EXCEPT !.dirty = FALSE]]
        \/ window' = [window EXCEPT ![w] = [window[w] EXCEPT !.open = FALSE]]
    BY <2>1 DEF onSaveDraft, closeEvent
  <2> QED BY <2>1, <2>2, <2>3
<1>2. CASE saveDraftRequested(w)
  <2>1. /\ UNCHANGED <<accounts, doomed, signedIn, gmail, unheard, signOuts, removals, crashes>>
        /\ saves' \in 0 .. MaxSaves /\ faults' \in Nat
    <3>1. UNCHANGED <<accounts, doomed, signedIn, gmail, unheard, signOuts, removals, crashes>>
      BY <1>2 DEF saveDraftRequested, accountVars
    <3>2. saves \in 0 .. MaxSaves /\ faults \in Nat
      BY DEF IInv, TypeOK
    <3>3. saves < MaxSaves /\ saves' = saves + 1 /\ faults' \in {faults, faults + 1}
      BY <1>2 DEF saveDraftRequested
    <3> QED BY <3>1, <3>2, <3>3, DraftAssumption
  <2>2. upsert(w, TRUE) \/ upsert(w, FALSE)
    BY <1>2 DEF saveDraftRequested
  <2> QED BY <1>1, <2>1, <2>2, UpsertDone, UpsertFailed
<1>3. CASE UNCHANGED <<accountVars, tableVars, batchVars, gmail, saveVars, unheard, boundVars>>
  <2>1. UNCHANGED <<accounts, doomed, signedIn, drafts, synced, busy, remaining, calls, gmail, told,
                    missing, unheard, revived, saves, faults, signOuts, removals, crashes>>
    BY <1>3 DEF accountVars, tableVars, batchVars, saveVars, boundVars
  <2>2. TypeOK'
    BY <1>1, <2>1 DEF IInv, TypeOK, Rows
  <2> QED BY <2>1, <2>2, QuietStep
<1> QED BY <1>2, <1>3 DEF onSaveDraft, closeEvent

-----------------------------------------------------------------------------
(* Purges and contexts.                                                    *)

LEMMA PurgeStep ==
    ASSUME IInv, NEW a \in Accounts, dropCache(a) \/ removeAccount(a)
    PROVE  IInv'
<1>1. /\ drafts' = [k \in {j \in Rows : j[1] # a} |-> drafts[k]]
      /\ synced' = {s \in synced : s.key[1] # a}
      /\ missing' = missing \cup {k \in Keys : k[1] = a}
      /\ removals' = removals + 1
      /\ UNCHANGED <<window, busy, remaining, calls, gmail, told, revived, unheard, saves, faults,
                     signOuts, crashes, signedIn>>
  BY DEF dropCache, removeAccount, PurgeDrafts, batchVars, accountVars
<1>2. /\ accounts' \subseteq Accounts /\ doomed' \subseteq Accounts /\ signedIn \subseteq accounts'
      /\ (doomed \cap accounts)' = {}
      /\ accounts' = Accounts => accounts = Accounts
  <2>1. CASE dropCache(a)
    BY <2>1 DEF dropCache, accountVars, IInv, TypeOK, Finite
  <2>2. CASE removeAccount(a)
    BY <2>2 DEF removeAccount, IInv, TypeOK, Finite
  <2> QED BY <2>1, <2>2
<1>3. /\ Rows' = {j \in Rows : j[1] # a} /\ drafts' \in [Rows' -> Row]
      /\ \A j \in Rows' : drafts'[j] = drafts[j]
  <2>1. drafts \in [Rows -> Row]
    BY DEF IInv, TypeOK
  <2>2. Rows' = {j \in Rows : j[1] # a}
    BY <1>1 DEF Rows
  <2> QED BY <1>1, <2>1, <2>2
<1>4. IsFiniteSet(Rows')
  <2>1. Rows' \subseteq Rows
    BY <1>3
  <2> QED BY <2>1, FS_Subset DEF IInv, Finite
<1>5. TypeOK'
  <2>1. Rows' \subseteq Keys /\ synced' \subseteq Synced /\ missing' \subseteq Keys
        /\ removals' \in Nat
    BY <1>1, <1>3 DEF IInv, TypeOK
  <2> QED BY <1>1, <1>2, <1>3, <2>1 DEF IInv, TypeOK
<1>6. Finite' /\ OneCallPerDraft'
  BY <1>1, <1>2, <1>4 DEF IInv, Finite, OneCallPerDraft
<1>7. CallsTrue'
  BY <1>1, <1>3 DEF IInv, CallsTrue
<1>8. SavedTextKept'
  <2> SUFFICES ASSUME NEW k \in Keys, told[k] # 0, k \notin missing'
               PROVE  \/ k \in Rows' /\ drafts'[k].text = told[k]
                      \/ \E s \in synced' : s.key = k /\ s.text = told[k]
    BY <1>1 DEF SavedTextKept
  <2>1. k[1] # a /\ k \notin missing
    BY <1>1
  <2> QED BY <1>1, <1>3, <2>1 DEF IInv, SavedTextKept
<1>9. CleanRowsAtGmail' /\ DuplicatesExplained'
  BY <1>1, <1>3 DEF IInv, CleanRowsAtGmail, DuplicatesExplained, Copies
<1>10. RoomForOne'
  <2> SUFFICES ASSUME NEW j \in Keys, Open(j) \/ (j \in Rows' /\ ~ Created(j))
               PROVE  Cardinality(Copies(j)) <= unheard[j] + revived[j]
    BY <1>1 DEF RoomForOne, Copies, Open, Created
  <2> QED BY <1>3 DEF IInv, RoomForOne
<1> QED BY <1>5, <1>6, <1>7, <1>8, <1>9, <1>10 DEF IInv

\* At most one call on a key has created its draft.
LEMMA CountUnheard ==
    ASSUME IInv, NEW C \in SUBSET calls, NEW k \in Keys
    PROVE  Unheard(C)[k] = IF \E c \in C : c.key = k /\ c.at = "created"
                           THEN unheard[k] + 1 ELSE unheard[k]
<1> DEFINE D == {c \in C : c.key = k /\ c.at = "created"}
<1>1. Unheard(C)[k] = unheard[k] + Cardinality(D) /\ unheard[k] \in Nat
  BY DEF Unheard, IInv, TypeOK
<1>2. CASE \E c \in C : c.key = k /\ c.at = "created"
  <2>1. PICK c \in C : c.key = k /\ c.at = "created"
    BY <1>2
  <2>2. D = {c}
    BY <2>1 DEF IInv, OneCallPerDraft
  <2>3. Cardinality(D) = 1
    BY <2>2, FS_Singleton
  <2> QED BY <1>1, <1>2, <2>3
<1>3. CASE ~ \E c \in C : c.key = k /\ c.at = "created"
  <2>1. D = {}
    BY <1>3
  <2>2. Cardinality(D) = 0
    BY <2>1, FS_EmptySet
  <2> QED BY <1>1, <1>3, <2>2
<1> QED BY <1>2, <1>3

\* Calls that vanish, or end without the table learning of them.
LEMMA CallsDropped ==
    ASSUME IInv, NEW C \in SUBSET calls, calls' = calls \ C, unheard' = Unheard(C),
           UNCHANGED <<drafts, synced, gmail, revived>>
    PROVE  /\ unheard' \in [Keys -> Nat]
           /\ CallsTrue' /\ CleanRowsAtGmail' /\ DuplicatesExplained' /\ RoomForOne'
<1>1. Rows' = Rows /\ \A k : Copies(k)' = Copies(k)
  BY DEF Rows, Copies
<1>2. \A k \in Keys : unheard'[k] = IF \E c \in C : c.key = k /\ c.at = "created"
                                    THEN unheard[k] + 1 ELSE unheard[k]
  BY CountUnheard
<1>3. \A k \in Keys : unheard[k] \in Nat /\ revived[k] \in Nat /\ Cardinality(Copies(k)) \in Nat
  BY CopiesFinite DEF IInv, TypeOK
<1>4. unheard' \in [Keys -> Nat]
  <2>1. \A k \in Keys : unheard'[k] \in Nat
    BY <1>2, <1>3
  <2>2. unheard' = [k \in Keys |-> unheard[k] + Cardinality({c \in C : c.key = k /\ c.at = "created"})]
    BY DEF Unheard
  <2> QED BY <2>1, <2>2
<1>5. CallsTrue' /\ CleanRowsAtGmail'
  BY <1>1 DEF IInv, CallsTrue, CleanRowsAtGmail
<1>6. DuplicatesExplained'
  BY <1>1, <1>2, <1>3 DEF IInv, DuplicatesExplained
<1>7. RoomForOne'
  <2> SUFFICES ASSUME NEW k \in Keys, Open(k)' \/ (k \in Rows /\ ~ Created(k)')
               PROVE  Cardinality(Copies(k)) <= unheard'[k] + revived[k]
    BY <1>1 DEF RoomForOne
  <2>1. Open(k)' => Open(k)
    BY DEF Open
  <2>2. CASE \E c \in C : c.key = k /\ c.at = "created"
    BY <1>2, <1>3, <2>2 DEF IInv, DuplicatesExplained
  <2>3. CASE ~ \E c \in C : c.key = k /\ c.at = "created"
    <3>1. Created(k) => Created(k)'
      BY <2>3 DEF Created
    <3>2. unheard'[k] = unheard[k]
      BY <1>2, <2>3
    <3> QED BY <2>1, <3>1, <3>2 DEF IInv, RoomForOne
  <2> QED BY <2>2, <2>3
<1> QED BY <1>4, <1>5, <1>6, <1>7

LEMMA DestroyStep ==
    ASSUME IInv, NEW a \in Accounts, destroyContext(a)
    PROVE  IInv'
<1>1. PICK C : C = {c \in calls : c.key[1] = a}
  OBVIOUS
<1>2. /\ a \in doomed /\ doomed' = doomed \ {a} /\ calls' = calls \ C /\ unheard' = Unheard(C)
      /\ UNCHANGED <<accounts, signedIn, window, drafts, synced, busy, remaining, gmail, told,
                     missing, revived, saves, faults, signOuts, removals, crashes>>
  BY <1>1 DEF destroyContext, tableVars, saveVars, boundVars
<1>3. /\ unheard' \in [Keys -> Nat]
      /\ CallsTrue' /\ CleanRowsAtGmail' /\ DuplicatesExplained' /\ RoomForOne'
  BY <1>1, <1>2, CallsDropped
<1>4. Rows' = Rows /\ accounts # Accounts
  BY <1>2 DEF Rows, IInv, Finite, TypeOK
<1>5. TypeOK' /\ SavedTextKept'
  BY <1>2, <1>3, <1>4 DEF IInv, TypeOK, SavedTextKept
<1>6. Finite' /\ OneCallPerDraft'
  <2>1. /\ IsFiniteSet(calls) /\ remaining \in Nat /\ remaining >= Cardinality(calls)
    BY DEF IInv, Finite, TypeOK, OneCallPerDraft
  <2>2. IsFiniteSet(calls') /\ Cardinality(calls') <= Cardinality(calls)
    BY <1>2, <2>1, FS_Subset
  <2>3. Cardinality(calls) \in Nat /\ Cardinality(calls') \in Nat
    BY <2>1, <2>2, FS_CardinalityType
  <2>4. remaining >= Cardinality(calls')
    BY <2>1, <2>2, <2>3
  <2> QED BY <1>2, <1>4, <2>2, <2>4 DEF IInv, Finite, OneCallPerDraft
<1> QED BY <1>3, <1>5, <1>6 DEF IInv

LEMMA CrashStep == IInv /\ Crash => IInv'
<1> SUFFICES ASSUME IInv, Crash
             PROVE  IInv'
  OBVIOUS
<1>1. /\ doomed' = {} /\ busy' = FALSE /\ remaining' = 0 /\ calls' = {} /\ unheard' = Unheard(calls)
      /\ window' = [w \in Windows |-> [window[w] EXCEPT !.open = FALSE]]
      /\ crashes' = crashes + 1
      /\ UNCHANGED <<accounts, signedIn, drafts, synced, gmail, told, missing, revived,
                     saves, faults, signOuts, removals>>
  BY DEF Crash, tableVars, saveVars
<1>2. /\ unheard' \in [Keys -> Nat]
      /\ CallsTrue' /\ CleanRowsAtGmail' /\ DuplicatesExplained' /\ RoomForOne'
  <2>1. calls' = calls \ calls
    BY <1>1
  <2> QED BY <1>1, <2>1, CallsDropped
<1>3. window' \in [Windows -> Window]
  <2>1. \A w \in Windows : [window[w] EXCEPT !.open = FALSE] \in Window
    BY DEF IInv, TypeOK, Window
  <2> QED BY <1>1, <2>1
<1>4. Rows' = Rows /\ IsFiniteSet(calls') /\ Cardinality(calls') = 0
  BY <1>1, FS_EmptySet DEF Rows
<1>5. TypeOK'
  <2>1. doomed' \subseteq Accounts /\ busy' \in BOOLEAN /\ remaining' \in Nat /\ calls' \subseteq Call
    BY <1>1
  <2>2. crashes' \in Nat
    BY <1>1 DEF IInv, TypeOK
  <2> QED BY <1>1, <1>2, <1>3, <1>4, <2>1, <2>2 DEF IInv, TypeOK
<1>6. Finite' /\ OneCallPerDraft' /\ SavedTextKept'
  BY <1>1, <1>4 DEF IInv, Finite, OneCallPerDraft, SavedTextKept
<1> QED BY <1>2, <1>5, <1>6 DEF IInv

-----------------------------------------------------------------------------
(* A call on its way, and its callback.                                    *)

\* A call that moves on keeps its key, its text and its note.
LEMMA MovedCall ==
    ASSUME IInv, NEW c \in calls, NEW d \in Call,
           d.key = c.key, calls' = (calls \ {c}) \cup {d},
           UNCHANGED <<accounts, doomed, drafts, busy, remaining>>
    PROVE  /\ OneCallPerDraft' /\ calls' \subseteq Call /\ Rows' = Rows
           /\ IsFiniteSet(calls') /\ IsFiniteSet(Rows') /\ (doomed \cap accounts)' = {}
<1>1. \A b \in calls \ {c} : b.key # c.key
  BY DEF IInv, OneCallPerDraft
<1>2. Rows' = Rows
  BY DEF Rows
<1>3. IsFiniteSet(calls') /\ Cardinality(calls') = Cardinality(calls)
  <2>1. IsFiniteSet(calls)
    BY DEF IInv, Finite
  <2>2. IsFiniteSet(calls \ {c}) /\ Cardinality(calls \ {c}) = Cardinality(calls) - 1
    BY <2>1, FS_RemoveElement
  <2>3. d \notin calls \ {c}
    BY <1>1
  <2>4. IsFiniteSet(calls') /\ Cardinality(calls') = Cardinality(calls \ {c}) + 1
    BY <2>2, <2>3, FS_AddElement
  <2>5. Cardinality(calls) \in Nat
    BY <2>1, FS_CardinalityType
  <2> QED BY <2>2, <2>4, <2>5
<1>4. \A b, e \in calls' : b.key = e.key => b = e
  BY <1>1 DEF IInv, OneCallPerDraft
<1>5. OneCallPerDraft'
  BY <1>3, <1>4 DEF IInv, OneCallPerDraft
<1> QED BY <1>2, <1>3, <1>5 DEF IInv, Finite, TypeOK

LEMMA SendStep ==
    ASSUME IInv, NEW c \in calls, createDraft(c)
    PROVE  IInv'
<1>1. PICK d : d = [c EXCEPT !.at = "sent"]
  OBVIOUS
<1>2. /\ c.at = "posted" /\ calls' = (calls \ {c}) \cup {d}
      /\ UNCHANGED <<accounts, doomed, signedIn, window, drafts, synced, busy, remaining, gmail,
                     told, missing, revived, unheard, saves, faults, signOuts, removals, crashes>>
  BY <1>1 DEF createDraft, accountVars, tableVars, saveVars, boundVars
<1>3. /\ d \in Call /\ d.key = c.key /\ d.text = c.text /\ d.at = "sent"
      /\ d.overtaken = c.overtaken
  BY <1>1 DEF IInv, TypeOK, Call
<1>4. /\ OneCallPerDraft' /\ calls' \subseteq Call /\ Rows' = Rows
      /\ IsFiniteSet(calls') /\ IsFiniteSet(Rows') /\ (doomed \cap accounts)' = {}
  BY <1>2, <1>3, MovedCall
<1>5. TypeOK' /\ Finite'
  BY <1>2, <1>4 DEF IInv, TypeOK, Finite
<1>6. CallsTrue'
  BY <1>2, <1>3, <1>4 DEF IInv, CallsTrue
<1>7. SavedTextKept' /\ CleanRowsAtGmail' /\ DuplicatesExplained'
  BY <1>2, <1>4 DEF IInv, SavedTextKept, CleanRowsAtGmail, DuplicatesExplained, Copies
<1>8. RoomForOne'
  <2> SUFFICES ASSUME NEW j \in Keys, Open(j)' \/ (j \in Rows /\ ~ Created(j)')
               PROVE  Cardinality(Copies(j)) <= unheard[j] + revived[j]
    BY <1>2, <1>4 DEF RoomForOne, Copies
  <2>1. Open(j)' => Open(j)
    BY <1>2, <1>3 DEF Open
  <2>2. Created(j) => Created(j)'
    BY <1>2 DEF Created
  <2> QED BY <2>1, <2>2 DEF IInv, RoomForOne
<1> QED BY <1>4, <1>5, <1>6, <1>7, <1>8 DEF IInv

\* Gmail makes a draft of a key that had room for one.
LEMMA CreateStep ==
    ASSUME IInv, NEW c \in calls, Create(c)
    PROVE  IInv'
<1>1. PICK id : id = Cardinality(gmail) + 1
  OBVIOUS
<1>2. PICK d : d = [c EXCEPT !.at = "created", !.id = id]
  OBVIOUS
<1>3. PICK g : g = [id |-> id, key |-> c.key, text |-> c.text]
  OBVIOUS
<1>4. /\ c.at = "sent" /\ calls' = (calls \ {c}) \cup {d} /\ gmail' = gmail \cup {g}
      /\ UNCHANGED <<accounts, doomed, signedIn, window, drafts, synced, busy, remaining,
                     told, missing, revived, unheard, saves, faults, signOuts, removals, crashes>>
  BY <1>1, <1>2, <1>3 DEF Create, accountVars, tableVars, saveVars, boundVars
<1>5. c \in Call /\ c.key \in Keys /\ c.text \in Texts /\ id \in Nat
  <2>1. Cardinality(gmail) \in Nat
    BY FS_CardinalityType DEF IInv, Finite
  <2> QED BY <1>1, <2>1 DEF IInv, TypeOK, Call
<1>6. /\ d \in Call /\ d.key = c.key /\ d.text = c.text /\ d.at = "created" /\ d.id = id
      /\ d.overtaken = c.overtaken
  BY <1>2, <1>5 DEF Call
<1>7. g \in Copy /\ g.key = c.key
  BY <1>3, <1>5 DEF Copy
<1>8. /\ OneCallPerDraft' /\ calls' \subseteq Call /\ Rows' = Rows
      /\ IsFiniteSet(calls') /\ IsFiniteSet(Rows') /\ (doomed \cap accounts)' = {}
  BY <1>4, <1>6, MovedCall
<1>9. IsFiniteSet(gmail')
  BY <1>4, FS_AddElement DEF IInv, Finite
<1>10. TypeOK'
  BY <1>4, <1>7, <1>8 DEF IInv, TypeOK
<1>11. Finite'
  BY <1>4, <1>8, <1>9 DEF Finite
<1>12. CallsTrue'
  <2> SUFFICES ASSUME NEW b \in calls'
               PROVE  /\ b.at = "created" =>
                             [id |-> b.id, key |-> b.key, text |-> b.text] \in gmail'
                      /\ b.key \in Rows /\ ~ b.overtaken => drafts[b.key].text = b.text
    BY <1>4, <1>8 DEF CallsTrue
  <2>1. CASE b \in calls
    BY <1>4, <2>1 DEF IInv, CallsTrue
  <2>2. CASE b = d
    BY <1>3, <1>4, <1>6, <2>2 DEF IInv, CallsTrue
  <2> QED BY <1>4, <2>1, <2>2
<1>13. SavedTextKept' /\ CleanRowsAtGmail'
  BY <1>4, <1>8 DEF IInv, SavedTextKept, CleanRowsAtGmail
<1>14. ASSUME NEW j \in Keys, j # c.key
       PROVE  /\ Copies(j)' = Copies(j)
              /\ Open(j)' \/ (j \in Rows /\ ~ Created(j)') => Open(j) \/ (j \in Rows /\ ~ Created(j))
  <2>1. Copies(j)' = Copies(j)
    BY <1>4, <1>7, <1>14 DEF Copies
  <2>2. Open(j)' => Open(j)
    BY <1>4, <1>6, <1>14 DEF Open
  <2>3. Created(j) => Created(j)'
    BY <1>4, <1>14 DEF Created
  <2> QED BY <2>1, <2>2, <2>3
<1>15. /\ Cardinality(Copies(c.key)') <= 1 + unheard[c.key] + revived[c.key]
       /\ ~ Open(c.key)' /\ Created(c.key)'
  <2>1. Open(c.key)
    BY <1>4 DEF Open
  <2>2. Cardinality(Copies(c.key)) <= unheard[c.key] + revived[c.key]
    BY <1>5, <2>1 DEF IInv, RoomForOne
  <2>3. Copies(c.key)' = Copies(c.key) \cup {g}
    BY <1>4, <1>7 DEF Copies
  <2>4. IsFiniteSet(Copies(c.key)) /\ Cardinality(Copies(c.key)) \in Nat
    BY CopiesFinite
  <2>5. Cardinality(Copies(c.key)') <= Cardinality(Copies(c.key)) + 1
    BY <2>3, <2>4, FS_AddElement
  <2>6. Cardinality(Copies(c.key)') \in Nat
    <3>1. IsFiniteSet(Copies(c.key)')
      BY <2>3, <2>4, FS_AddElement
    <3> QED BY <3>1, FS_CardinalityType
  <2>7. unheard[c.key] \in Nat /\ revived[c.key] \in Nat
    BY <1>5 DEF IInv, TypeOK
  <2>8. ~ Open(c.key)' /\ Created(c.key)'
    BY <1>4, <1>6 DEF IInv, OneCallPerDraft, Open, Created
  <2> QED BY <2>2, <2>4, <2>5, <2>6, <2>7, <2>8
<1>16. DuplicatesExplained'
  BY <1>4, <1>14, <1>15 DEF IInv, DuplicatesExplained
<1>17. RoomForOne'
  BY <1>4, <1>8, <1>14, <1>15 DEF IInv, RoomForOne
<1> QED BY <1>8, <1>10, <1>11, <1>12, <1>13, <1>16, <1>17 DEF IInv

\* A creation that is sent again leaves the draft it made unheard of, and so room for one more.
LEMMA ResentStep ==
    ASSUME IInv, NEW c \in calls, Resent(c)
    PROVE  IInv'
<1>1. PICK d : d = [c EXCEPT !.at = "sent", !.id = 0]
  OBVIOUS
<1>2. /\ c.at = "created" /\ calls' = (calls \ {c}) \cup {d}
      /\ unheard' = [unheard EXCEPT ![c.key] = @ + 1] /\ faults' = faults + 1
      /\ UNCHANGED <<accounts, doomed, signedIn, window, drafts, synced, busy, remaining, gmail,
                     told, missing, revived, saves, signOuts, removals, crashes>>
  BY <1>1 DEF Resent, Fault, accountVars, tableVars, saveVars
<1>3. c \in Call /\ c.key \in Keys
  BY DEF IInv, TypeOK, Call
<1>4. /\ d \in Call /\ d.key = c.key /\ d.text = c.text /\ d.at = "sent"
      /\ d.overtaken = c.overtaken
  BY <1>1, <1>3 DEF Call
<1>5. /\ OneCallPerDraft' /\ calls' \subseteq Call /\ Rows' = Rows
      /\ IsFiniteSet(calls') /\ IsFiniteSet(Rows') /\ (doomed \cap accounts)' = {}
  BY <1>2, <1>4, MovedCall
<1>6. \A k \in Keys : unheard[k] \in Nat /\ revived[k] \in Nat /\ Cardinality(Copies(k)) \in Nat
  BY CopiesFinite DEF IInv, TypeOK
<1>7. /\ unheard' \in [Keys -> Nat]
      /\ \A k \in Keys : unheard'[k] = IF k = c.key THEN unheard[k] + 1 ELSE unheard[k]
  BY <1>2, <1>3, <1>6 DEF IInv, TypeOK
<1>8. TypeOK' /\ Finite'
  BY <1>2, <1>5, <1>7 DEF IInv, TypeOK, Finite
<1>9. CallsTrue'
  BY <1>2, <1>4, <1>5 DEF IInv, CallsTrue
<1>10. SavedTextKept' /\ CleanRowsAtGmail'
  BY <1>2, <1>5 DEF IInv, SavedTextKept, CleanRowsAtGmail
<1>11. \A k : Copies(k)' = Copies(k)
  BY <1>2 DEF Copies
<1>12. DuplicatesExplained'
  BY <1>2, <1>6, <1>7, <1>11 DEF IInv, DuplicatesExplained
<1>13. RoomForOne'
  <2> SUFFICES ASSUME NEW j \in Keys, Open(j)' \/ (j \in Rows /\ ~ Created(j)')
               PROVE  Cardinality(Copies(j)) <= unheard'[j] + revived[j]
    BY <1>2, <1>5, <1>11 DEF RoomForOne
  <2>1. CASE j = c.key
    BY <1>6, <1>7, <2>1 DEF IInv, DuplicatesExplained
  <2>2. CASE j # c.key
    <3>1. Open(j)' => Open(j)
      BY <1>2, <1>4, <2>2 DEF Open
    <3>2. Created(j) => Created(j)'
      BY <1>2, <2>2 DEF Created
    <3> QED BY <1>7, <2>2, <3>1, <3>2 DEF IInv, RoomForOne
  <2> QED BY <2>1, <2>2
<1> QED BY <1>5, <1>8, <1>9, <1>10, <1>12, <1>13 DEF IInv

\* A callback that ends counts itself off, and the count stays exact.
LEMMA EndOfCall ==
    ASSUME IInv, NEW c \in calls, onDone(c), accounts' = accounts
    PROVE  /\ calls' = calls \ {c} /\ IsFiniteSet(calls')
           /\ remaining' \in Nat /\ busy' \in BOOLEAN
           /\ OneCallPerDraft'
<1>1. calls' = calls \ {c} /\ remaining' = remaining - 1 /\ busy' = (remaining' > 0)
  BY DEF onDone
<1>2. IsFiniteSet(calls) /\ remaining \in Nat /\ remaining >= Cardinality(calls)
  BY DEF IInv, Finite, TypeOK, OneCallPerDraft
<1>3. IsFiniteSet(calls') /\ Cardinality(calls') = Cardinality(calls) - 1
  BY <1>1, <1>2, FS_RemoveElement
<1>4. Cardinality(calls) \in Nat /\ Cardinality(calls') \in Nat
  BY <1>2, <1>3, FS_CardinalityType
<1>5. remaining' \in Nat /\ remaining' >= Cardinality(calls')
  BY <1>1, <1>2, <1>3, <1>4
<1>6. busy' \in BOOLEAN /\ (busy' <=> remaining' > 0)
  <2>1. (remaining' > 0) \in BOOLEAN
    BY <1>5
  <2> QED BY <1>1, <2>1, Zenon
<1>7. accounts = Accounts => remaining' = Cardinality(calls')
  BY <1>1, <1>3 DEF IInv, OneCallPerDraft
<1>8. \A b, d \in calls' : b.key = d.key => b = d
  BY <1>1 DEF IInv, OneCallPerDraft
<1>9. OneCallPerDraft'
  BY <1>5, <1>6, <1>7, <1>8 DEF OneCallPerDraft
<1> QED BY <1>1, <1>3, <1>5, <1>6, <1>9

LEMMA PushedStep ==
    ASSUME IInv, NEW c \in calls, draftPushed(c)
    PROVE  IInv'
<1>1. /\ c.at = "created" /\ onDone(c)
      /\ drafts' = [k \in Rows \ {c.key} |-> drafts[k]]
      /\ synced' = IF c.key \in Rows THEN synced \cup {RekeyedRow(c)} ELSE synced
      /\ UNCHANGED <<accounts, doomed, signedIn, window, gmail, told, missing, revived, unheard,
                     saves, faults, signOuts, removals, crashes>>
  BY DEF draftPushed, markSynced, accountVars, saveVars, boundVars
<1>2. /\ calls' = calls \ {c} /\ IsFiniteSet(calls')
      /\ remaining' \in Nat /\ busy' \in BOOLEAN /\ OneCallPerDraft'
  BY <1>1, EndOfCall
<1>3. c \in Call /\ c.key \in Keys /\ \A b \in calls' : b.key # c.key
  BY <1>2 DEF IInv, TypeOK, Call, OneCallPerDraft
<1>4. /\ Rows' = Rows \ {c.key} /\ drafts' \in [Rows' -> Row]
      /\ \A k \in Rows' : drafts'[k] = drafts[k]
  <2>1. drafts \in [Rows -> Row]
    BY DEF IInv, TypeOK
  <2>2. Rows' = Rows \ {c.key}
    BY <1>1 DEF Rows
  <2> QED BY <1>1, <2>1, <2>2
<1>5. c.key \in Rows =>
          /\ RekeyedRow(c) \in Synced /\ RekeyedRow(c).key = c.key
          /\ RekeyedRow(c).text = drafts[c.key].text
          /\ \E g \in gmail : /\ g.id = RekeyedRow(c).id /\ g.key = c.key
                              /\ RekeyedRow(c).overtaken \/ g.text = RekeyedRow(c).text
  <2> SUFFICES ASSUME c.key \in Rows
               PROVE  /\ RekeyedRow(c) \in Synced /\ RekeyedRow(c).key = c.key
                      /\ RekeyedRow(c).text = drafts[c.key].text
                      /\ \E g \in gmail : /\ g.id = RekeyedRow(c).id /\ g.key = c.key
                                          /\ RekeyedRow(c).overtaken \/ g.text = RekeyedRow(c).text
    OBVIOUS
  <2>1. drafts[c.key].text \in Texts
    BY DEF IInv, TypeOK, Row
  <2>2. /\ RekeyedRow(c).id = c.id /\ RekeyedRow(c).key = c.key
        /\ RekeyedRow(c).text = drafts[c.key].text /\ RekeyedRow(c).overtaken = c.overtaken
    BY DEF RekeyedRow
  <2>3. RekeyedRow(c) \in Synced
    BY <1>3, <2>1 DEF RekeyedRow, Synced, Call
  <2>4. PICK g \in gmail : g = [id |-> c.id, key |-> c.key, text |-> c.text]
    BY <1>1 DEF IInv, CallsTrue
  <2>5. g.id = c.id /\ g.key = c.key /\ g.text = c.text
    BY <2>4
  <2>6. c.overtaken \/ drafts[c.key].text = c.text
    BY DEF IInv, CallsTrue
  <2> QED BY <2>2, <2>3, <2>5, <2>6
<1>6. TypeOK'
  <2>1. synced' \subseteq Synced /\ Rows' \subseteq Keys
    BY <1>1, <1>4, <1>5 DEF IInv, TypeOK
  <2>2. calls' \subseteq Call
    BY <1>2 DEF IInv, TypeOK
  <2> QED BY <1>1, <1>2, <1>4, <2>1, <2>2 DEF IInv, TypeOK
<1>7. Finite'
  <2>1. IsFiniteSet(Rows')
    BY <1>4, FS_Subset DEF IInv, Finite
  <2> QED BY <1>1, <1>2, <2>1 DEF IInv, Finite
<1>8. CallsTrue'
  BY <1>1, <1>2, <1>3, <1>4 DEF IInv, CallsTrue
<1>9. SavedTextKept'
  <2> SUFFICES ASSUME NEW k \in Keys, told[k] # 0, k \notin missing
               PROVE  \/ k \in Rows' /\ drafts'[k].text = told[k]
                      \/ \E s \in synced' : s.key = k /\ s.text = told[k]
    BY <1>1 DEF SavedTextKept
  <2>1. \/ k \in Rows /\ drafts[k].text = told[k]
        \/ \E s \in synced : s.key = k /\ s.text = told[k]
    BY DEF IInv, SavedTextKept
  <2>2. CASE k = c.key /\ k \in Rows /\ drafts[k].text = told[k]
    BY <1>1, <1>5, <2>2
  <2>3. CASE k # c.key /\ k \in Rows /\ drafts[k].text = told[k]
    BY <1>4, <2>3
  <2>4. CASE \E s \in synced : s.key = k /\ s.text = told[k]
    BY <1>1, <2>4
  <2> QED BY <2>1, <2>2, <2>3, <2>4
<1>10. CleanRowsAtGmail'
  <2>1. \A k \in Rows' : drafts'[k].dirty
    BY <1>4 DEF IInv, CleanRowsAtGmail
  <2>2. \A s \in synced' : \E g \in gmail :
            /\ g.id = s.id /\ g.key = s.key
            /\ s.overtaken \/ g.text = s.text
    <3> TAKE s \in synced'
    <3>1. CASE s \in synced
      BY <3>1 DEF IInv, CleanRowsAtGmail
    <3>2. CASE c.key \in Rows /\ s = RekeyedRow(c)
      BY <1>5, <3>2
    <3> QED BY <1>1, <3>1, <3>2
  <2> QED BY <1>1, <2>1, <2>2 DEF CleanRowsAtGmail
<1>11. DuplicatesExplained'
  BY <1>1 DEF IInv, DuplicatesExplained, Copies
<1>12. RoomForOne'
  <2> SUFFICES ASSUME NEW j \in Keys, Open(j)' \/ (j \in Rows' /\ ~ Created(j)')
               PROVE  Cardinality(Copies(j)) <= unheard[j] + revived[j]
    BY <1>1 DEF RoomForOne, Copies
  <2>1. j # c.key
    BY <1>3, <1>4 DEF Open
  <2>2. Open(j)' => Open(j)
    BY <1>2 DEF Open
  <2>3. Created(j) => Created(j)'
    BY <1>2, <2>1 DEF Created
  <2> QED BY <1>4, <2>2, <2>3 DEF IInv, RoomForOne
<1> QED BY <1>2, <1>6, <1>7, <1>8, <1>9, <1>10, <1>11, <1>12 DEF IInv

\* A failed attempt leaves the table alone.
LEMMA FailedStep ==
    ASSUME IInv, NEW c \in calls, NoToken(c) \/ Refused(c) \/ CreationUnrecorded(c)
    PROVE  IInv'
<1>1. PICK C : C = {c}
  OBVIOUS
<1>2. /\ onDone(c)
      /\ UNCHANGED <<accounts, doomed, signedIn, window, drafts, synced, gmail, told, missing,
                     revived, saves, signOuts, removals, crashes>>
  BY DEF NoToken, Refused, CreationUnrecorded, draftFailed, Fault, accountVars, tableVars,
         saveVars, boundVars
<1>3. faults' \in Nat
  BY DEF NoToken, Refused, CreationUnrecorded, Fault, boundVars, IInv, TypeOK
<1>4. /\ calls' = calls \ C /\ calls' = calls \ {c} /\ IsFiniteSet(calls')
      /\ remaining' \in Nat /\ busy' \in BOOLEAN /\ OneCallPerDraft'
  BY <1>1, <1>2, EndOfCall
<1>5. c.key \in Keys /\ unheard \in [Keys -> Nat]
  BY DEF IInv, TypeOK, Call
<1>6. unheard' = Unheard(C)
  <2>1. unheard' = IF c.at = "created" THEN [unheard EXCEPT ![c.key] = @ + 1] ELSE unheard
    BY DEF NoToken, Refused, CreationUnrecorded
  <2>2. \A k \in Keys : Unheard(C)[k] = IF k = c.key /\ c.at = "created"
                                        THEN unheard[k] + 1 ELSE unheard[k]
    BY <1>1, CountUnheard
  <2>3. \A k \in Keys : unheard'[k] = Unheard(C)[k]
    BY <1>5, <2>1, <2>2
  <2>4. Unheard(C) = [k \in Keys |-> Unheard(C)[k]] /\ unheard' = [k \in Keys |-> unheard'[k]]
    BY <1>5, <2>1 DEF Unheard
  <2> QED BY <2>3, <2>4
<1>7. /\ unheard' \in [Keys -> Nat]
      /\ CallsTrue' /\ CleanRowsAtGmail' /\ DuplicatesExplained' /\ RoomForOne'
  BY <1>1, <1>2, <1>4, <1>6, CallsDropped
<1>8. Rows' = Rows
  BY <1>2 DEF Rows
<1>9. TypeOK' /\ Finite' /\ SavedTextKept'
  BY <1>2, <1>3, <1>4, <1>7, <1>8 DEF IInv, TypeOK, Finite, SavedTextKept
<1> QED BY <1>4, <1>7, <1>9 DEF IInv

-----------------------------------------------------------------------------
(* The theorems.                                                           *)

LEMMA NextIInv == IInv /\ [Next]_vars => IInv'
<1> SUFFICES ASSUME IInv, [Next]_vars
             PROVE  IInv'
  OBVIOUS
<1>1. CASE UNCHANGED vars
  <2>1. UNCHANGED <<accounts, doomed, signedIn, window, drafts, synced, busy, remaining, calls,
                    gmail, told, missing, revived, unheard, saves, faults, signOuts, removals,
                    crashes>>
    BY <1>1 DEF vars, accountVars, tableVars, batchVars, saveVars, boundVars
  <2>2. TypeOK'
    BY <2>1 DEF IInv, TypeOK, Rows
  <2> QED BY <2>1, <2>2, QuietStep
<1>2. CASE User
  BY <1>2, WindowStep, SaveStep, SignInOutStep, PurgeStep DEF User
<1>3. CASE \E a \in Accounts : destroyContext(a)
  BY <1>3, DestroyStep
<1>4. CASE Tick
  BY <1>4, TickStep
<1>5. CASE \E c \in calls : createDraft(c) \/ Create(c) \/ Resent(c) \/ Callback(c)
  BY <1>5, SendStep, CreateStep, ResentStep, PushedStep, FailedStep DEF Callback
<1>6. CASE Crash
  BY <1>6, CrashStep
<1> QED BY <1>1, <1>2, <1>3, <1>4, <1>5, <1>6 DEF Next

\* The invariant holds of every reachable state.
THEOREM IInvAlways == Spec => []IInv
<1> QED BY InitIInv, NextIInv, PTL DEF Spec

\* A text a window was told is saved survives every answer about an older one.
THEOREM SavedTextKeptAlways == Spec => []SavedTextKept
<1>1. IInv => SavedTextKept
  BY DEF IInv
<1> QED BY <1>1, IInvAlways, PTL

\* A row the program takes for pushed is at Gmail, as it was when it went out.
THEOREM CleanRowsAtGmailAlways == Spec => []CleanRowsAtGmail
<1>1. IInv => CleanRowsAtGmail
  BY DEF IInv
<1> QED BY <1>1, IInvAlways, PTL

\* A second Gmail draft of one text has one of two causes, each counted.
THEOREM DuplicatesExplainedAlways == Spec => []DuplicatesExplained
<1>1. IInv => DuplicatesExplained
  BY DEF IInv
<1> QED BY <1>1, IInvAlways, PTL

\* `busy' alone keeps a draft out of two calls, and the batch count is exact
\* until an account is removed.
THEOREM OneCallPerDraftAlways == Spec => [](TypeOK /\ OneCallPerDraft)
<1>1. IInv => TypeOK /\ OneCallPerDraft
  BY DEF IInv
<1> QED BY <1>1, IInvAlways, PTL
=============================================================================
