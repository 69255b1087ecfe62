--------------------------- MODULE AccountsProofs ---------------------------
(***************************************************************************)
(* Theorems about Accounts that hold for every set of addresses, every     *)
(* number of accounts and every bound: AccountManager and MainWindow speak  *)
(* of the same accounts, no tokens are lost with the database, and the      *)
(* window settles on an account that can be used.                          *)
(***************************************************************************)
EXTENDS Accounts, FiniteSetTheorems, SequenceTheorems, WellFoundedInduction, TLAPS

-----------------------------------------------------------------------------
(* Ids in order.                                                           *)

LEMMA FirstOf ==
    ASSUME NEW S, S \subseteq Nat, S # {}
    PROVE  First(S) \in S /\ \A b \in S : First(S) <= b
<1>1. PICK a \in S : \A b \in S : ~ (<<b, a>> \in OpToRel(<, Nat))
  BY NatLessThanWellFounded, WFMin
<1>2. \A b \in S : ~ (b < a)
  BY <1>1 DEF OpToRel
<1>3. \A b \in S : a <= b
  BY <1>2
<1> QED BY <1>3 DEF First

LEMMA IdsAreNumbers == Ids \subseteq Nat \ {0} /\ None \notin Ids
BY AccountsAssumption DEF AccountsAssumption, Ids, None

\* The number of an element among those of S, in order.
Rank(S, a) == Cardinality({b \in S : b <= a})

LEMMA RankIsOnto ==
    ASSUME NEW S, S \subseteq Nat, IsFiniteSet(S)
    PROVE  /\ Cardinality(S) \in Nat
           /\ \A a \in S : Rank(S, a) \in 1 .. Cardinality(S)
           /\ \A a, b \in S : Rank(S, a) = Rank(S, b) => a = b
           /\ \A i \in 1 .. Cardinality(S) : \E a \in S : Rank(S, a) = i
<1> DEFINE UpTo(a) == {b \in S : b <= a}
           T == 1 .. Cardinality(S)
           f == [a \in S |-> Cardinality(UpTo(a))]
<1>1. Cardinality(S) \in Nat
  BY FS_CardinalityType
<1>2. ASSUME NEW a \in S
      PROVE  IsFiniteSet(UpTo(a)) /\ Cardinality(UpTo(a)) \in T
  <2>1. UpTo(a) \in SUBSET S /\ a \in UpTo(a)
    OBVIOUS
  <2> HIDE DEF UpTo
  <2>2. IsFiniteSet(UpTo(a)) /\ Cardinality(UpTo(a)) <= Cardinality(S)
    BY <2>1, FS_Subset
  <2>3. Cardinality(UpTo(a)) \in Nat /\ Cardinality(UpTo(a)) # 0
    BY <2>1, <2>2, FS_CardinalityType, FS_EmptySet
  <2> QED BY <1>1, <2>2, <2>3
<1>3. ASSUME NEW a \in S, NEW b \in S, a < b
      PROVE  Cardinality(UpTo(a)) # Cardinality(UpTo(b))
  <2>1. UpTo(a) \in SUBSET UpTo(b) /\ b \in UpTo(b) /\ b \notin UpTo(a)
    <3>1. a \in Nat /\ b \in Nat /\ \A c \in S : c \in Nat
      OBVIOUS
    <3>2. (\A c \in S : c <= a => c <= b) /\ b <= b /\ ~ (b <= a)
      BY <1>3, <3>1
    <3> QED BY <3>2
  <2> HIDE DEF UpTo
  <2> QED BY <1>2, <2>1, FS_Subset
<1>4. \A a, b \in S : Cardinality(UpTo(a)) = Cardinality(UpTo(b)) => a = b
  <2> SUFFICES ASSUME NEW a \in S, NEW b \in S, a # b
               PROVE  Cardinality(UpTo(a)) # Cardinality(UpTo(b))
    OBVIOUS
  <2>1. a < b \/ b < a
    OBVIOUS
  <2> HIDE DEF UpTo
  <2> QED BY <1>3, <2>1
<1>5. f \in Surjection(S, T)
  <2> HIDE DEF UpTo
  <2>1. f \in Injection(S, T)
    BY <1>2, <1>4 DEF Injection, IsInjective
  <2>2. IsFiniteSet(T) /\ Cardinality(T) = Cardinality(S)
    <3>1. 1 \in Int /\ Cardinality(S) \in Int /\ (1 > Cardinality(S) => Cardinality(S) = 0)
      BY <1>1
    <3> QED BY <1>1, <3>1, FS_Interval
  <2> HIDE DEF T, f
  <2> QED BY <2>1, <2>2, FS_Injection
<1>6. \A i \in T : \E a \in S : f[a] = i
  BY <1>5 DEF Surjection
<1> QED BY <1>1, <1>2, <1>4, <1>6 DEF Rank

\* InOrder lists the elements of S, each of them.
LEMMA InOrderLists ==
    ASSUME NEW S, S \subseteq Nat, IsFiniteSet(S)
    PROVE  /\ Cardinality(S) \in Nat
           /\ InOrder(S) \in [1 .. Cardinality(S) -> S]
           /\ \A a \in S : \E i \in 1 .. Cardinality(S) : InOrder(S)[i] = a
<1> DEFINE n == Cardinality(S)
           s == InOrder(S)
<1>1. \A i \in 1 .. n : s[i] = CHOOSE a \in S : Rank(S, a) = i
  BY DEF InOrder, Rank
<1>2. \A i \in 1 .. n : s[i] \in S /\ Rank(S, s[i]) = i
  BY <1>1, RankIsOnto
<1>3. s = [i \in 1 .. n |-> s[i]]
  BY DEF InOrder
<1>4. s \in [1 .. n -> S]
  <2> HIDE DEF s
  <2> QED BY <1>2, <1>3
<1>5. ASSUME NEW a \in S
      PROVE  \E i \in 1 .. n : s[i] = a
  <2>1. Rank(S, a) \in 1 .. n
    BY RankIsOnto
  <2>2. s[Rank(S, a)] \in S /\ Rank(S, s[Rank(S, a)]) = Rank(S, a)
    BY <1>2, <2>1
  <2>3. s[Rank(S, a)] = a
    <3> HIDE DEF s
    <3> QED BY <2>2, RankIsOnto
  <2> QED BY <2>1, <2>3
<1> QED BY <1>4, <1>5, RankIsOnto

\* Jobs of the keychain and calls queued on clients.
Posts == [op : {"adopt", "signOut"}, id : Ids]
Jobs  == [op : {"load", "save", "erase"}, id : Ids, live : BOOLEAN]

LEMMA LoadsListed ==
    ASSUME NEW S, S \subseteq Ids
    PROVE  /\ Loads(S) \in Seq(Jobs)
           /\ \A i \in DOMAIN Loads(S) :
                 Loads(S)[i].id \in S /\ Loads(S)[i].op = "load" /\ Loads(S)[i].live
           /\ \A a \in S : \E i \in DOMAIN Loads(S) : Loads(S)[i].id = a
<1> DEFINE n == Cardinality(S)
<1>1. S \in SUBSET (1 .. MaxIds) /\ IsFiniteSet(1 .. MaxIds) /\ S \subseteq Nat
  <2>1. 1 \in Int /\ MaxIds \in Int
    BY AccountsAssumption DEF AccountsAssumption
  <2> QED BY <2>1, FS_Interval, IdsAreNumbers DEF Ids
<1>2. IsFiniteSet(S)
  BY <1>1, FS_Subset
<1>3. /\ n \in Nat /\ InOrder(S) \in [1 .. n -> S]
      /\ \A a \in S : \E i \in 1 .. n : InOrder(S)[i] = a
  BY <1>1, <1>2, InOrderLists
<1> HIDE DEF n
<1>4. Loads(S) = [i \in 1 .. n |-> Job("load", InOrder(S)[i])]
  BY DEF Loads, n
<1>5. DOMAIN Loads(S) = 1 .. n
  BY <1>4
<1>6. \A i \in 1 .. n : InOrder(S)[i] \in S /\ Loads(S)[i] = Job("load", InOrder(S)[i])
  BY <1>3, <1>4
<1>7. \A a \in S : Job("load", a) \in Jobs /\ Job("load", a).id = a
                   /\ Job("load", a).op = "load" /\ Job("load", a).live
  BY DEF Job, Jobs
<1>8. Loads(S) \in [1 .. n -> Jobs]
  BY <1>4, <1>6, <1>7
<1>9. Loads(S) \in Seq(Jobs)
  BY <1>3, <1>8
<1>10. ASSUME NEW a \in S
       PROVE  \E i \in 1 .. n : Loads(S)[i].id = a
  <2>1. PICK i \in 1 .. n : InOrder(S)[i] = a
    BY <1>3
  <2> QED BY <2>1, <1>6, <1>7
<1>11. \A i \in 1 .. n : Loads(S)[i].id \in S /\ Loads(S)[i].op = "load" /\ Loads(S)[i].live
  BY <1>6, <1>7
<1> QED BY <1>5, <1>9, <1>10, <1>11

\* The calls that stay are those queued on other clients, all of them.
LEMMA OthersStay ==
    ASSUME posted \in Seq(Posts), NEW a
    PROVE  LET P == postedToOthers(a)
           IN  /\ P \in Seq(Posts)
               /\ \A j \in DOMAIN P : \E i \in DOMAIN posted : P[j] = posted[i] /\ posted[i].id # a
               /\ \A i \in DOMAIN posted : posted[i].id # a => \E j \in DOMAIN P : P[j] = posted[i]
<1> DEFINE K == {i \in DOMAIN posted : posted[i].id # a}
           n == Cardinality(K)
           P == postedToOthers(a)
<1>1. DOMAIN posted = 1 .. Len(posted) /\ Len(posted) \in Nat
  BY LenProperties
<1>2. K \in SUBSET (1 .. Len(posted)) /\ K \subseteq Nat /\ IsFiniteSet(1 .. Len(posted))
  <2>1. 1 \in Int /\ Len(posted) \in Int
    BY <1>1
  <2>2. IsFiniteSet(1 .. Len(posted))
    BY ONLY <2>1, FS_Interval
  <2>3. K \in SUBSET (1 .. Len(posted))
    BY ONLY <1>1 DEF K
  <2>4. K \subseteq Nat
    BY ONLY <1>1, <2>3
  <2> QED BY <2>2, <2>3, <2>4
<1>3. IsFiniteSet(K)
  BY <1>2, FS_Subset
<1> HIDE DEF K
<1>4. /\ n \in Nat /\ InOrder(K) \in [1 .. n -> K]
      /\ \A i \in K : \E j \in 1 .. n : InOrder(K)[j] = i
  BY <1>2, <1>3, InOrderLists
<1>5. P = [j \in 1 .. n |-> posted[InOrder(K)[j]]]
  BY <1>4 DEF postedToOthers, K
<1> HIDE DEF n, P
<1>6. DOMAIN P = 1 .. n
  BY <1>5
<1>7. \A j \in 1 .. n : InOrder(K)[j] \in K /\ P[j] = posted[InOrder(K)[j]]
  BY <1>4, <1>5
<1>8. \A i \in K : i \in DOMAIN posted /\ posted[i] \in Posts /\ posted[i].id # a
  BY ElementOfSeq, <1>1 DEF K
<1>9. P \in [1 .. n -> Posts]
  BY <1>5, <1>7, <1>8
<1>10. P \in Seq(Posts)
  BY <1>4, <1>9
<1>11. \A j \in 1 .. n : \E i \in DOMAIN posted : P[j] = posted[i] /\ posted[i].id # a
  BY <1>7, <1>8
<1>12. ASSUME NEW i \in DOMAIN posted, posted[i].id # a
       PROVE  \E j \in 1 .. n : P[j] = posted[i]
  <2>1. i \in K
    BY <1>12 DEF K
  <2>2. PICK j \in 1 .. n : InOrder(K)[j] = i
    BY <1>4, <2>1
  <2> QED BY <1>7, <2>2
<1> QED BY <1>6, <1>10, <1>11, <1>12 DEF P

-----------------------------------------------------------------------------
(* The invariant.                                                          *)

Minted == 1 .. Len(emailOf)

TypeInv ==
    /\ emailOf \in Seq(Emails) /\ Len(emailOf) <= MaxIds
    /\ table \in Rows /\ mirror \in Rows /\ list \in Rows
    /\ slot \subseteq Ids /\ contexts \subseteq Ids /\ tokens \subseteq Ids
    /\ asked \subseteq Ids /\ removing \subseteq Ids /\ forgotten \subseteq Ids /\ crossed \subseteq Ids
    /\ view \in [current : Ids \cup {None}, window : Ids \cup {None}]
    /\ signIn \in SignIns /\ applied \in BOOLEAN /\ blind \in BOOLEAN
    /\ posted \in Seq(Posts) /\ jobs \in Seq(Jobs)
    /\ visits \in Nat /\ faults \in Nat /\ turns \in Nat

\* Rows t of the table or the mirror: minted ids, one default at most, one row
\* for an address.
RowsOK(t) ==
    /\ t.ids \subseteq Minted /\ t.default \subseteq t.ids
    /\ \A a, b \in t.default : a = b
    /\ \A a, b \in t.ids : emailOf[a] = emailOf[b] => a = b

\* What holds whatever failed.
ClientsOK ==
    /\ RowsOK(table) /\ RowsOK(mirror) /\ list \in {table, NoRows}
    /\ contexts \subseteq table.ids /\ tokens \subseteq contexts
    /\ \A i \in DOMAIN posted : posted[i].id \in contexts
    /\ \A i \in DOMAIN jobs : jobs[i].live => jobs[i].id \in contexts

\* The rows a start would show.
Kept == IF table.ids # {} THEN table.ids ELSE mirror.ids

\* They have every id with tokens in the keychain, or on their way there, that is
\* not forgotten.
KeyedAreKept ==
    /\ slot \subseteq Kept \cup forgotten
    /\ \A i \in DOMAIN jobs : jobs[i].op = "save" => jobs[i].id \in Kept \cup forgotten

\* Without a failure the memory and the tables agree.
Agree ==
    /\ list = table /\ mirror = table /\ contexts = table.ids
    /\ (view.current = None) <=> (table.ids = {})
    /\ view.current \in table.ids \cup {None}
    /\ view.window \in {view.current, None}

\* Without a failure a row whose client has no tokens has none in the keychain
\* either, when the last job about it is done: it is a load, or it erases them.
JobsTell ==
    \A a \in table.ids \ tokens :
        /\ a \in slot => \E i \in DOMAIN jobs : jobs[i].id = a
        /\ \A i \in DOMAIN jobs :
              jobs[i].id = a /\ (jobs[i].op = "save" \/ ~ jobs[i].live) =>
                  \E j \in DOMAIN jobs : j > i /\ jobs[j].id = a

\* A window without tokens behind it will hear of the tokens of some account.
GateToCome ==
    tokens = {} /\ view.window \notin crossed \cup {None} =>
        \/ posted # <<>>
        \/ \E i \in DOMAIN jobs : jobs[i].live /\ jobs[i].op \in {"load", "erase"}

\* A window that was emptied under an account with tokens was so by a sign-out
\* that has not reached its client.
SignOutToCome ==
    view.current \in tokens \ crossed /\ view.window = None =>
        \E i \in DOMAIN posted : posted[i].op = "signOut" /\ posted[i].id = view.current

AccountsInv ==
    /\ TypeInv /\ ClientsOK /\ KeyedAreKept
    /\ ~ blind => Agree /\ JobsTell /\ GateToCome /\ SignOutToCome

-----------------------------------------------------------------------------
(* Rows.                                                                   *)

LEMMA NoRowsOK == NoRows \in Rows /\ RowsOK(NoRows) /\ RowsOK(NoRows)'
BY DEF NoRows, Rows, RowsOK

\* The row that could not be put back is left out.
LEMMA SomeRowsOK ==
    ASSUME NEW t \in Rows, RowsOK(t)', NEW S
    PROVE  RowsOf(t, S) \in Rows /\ RowsOK(RowsOf(t, S))'
BY DEF RowsOf, Rows, RowsOK

\* Rows stay in order when an id is minted.
LEMMA RowsOutlast ==
    ASSUME TypeInv, NEW t \in Rows, RowsOK(t),
           emailOf' = emailOf \/ \E e \in Emails : emailOf' = Append(emailOf, e)
    PROVE  RowsOK(t)'
<1>1. CASE emailOf' = emailOf
  BY <1>1 DEF RowsOK, Minted
<1>2. CASE \E e \in Emails : emailOf' = Append(emailOf, e)
  <2>1. PICK e \in Emails : emailOf' = Append(emailOf, e)
    BY <1>2
  <2>2. /\ Len(emailOf) \in Nat /\ Len(emailOf') = Len(emailOf) + 1
        /\ \A a \in Minted : emailOf'[a] = emailOf[a]
    BY <2>1, AppendProperties, LenProperties DEF TypeInv, Minted
  <2>3. Minted \subseteq Minted'
    BY <2>2 DEF Minted
  <2>4. \A a \in t.ids : a \in Minted /\ emailOf'[a] = emailOf[a]
    BY <2>2 DEF RowsOK
  <2> QED BY <2>3, <2>4 DEF RowsOK
<1> QED BY <1>1, <1>2

\* What a reload of content t leaves: rows of t, or of the mirror if t is empty.
LEMMA ReloadRows ==
    ASSUME TypeInv, NEW t \in Rows, NEW m, m = mirror, NEW gone \in SUBSET Ids,
           RowsOK(t)', RowsOK(m)', reload(t, gone)
    PROVE  /\ table' \in Rows /\ mirror' \in Rows /\ list' \in {table', NoRows}
           /\ RowsOK(table)' /\ RowsOK(mirror)'
           /\ t.ids # {} => table' = t
           /\ forgotten \cup gone \subseteq forgotten' /\ forgotten' \subseteq Ids
           /\ (IF t.ids # {} THEN t.ids ELSE m.ids) \subseteq Kept' \cup forgotten'
           /\ faults' \in Nat
           /\ faults' = faults =>
                 list' = table' /\ mirror' = table' /\ table' = IF t.ids # {} THEN t ELSE m
<1>1. m \in Rows /\ faults \in Nat /\ forgotten \subseteq Ids
  BY DEF TypeInv
<1>2. \A f : f = faults + 1 => f \in Nat /\ f # faults
  BY <1>1
<1>3. CASE /\ IF t.ids # {} THEN Adopted(t) ELSE Adopted(mirror)
           /\ forgotten' = forgotten \cup gone
           /\ UNCHANGED faults
  <2>1. table' = (IF t.ids # {} THEN t ELSE m) /\ list' = table' /\ mirror' = table'
    BY <1>3 DEF Adopted
  <2>2. RowsOK(table)' /\ RowsOK(mirror)' /\ table' \in Rows /\ mirror' \in Rows
    BY <1>1, <2>1 DEF RowsOK
  <2> QED BY <1>1, <1>3, <2>1, <2>2 DEF Kept
<1>4. CASE \E a \in mirror.ids :
             /\ t.ids = {} /\ Adopted(RowsOf(mirror, Ids \ {a}))
             /\ forgotten' = forgotten \cup gone \cup {a}
             /\ Fault
  <2>1. PICK a \in m.ids : /\ t.ids = {} /\ Adopted(RowsOf(m, Ids \ {a}))
                           /\ forgotten' = forgotten \cup gone \cup {a}
                           /\ Fault
    BY <1>4
  <2>2. PICK r : r = RowsOf(m, Ids \ {a})
    OBVIOUS
  <2>3. r \in Rows /\ RowsOK(r)'
    BY <1>1, <2>2, SomeRowsOK
  <2>4. table' = r /\ list' = r /\ mirror' = r
    BY <2>1, <2>2 DEF Adopted
  <2>5. r.ids = m.ids \ {a}
    BY <1>1, <2>2 DEF RowsOf, Rows
  <2>6. faults' = faults + 1 /\ a \in Ids
    BY <1>1, <2>1 DEF Fault, Rows
  <2>7. RowsOK(table)' /\ RowsOK(mirror)'
    BY <2>3, <2>4 DEF RowsOK
  <2> QED BY <1>1, <1>2, <2>1, <2>3, <2>4, <2>5, <2>6, <2>7 DEF Kept
<1>5. CASE selectFails(t) /\ forgotten' = forgotten \cup gone
  <2>1. table' = t /\ list' = NoRows /\ mirror' = m /\ faults' = faults + 1
    BY <1>5 DEF selectFails, Fault
  <2>2. RowsOK(table)' /\ RowsOK(mirror)'
    BY <2>1 DEF RowsOK
  <2> QED BY <1>1, <1>2, <1>5, <2>1, <2>2 DEF Kept
<1>6. CASE rereadFails(t) /\ forgotten' = forgotten \cup gone
  <2>1. t.ids = {} /\ table' = m /\ list' = NoRows /\ mirror' = NoRows /\ faults' = faults + 1 /\ m.ids # {}
    BY <1>6 DEF rereadFails, Fault
  <2>2. RowsOK(table)' /\ RowsOK(mirror)'
    BY <2>1, NoRowsOK DEF RowsOK
  <2> QED BY <1>1, <1>2, <1>6, <2>1, <2>2, NoRowsOK DEF Kept
<1> QED BY <1>3, <1>4, <1>5, <1>6 DEF reload

-----------------------------------------------------------------------------
(* The window.                                                             *)

Views == [current : Ids \cup {None}, window : Ids \cup {None}]

LEMMA ViewOf ==
    /\ \A a, b \in Ids \cup {None} : View(a, b) \in Views
    /\ \A a, b : View(a, b).current = a /\ View(a, b).window = b
BY DEF View, Views

LEMMA GateOf ==
    ASSUME NEW v \in Views, NEW auth
    PROVE  /\ enforceActiveAccountGate(auth, v) \in Views
           /\ enforceActiveAccountGate(auth, v).current = v.current
           /\ auth = {} => enforceActiveAccountGate(auth, v).window = None
           /\ auth # {} => enforceActiveAccountGate(auth, v) = v
BY DEF enforceActiveAccountGate, clearAccountUiState, Views

LEMMA SetCurrentOf ==
    ASSUME NEW t \in Rows, NEW v \in Views, NEW a
    PROVE  LET w == setCurrentAccountId(t, v, a)
           IN  /\ w \in Views
               /\ \/ w = v /\ (a = v.current \/ a \notin t.ids)
                  \/ w = View(a, a) /\ a \in t.ids
<1>1. \A b \in t.ids : b \in Ids
  BY DEF Rows
<1> QED BY <1>1, ViewOf DEF setCurrentAccountId

LEMMA InitialOf ==
    ASSUME NEW t \in Rows, t.default \subseteq t.ids, NEW v \in Views,
           NEW w \in selectInitialCurrent(t, v)
    PROVE  /\ w \in Views
           /\ t.ids = {} => w = View(None, v.window)
           /\ t.ids # {} => \E a \in t.ids : w = View(a, a)
<1>1. t.ids \subseteq Ids /\ t.default \subseteq Nat
  BY IdsAreNumbers DEF Rows
<1>2. CASE t.ids = {}
  <2>1. w = View(None, v.window) /\ v.window \in Ids \cup {None}
    BY <1>2 DEF selectInitialCurrent, Views
  <2> QED BY <1>2, <2>1, ViewOf
<1>3. CASE t.ids # {}
  <2>1. PICK a \in IF t.default # {} THEN {First(t.default)} ELSE t.ids : w = View(a, a)
    BY <1>3 DEF selectInitialCurrent
  <2>2. a \in t.ids
    BY <1>1, <2>1, FirstOf
  <2> QED BY <1>1, <1>3, <2>1, <2>2, ViewOf
<1> QED BY <1>2, <1>3

\* Tokens have come, or have not: the window stays, is emptied because no client
\* has any, or goes to an account of the list or to the one they are of.
LEMMA TokensLoadedOf ==
    ASSUME TypeInv, NEW a \in Ids, NEW auth, onTokensLoaded(a, auth)
    PROVE  /\ view' \in Views /\ applied' \in BOOLEAN
           /\ \/ view' = view
              \/ view'.current = view.current /\ view'.window = None /\ auth = {}
              \/ \E x \in list.ids \cup (auth \cap {a}) : view' = View(x, x)
           /\ auth = {} => view'.window = None
           /\ a \in auth /\ view.current = a => view'.window # None
<1>1. view \in Views /\ list \in Rows /\ applied \in BOOLEAN
  BY DEF TypeInv, Views
<1> DEFINE v == enforceActiveAccountGate(auth, view)
           shown == IF v.window # None THEN {v} ELSE Promoted(a, v)
<1>2. /\ v \in Views /\ v.current = view.current
      /\ auth = {} => v.window = None
      /\ auth # {} => v = view
  BY <1>1, GateOf
<1> HIDE DEF v
<1>3. CASE a \notin auth \/ shown = {}
  <2>1. view' = v /\ applied' = applied
    BY <1>3 DEF onTokensLoaded, v
  <2>2. a \in auth /\ view.current = a => FALSE
    <3>1. SUFFICES ASSUME shown = {}, a \in auth, view.current = a
                   PROVE  FALSE
      BY <1>3
    <3>2. v.current = a /\ v.window = None
      BY <1>2, <3>1
    <3> QED BY <3>1, <3>2 DEF Promoted
  <2> QED BY <1>1, <1>2, <2>1, <2>2
<1>4. CASE a \in auth /\ shown # {}
  <2>1. PICK w \in shown : \E r \in restoreStartupSelection(auth, w) : view' = r.view /\ applied' = r.applied
    BY <1>4, Zenon DEF onTokensLoaded, v
  <2>2. PICK r \in restoreStartupSelection(auth, w) : view' = r.view /\ applied' = r.applied
    BY <2>1, Zenon
  <2>3. v = view
    BY <1>2, <1>4
  <2>4. w \in Views /\ ((w = view /\ w.window # None) \/ w = View(a, a))
    BY <1>1, <2>1, <2>3, ViewOf DEF Promoted
  <2>5. w.window # None
    BY <2>4, ViewOf, IdsAreNumbers
  <2>6. r.applied \in BOOLEAN /\ (r.view = w \/ \E x \in list.ids : r.view = View(x, x))
    <3>1. CASE applied
      <4>1. r = [view |-> w, applied |-> TRUE]
        BY <2>2, <3>1 DEF restoreStartupSelection
      <4> QED BY <4>1
    <3>2. CASE ~ applied
      <4>1. PICK u \in Selections(auth, w) : r = [view |-> u, applied |-> TRUE]
        BY <2>2, <3>2 DEF restoreStartupSelection
      <4>2. u = w \/ \E x : u = setCurrentAccountId(list, w, x)
        BY <4>1 DEF Selections
      <4>3. u = w \/ \E x \in list.ids : u = View(x, x)
        BY <1>1, <2>4, <4>2, SetCurrentOf
      <4> QED BY <4>1, <4>3
    <3> QED BY <3>1, <3>2
  <2>7. view' = w \/ \E x \in list.ids : view' = View(x, x)
    BY <2>2, <2>6
  <2>8. \A x \in list.ids : x \in Ids /\ View(x, x) \in Views /\ View(x, x).window # None
    BY <1>1, ViewOf, IdsAreNumbers DEF Rows
  <2> QED BY <1>4, <2>2, <2>4, <2>5, <2>6, <2>7, <2>8
<1> QED BY <1>3, <1>4

\* The keychain has erased the tokens of account a.
LEMMA SignedOutOf ==
    ASSUME TypeInv, NEW a \in Ids, onAccountSignedOut(a)
    PROVE  /\ view' \in Views
           /\ \/ view' = view
              \/ view'.current = view.current /\ view'.window = None /\ (a = view.window \/ tokens = {})
              \/ \E x \in list.ids : view' = View(x, x)
           /\ tokens = {} => view'.window = None
<1>1. view \in Views /\ list \in Rows /\ Ids \subseteq Nat
  BY IdsAreNumbers DEF TypeInv, Views
<1> DEFINE others == (list.ids \ {a}) \cap tokens
           v == IF a # view.window THEN view
                ELSE IF others = {} THEN clearAccountUiState(view)
                ELSE setCurrentAccountId(list, view, First(others))
<1>2. /\ v \in Views
      /\ \/ v = view
         \/ v.current = view.current /\ v.window = None /\ a = view.window
         \/ \E x \in list.ids : v = View(x, x)
  <2>1. clearAccountUiState(view) \in Views /\ clearAccountUiState(view).window = None
        /\ clearAccountUiState(view).current = view.current
    BY <1>1 DEF clearAccountUiState, Views
  <2>2. PICK x, u : x = First(others) /\ u = setCurrentAccountId(list, view, x)
    OBVIOUS
  <2>3. u \in Views /\ (u = view \/ (u = View(x, x) /\ x \in list.ids))
    BY <1>1, <2>2, SetCurrentOf
  <2> QED BY <1>1, <2>1, <2>2, <2>3
<1>3. view' = enforceActiveAccountGate(tokens, v)
  BY DEF onAccountSignedOut
<1> HIDE DEF v
<1>4. /\ view' \in Views /\ view'.current = v.current
      /\ tokens = {} => view'.window = None
      /\ tokens # {} => view' = v
  BY <1>2, <1>3, GateOf
<1>5. CASE tokens # {}
  BY <1>2, <1>4, <1>5
<1>6. CASE tokens = {}
  <2>1. v = view \/ v.current = view.current
    <3>1. \/ v = view \/ v.current = view.current
          \/ \E x \in list.ids : v = View(x, x)
      BY <1>2
    <3>2. others = {}
      BY <1>6
    <3> QED BY <3>2, <1>1 DEF v, clearAccountUiState, Views
  <2> QED BY <1>4, <1>6, <2>1
<1> QED BY <1>5, <1>6

-----------------------------------------------------------------------------
(* Queues.                                                                 *)

LEMMA AppendOf ==
    ASSUME NEW S, NEW s \in Seq(S), NEW e \in S
    PROVE  /\ Append(s, e) \in Seq(S) /\ Append(s, e) # <<>>
           /\ \A i \in DOMAIN s : i \in DOMAIN Append(s, e) /\ Append(s, e)[i] = s[i]
           /\ Len(Append(s, e)) \in DOMAIN Append(s, e) /\ Append(s, e)[Len(Append(s, e))] = e
           /\ \A i \in DOMAIN s : Len(Append(s, e)) > i
           /\ \A i \in DOMAIN Append(s, e) : i \in DOMAIN s \/ i = Len(Append(s, e))
<1>1. DOMAIN s = 1 .. Len(s) /\ Len(s) \in Nat
  BY LenProperties
<1>2. /\ Append(s, e) \in Seq(S) /\ Len(Append(s, e)) = Len(s) + 1
      /\ \A i \in 1 .. Len(s) : Append(s, e)[i] = s[i]
      /\ Append(s, e)[Len(s) + 1] = e
  BY AppendProperties
<1>3. DOMAIN Append(s, e) = 1 .. Len(s) + 1
  BY <1>2, LenProperties
<1>4. Append(s, e) # <<>>
  BY <1>1, <1>2, EmptySeq
<1>5. Len(s) + 1 \in DOMAIN Append(s, e) /\ \A i \in DOMAIN s : Len(s) + 1 > i
  BY <1>1, <1>3
<1> QED BY <1>1, <1>2, <1>3, <1>4, <1>5

LEMMA TailOf ==
    ASSUME NEW S, NEW s \in Seq(S), s # <<>>
    PROVE  /\ Tail(s) \in Seq(S) /\ 1 \in DOMAIN s /\ Head(s) = s[1] /\ Head(s) \in S
           /\ DOMAIN s \subseteq Nat /\ DOMAIN Tail(s) \subseteq Nat
           /\ \A i \in DOMAIN Tail(s) : i + 1 \in DOMAIN s /\ Tail(s)[i] = s[i + 1]
           /\ \A i \in DOMAIN s : i # 1 => i - 1 \in DOMAIN Tail(s) /\ Tail(s)[i - 1] = s[i]
<1>1. DOMAIN s = 1 .. Len(s) /\ Len(s) \in Nat /\ Len(s) # 0
  BY LenProperties, EmptySeq
<1>2. /\ Tail(s) \in Seq(S) /\ Len(Tail(s)) = Len(s) - 1 /\ Head(s) = s[1]
      /\ \A i \in 1 .. Len(Tail(s)) : Tail(s)[i] = s[i + 1]
  BY <1>1, HeadTailProperties
<1>3. DOMAIN Tail(s) = 1 .. Len(s) - 1
  BY <1>2, LenProperties
<1>4. 1 \in DOMAIN s
  BY <1>1
<1>5. s[1] \in S
  BY <1>1, ElementOfSeq
<1>6. \A i \in 1 .. Len(s) : i # 1 => i - 1 \in 1 .. Len(s) - 1 /\ (i - 1) + 1 = i
  BY <1>1
<1>7. \A i \in 1 .. Len(s) - 1 : i + 1 \in 1 .. Len(s) /\ i \in Nat
  BY <1>1
<1>8. \A i \in 1 .. Len(s) : i \in Nat
  BY <1>1
<1> QED BY <1>1, <1>2, <1>3, <1>4, <1>5, <1>6, <1>7, <1>8

-----------------------------------------------------------------------------
(* AccountManager.                                                         *)

\* Questions, and sign-ins that have no account yet.
LEMMA AskingKeeps ==
    ASSUME AccountsInv,
           UNCHANGED <<diskVars, slot, memoryVars, windowVars, eventVars, forgotten, blind, crossed>>,
           signIn' \in SignIns, asked' \subseteq Ids, removing' \subseteq Ids,
           visits' \in Nat, faults' \in Nat, turns' \in Nat
    PROVE  AccountsInv'
<1>1. /\ UNCHANGED <<emailOf, table, mirror, slot, list, contexts, tokens, view, applied>>
      /\ UNCHANGED <<posted, jobs, forgotten, blind, crossed>>
  BY DEF diskVars, memoryVars, windowVars, eventVars
<1>2. TypeInv'
  BY <1>1 DEF AccountsInv, TypeInv
<1>3. ClientsOK'
  BY <1>1 DEF AccountsInv, ClientsOK, RowsOK, Minted
<1>4. KeyedAreKept'
  BY <1>1 DEF AccountsInv, KeyedAreKept, Kept
<1>5. blind' <=> blind
  BY <1>1
<1>6. Agree => Agree'
  BY <1>1 DEF Agree
<1>7. JobsTell => JobsTell'
  BY <1>1 DEF JobsTell
<1>8. GateToCome => GateToCome'
  BY <1>1 DEF GateToCome
<1>9. SignOutToCome => SignOutToCome'
  BY <1>1 DEF SignOutToCome
<1> QED BY <1>2, <1>3, <1>4, <1>5, <1>6, <1>7, <1>8, <1>9 DEF AccountsInv

LEMMA dropOrphansKeeps == AccountsInv /\ dropOrphans => AccountsInv'
<1> SUFFICES ASSUME AccountsInv, dropOrphans PROVE AccountsInv'
  OBVIOUS
<1>1. TypeInv /\ list.ids \subseteq Ids
  BY DEF AccountsInv, TypeInv, Rows
<1>2. /\ asked' \subseteq Ids /\ turns' = turns + 1
      /\ UNCHANGED <<removing, signIn, visits, faults>>
  BY <1>1 DEF dropOrphans, Turn
<1> QED BY <1>1, <1>2, AskingKeeps DEF dropOrphans, TypeInv

LEMMA answerKeeps == AccountsInv /\ answer => AccountsInv'
<1> SUFFICES ASSUME AccountsInv, answer PROVE AccountsInv'
  OBVIOUS
<1>1. TypeInv
  BY DEF AccountsInv
<1>2. asked' \subseteq Ids /\ removing' \subseteq Ids /\ UNCHANGED <<signIn, visits, faults, turns>>
  BY <1>1 DEF answer, TypeInv, boundVars
<1> QED BY <1>1, <1>2, AskingKeeps DEF answer, TypeInv

LEMMA signingKeeps ==
    ASSUME AccountsInv,
           \/ beginAddAccountFlow
           \/ \E from \in SignIns, to \in SignIns : Signing(from, to)
    PROVE  AccountsInv'
<1>1. TypeInv
  BY DEF AccountsInv
<1>2. /\ UNCHANGED <<diskVars, slot, memoryVars, windowVars, eventVars, forgotten, blind, crossed>>
      /\ UNCHANGED askVars
      /\ signIn' \in SignIns /\ visits' \in Nat /\ faults' \in Nat /\ turns' \in Nat
  <2>1. CASE beginAddAccountFlow
    BY <1>1, <2>1 DEF beginAddAccountFlow, Visit, SignIns, TypeInv
  <2>2. CASE \E from \in SignIns, to \in SignIns : Signing(from, to)
    BY <1>1, <2>2 DEF Signing, boundVars, TypeInv
  <2> QED BY <2>1, <2>2
<1> QED BY <1>1, <1>2, AskingKeeps DEF askVars, TypeInv

\* The default moves, or is lost, with the rows as they are.
LEMMA defaultKeeps ==
    ASSUME AccountsInv, NEW a \in Ids, setDefault(a) \/ setDefaultFails(a)
    PROVE  AccountsInv'
<1>1. TypeInv /\ ClientsOK /\ KeyedAreKept
  BY DEF AccountsInv
<1>2. a \in table.ids /\ table \in Rows /\ mirror \in Rows
  BY <1>1 DEF setDefault, setDefaultFails, ClientsOK, TypeInv
<1>3. /\ UNCHANGED <<emailOf, slot, contexts, tokens, signIn, view, applied, posted, jobs>>
      /\ UNCHANGED <<asked, removing, visits, turns, crossed>>
  BY DEF setDefault, setDefaultFails, windowVars, eventVars, askVars
<1>4. \A t \in Rows : RowsOK(t) => RowsOK(t)'
  BY <1>1, <1>3, RowsOutlast
<1>5. ASSUME NEW D \in SUBSET table.ids, \A x, y \in D : x = y,
             NEW t, t = [table EXCEPT !.default = D]
      PROVE  t \in Rows /\ RowsOK(t)' /\ t.ids = table.ids
  <2>1. t \in Rows /\ t.ids = table.ids /\ t.default = D
    BY <1>2, <1>5 DEF Rows
  <2>2. RowsOK(t)
    BY <1>1, <1>5, <2>1 DEF ClientsOK, RowsOK
  <2> QED BY <1>4, <2>1, <2>2
<1>6. PICK m : m = mirror
  OBVIOUS
<1>7. /\ table' \in Rows /\ mirror' \in Rows /\ list' \in {table', NoRows}
      /\ RowsOK(table)' /\ RowsOK(mirror)' /\ table'.ids = table.ids
      /\ forgotten \subseteq forgotten' /\ forgotten' \subseteq Ids
      /\ faults' \in Nat /\ blind' \in BOOLEAN
      /\ ~ blind' => ~ blind /\ list' = table' /\ mirror' = table'
  <2>1. CASE setDefault(a)
    <3>1. PICK t : t = [table EXCEPT !.default = {a} \cap table.ids]
      OBVIOUS
    <3>2. t \in Rows /\ RowsOK(t)' /\ t.ids = table.ids
      BY <1>5, <3>1
    <3>3. reload(t, {}) /\ blind' = (blind \/ faults' # faults)
      BY <2>1, <3>1 DEF setDefault, Noted
    <3>4. RowsOK(m)'
      BY <1>1, <1>2, <1>4, <1>6 DEF ClientsOK
    <3>5. /\ table' \in Rows /\ mirror' \in Rows /\ list' \in {table', NoRows}
          /\ RowsOK(table)' /\ RowsOK(mirror)' /\ table' = t
          /\ forgotten \cup {} \subseteq forgotten' /\ forgotten' \subseteq Ids /\ faults' \in Nat
          /\ faults' = faults => list' = table' /\ mirror' = table'
      BY <1>1, <1>2, <1>6, <3>2, <3>3, <3>4, ReloadRows
    <3> QED BY <1>1, <3>2, <3>3, <3>5 DEF TypeInv
  <2>2. CASE setDefaultFails(a)
    <3>1. PICK t : t = [table EXCEPT !.default = {}]
      OBVIOUS
    <3>2. t \in Rows /\ RowsOK(t)' /\ t.ids = table.ids
      BY <1>5, <3>1
    <3>3. table' = t /\ list' = t /\ mirror' = t /\ blind' = TRUE /\ faults' = faults + 1
      BY <2>2, <3>1 DEF setDefaultFails, Adopted, Fault
    <3>4. UNCHANGED forgotten
      BY <2>2 DEF setDefaultFails
    <3>5. RowsOK(table)' /\ RowsOK(mirror)'
      BY <3>2, <3>3 DEF RowsOK
    <3> QED BY <1>1, <3>2, <3>3, <3>4, <3>5 DEF TypeInv
  <2> QED BY <2>1, <2>2
<1>8. TypeInv'
  <2>1. list' \in Rows
    BY <1>7, NoRowsOK
  <2> QED BY <1>1, <1>3, <1>7, <2>1 DEF TypeInv
<1>9. ClientsOK'
  BY <1>1, <1>3, <1>7 DEF ClientsOK
<1>10. KeyedAreKept'
  <2>1. Kept = table.ids /\ Kept' = table.ids
    BY <1>2, <1>7 DEF Kept
  <2> QED BY <1>1, <1>3, <1>7, <2>1 DEF KeyedAreKept
<1>11. ASSUME ~ blind'
       PROVE  Agree' /\ JobsTell' /\ GateToCome' /\ SignOutToCome'
  <2>1. ~ blind /\ list' = table' /\ mirror' = table'
    BY <1>7, <1>11
  <2>2. Agree /\ JobsTell /\ GateToCome /\ SignOutToCome
    BY <2>1 DEF AccountsInv
  <2>3. Agree'
    BY <1>3, <1>7, <2>1, <2>2 DEF Agree
  <2>4. JobsTell'
    BY <1>3, <1>7, <2>2 DEF JobsTell
  <2>5. GateToCome' /\ SignOutToCome'
    BY <1>3, <2>2 DEF GateToCome, SignOutToCome
  <2> QED BY <2>3, <2>4, <2>5
<1> QED BY <1>8, <1>9, <1>10, <1>11 DEF AccountsInv

-----------------------------------------------------------------------------
(* MainWindow.                                                             *)

LEMMA switchAccountKeeps ==
    ASSUME AccountsInv, NEW a \in Ids, switchAccount(a)
    PROVE  AccountsInv'
<1>1. TypeInv /\ ClientsOK /\ KeyedAreKept /\ a \in tokens /\ a \in table.ids
  BY DEF AccountsInv, ClientsOK, switchAccount
<1>2. /\ UNCHANGED <<emailOf, table, mirror, slot, list, contexts, tokens, signIn, applied>>
      /\ UNCHANGED <<posted, jobs, asked, removing, forgotten, blind, visits, faults, turns, crossed>>
  BY DEF switchAccount, diskVars, memoryVars, eventVars, askVars, boundVars
<1>3. /\ view' \in Views
      /\ view' = view \/ (view' = View(a, a) /\ a \in list.ids)
  <2>1. view \in Views /\ list \in Rows
    BY <1>1 DEF TypeInv, Views
  <2> QED BY <2>1, SetCurrentOf DEF switchAccount
<1>4. TypeInv'
  BY <1>1, <1>2, <1>3 DEF TypeInv, Views
<1>5. ClientsOK'
  BY <1>1, <1>2 DEF ClientsOK, RowsOK, Minted
<1>6. KeyedAreKept'
  BY <1>1, <1>2 DEF KeyedAreKept, Kept
<1>7. ASSUME ~ blind'
      PROVE  Agree' /\ JobsTell' /\ GateToCome' /\ SignOutToCome'
  <2>1. Agree /\ JobsTell /\ GateToCome /\ SignOutToCome
    BY <1>2, <1>7 DEF AccountsInv
  <2>2. a # None /\ View(a, a).current = a /\ View(a, a).window = a
    BY IdsAreNumbers, ViewOf
  <2>3. Agree'
    BY <1>1, <1>2, <1>3, <2>1, <2>2 DEF Agree
  <2>4. JobsTell'
    BY <1>2, <2>1 DEF JobsTell
  <2>5. GateToCome'
    BY <1>1, <1>2 DEF GateToCome
  <2>6. SignOutToCome'
    BY <1>2, <1>3, <2>1, <2>2 DEF SignOutToCome
  <2> QED BY <2>3, <2>4, <2>5, <2>6
<1> QED BY <1>4, <1>5, <1>6, <1>7 DEF AccountsInv

LEMMA onSignOutAccountKeeps ==
    ASSUME AccountsInv, NEW a \in Ids, onSignOutAccount(a)
    PROVE  AccountsInv'
<1>1. TypeInv /\ ClientsOK /\ KeyedAreKept /\ a \in tokens /\ a \in contexts
  BY DEF AccountsInv, ClientsOK, onSignOutAccount
<1>2. /\ UNCHANGED <<emailOf, table, mirror, slot, list, contexts, tokens, signIn, applied>>
      /\ UNCHANGED <<jobs, asked, removing, forgotten, blind, faults, turns, crossed>>
      /\ visits' = visits + 1
  BY DEF onSignOutAccount, diskVars, memoryVars, askVars, Visit
<1> DEFINE p == [op |-> "signOut", id |-> a]
<1>3. p \in Posts /\ p.id = a /\ p.op = "signOut" /\ posted' = Append(posted, p)
  BY DEF onSignOutAccount, Posts
<1> HIDE DEF p
<1>4. /\ posted' \in Seq(Posts) /\ posted' # <<>>
      /\ \A i \in DOMAIN posted : i \in DOMAIN posted' /\ posted'[i] = posted[i]
      /\ Len(posted') \in DOMAIN posted' /\ posted'[Len(posted')] = p
      /\ \A i \in DOMAIN posted' : i \in DOMAIN posted \/ i = Len(posted')
  BY <1>1, <1>3, AppendOf DEF TypeInv
<1>5. /\ view' \in Views
      /\ \/ view' = view
         \/ view'.current = view.current /\ view'.window = None /\ a = view.window
         \/ \E x \in list.ids : view' = View(x, x)
  <2>1. view \in Views /\ list \in Rows
    BY <1>1 DEF TypeInv, Views
  <2>2. /\ clearAccountUiState(view) \in Views /\ clearAccountUiState(view).window = None
        /\ clearAccountUiState(view).current = view.current
    BY <2>1 DEF clearAccountUiState, Views
  <2>3. PICK x, u : x = First(list.ids \ {a}) /\ u = setCurrentAccountId(list, view, x)
    OBVIOUS
  <2>4. u \in Views /\ (u = view \/ (u = View(x, x) /\ x \in list.ids))
    BY <2>1, <2>3, SetCurrentOf
  <2> QED BY <2>1, <2>2, <2>3, <2>4 DEF onSignOutAccount
<1>6. TypeInv'
  BY <1>1, <1>2, <1>4, <1>5 DEF TypeInv, Views
<1>7. ClientsOK'
  <2>1. \A i \in DOMAIN posted' : posted'[i].id \in contexts
    BY <1>1, <1>3, <1>4 DEF ClientsOK
  <2> QED BY <1>1, <1>2, <2>1 DEF ClientsOK, RowsOK, Minted
<1>8. KeyedAreKept'
  BY <1>1, <1>2 DEF KeyedAreKept, Kept
<1>9. ASSUME ~ blind'
      PROVE  Agree' /\ JobsTell' /\ GateToCome' /\ SignOutToCome'
  <2>1. Agree /\ JobsTell /\ GateToCome /\ SignOutToCome
    BY <1>2, <1>9 DEF AccountsInv
  <2>2. \A x \in list.ids : x # None /\ View(x, x).current = x /\ View(x, x).window = x
    BY <1>1, IdsAreNumbers, ViewOf DEF TypeInv, Rows
  <2>3. Agree'
    BY <1>2, <1>5, <2>1, <2>2 DEF Agree
  <2>4. JobsTell'
    BY <1>2, <2>1 DEF JobsTell
  <2>5. GateToCome'
    BY <1>4 DEF GateToCome
  <2>6. SignOutToCome'
    <3>1. SUFFICES ASSUME view'.current \in tokens' \ crossed', view'.window = None
                   PROVE  \E i \in DOMAIN posted' : posted'[i].op = "signOut" /\ posted'[i].id = view'.current
      BY DEF SignOutToCome
    <3>2. CASE view' = view
      BY <1>2, <1>4, <2>1, <3>1, <3>2 DEF SignOutToCome
    <3>3. CASE view'.current = view.current /\ a = view.window
      <4>1. view.current = a
        BY <2>1, <3>3, IdsAreNumbers DEF Agree
      <4> QED BY <1>3, <1>4, <3>3, <4>1
    <3> QED BY <1>5, <2>2, <3>1, <3>2, <3>3
  <2> QED BY <2>3, <2>4, <2>5, <2>6
<1> QED BY <1>6, <1>7, <1>8, <1>9 DEF AccountsInv

-----------------------------------------------------------------------------
(* Queued calls.                                                           *)

\* What a client does with a call: its account is known, the call leaves the queue.
LEMMA HeadPosted ==
    ASSUME AccountsInv, posted # <<>>, posted' = Tail(posted)
    PROVE  /\ Head(posted) \in Posts /\ Head(posted).id \in contexts \cap table.ids \cap Ids
           /\ posted' \in Seq(Posts)
           /\ \A i \in DOMAIN posted' : posted'[i].id \in contexts
           /\ \A i \in DOMAIN posted :
                 \/ posted[i] = Head(posted)
                 \/ \E j \in DOMAIN posted' : posted'[j] = posted[i]
<1>1. posted \in Seq(Posts) /\ ClientsOK /\ contexts \subseteq Ids
  BY DEF AccountsInv, TypeInv
<1>2. /\ posted' \in Seq(Posts) /\ 1 \in DOMAIN posted /\ Head(posted) = posted[1] /\ Head(posted) \in Posts
      /\ \A i \in DOMAIN posted' : i + 1 \in DOMAIN posted /\ posted'[i] = posted[i + 1]
      /\ \A i \in DOMAIN posted : i # 1 => i - 1 \in DOMAIN posted' /\ posted'[i - 1] = posted[i]
  BY <1>1, TailOf
<1> QED BY <1>1, <1>2 DEF ClientsOK

LEMMA adoptTokensKeeps == AccountsInv /\ adoptTokens => AccountsInv'
<1> SUFFICES ASSUME AccountsInv, adoptTokens PROVE AccountsInv'
  OBVIOUS
<1>1. TypeInv /\ ClientsOK /\ KeyedAreKept
  BY DEF AccountsInv
<1>2. PICK a : a = Head(posted).id
  OBVIOUS
<1>3. /\ posted # <<>> /\ Head(posted).op = "adopt" /\ posted' = Tail(posted)
      /\ tokens' = tokens \cup {a} /\ onTokensLoaded(a, tokens')
      /\ jobs' = Append(Append(jobs, Job("save", a)), Job("save", a))
  BY <1>2 DEF adoptTokens, setAccountEmail
<1>4. /\ UNCHANGED <<emailOf, table, mirror, slot, list, contexts, signIn, asked, removing, forgotten>>
      /\ UNCHANGED <<blind, visits, faults, turns, crossed>>
  BY DEF adoptTokens, diskVars, askVars, boundVars
<1>5. /\ a \in contexts /\ a \in table.ids /\ a \in Ids
      /\ posted' \in Seq(Posts)
      /\ \A i \in DOMAIN posted' : posted'[i].id \in contexts
      /\ \A i \in DOMAIN posted :
            \/ posted[i] = Head(posted)
            \/ \E j \in DOMAIN posted' : posted'[j] = posted[i]
  BY <1>2, <1>3, HeadPosted
<1>6. /\ jobs' \in Seq(Jobs)
      /\ \A i \in DOMAIN jobs : i \in DOMAIN jobs' /\ jobs'[i] = jobs[i]
      /\ \A i \in DOMAIN jobs' : i \in DOMAIN jobs \/ jobs'[i].id = a
  <2>1. PICK e, J : e = Job("save", a) /\ J = Append(jobs, e)
    OBVIOUS
  <2>2. e \in Jobs /\ e.id = a
    BY <1>5, <2>1 DEF Job, Jobs
  <2>3. /\ J \in Seq(Jobs)
        /\ \A i \in DOMAIN jobs : i \in DOMAIN J /\ J[i] = jobs[i]
        /\ \A i \in DOMAIN J : i \in DOMAIN jobs \/ J[i].id = a
    BY <1>1, <2>1, <2>2, AppendOf DEF TypeInv
  <2>4. /\ jobs' \in Seq(Jobs)
        /\ \A i \in DOMAIN J : i \in DOMAIN jobs' /\ jobs'[i] = J[i]
        /\ \A i \in DOMAIN jobs' : i \in DOMAIN J \/ jobs'[i].id = a
    BY <1>3, <2>1, <2>2, <2>3, AppendOf
  <2> QED BY <2>3, <2>4
<1>7. /\ view' \in Views /\ applied' \in BOOLEAN
      /\ view' = view \/ \E x \in list.ids \cup {a} : view' = View(x, x)
      /\ view.current = a => view'.window # None
  <2>1. /\ view' \in Views /\ applied' \in BOOLEAN
        /\ \/ view' = view
           \/ view'.current = view.current /\ view'.window = None /\ tokens' = {}
           \/ \E x \in list.ids \cup (tokens' \cap {a}) : view' = View(x, x)
        /\ a \in tokens' /\ view.current = a => view'.window # None
    BY <1>1, <1>3, <1>5, TokensLoadedOf
  <2> QED BY <1>3, <2>1
<1>8. TypeInv'
  BY <1>1, <1>3, <1>4, <1>5, <1>6, <1>7 DEF TypeInv, Views
<1>9. ClientsOK'
  <2>1. \A i \in DOMAIN jobs' : jobs'[i].live => jobs'[i].id \in contexts
    BY <1>1, <1>5, <1>6 DEF ClientsOK
  <2> QED BY <1>1, <1>3, <1>4, <1>5, <2>1 DEF ClientsOK, RowsOK, Minted
<1>10. KeyedAreKept'
  <2>1. Kept' = Kept /\ a \in Kept
    BY <1>4, <1>5 DEF Kept
  <2> QED BY <1>1, <1>4, <1>6, <2>1 DEF KeyedAreKept
<1>11. ASSUME ~ blind'
       PROVE  Agree' /\ JobsTell' /\ GateToCome' /\ SignOutToCome'
  <2>1. Agree /\ JobsTell /\ GateToCome /\ SignOutToCome
    BY <1>4, <1>11 DEF AccountsInv
  <2>2. \A x \in list.ids \cup {a} :
           x # None /\ x \in table.ids /\ View(x, x).current = x /\ View(x, x).window = x
    BY <1>1, <1>5, <2>1, IdsAreNumbers, ViewOf DEF TypeInv, Rows, Agree
  <2>3. Agree'
    BY <1>4, <1>7, <2>1, <2>2 DEF Agree
  <2>4. JobsTell'
    <3>1. SUFFICES ASSUME NEW b \in table.ids \ tokens, b # a
                   PROVE  /\ b \in slot => \E i \in DOMAIN jobs' : jobs'[i].id = b
                          /\ \A i \in DOMAIN jobs' :
                                jobs'[i].id = b /\ (jobs'[i].op = "save" \/ ~ jobs'[i].live) =>
                                    \E j \in DOMAIN jobs' : j > i /\ jobs'[j].id = b
      BY <1>3, <1>4 DEF JobsTell
    <3>2. b \in slot => \E i \in DOMAIN jobs' : jobs'[i].id = b
      BY <1>6, <2>1, <3>1 DEF JobsTell
    <3>3. ASSUME NEW i \in DOMAIN jobs', jobs'[i].id = b, jobs'[i].op = "save" \/ ~ jobs'[i].live
          PROVE  \E j \in DOMAIN jobs' : j > i /\ jobs'[j].id = b
      <4>1. i \in DOMAIN jobs /\ jobs[i] = jobs'[i]
        BY <1>6, <3>1, <3>3
      <4>2. PICK j \in DOMAIN jobs : j > i /\ jobs[j].id = b
        BY <2>1, <3>1, <3>3, <4>1 DEF JobsTell
      <4> QED BY <1>6, <4>2
    <3> QED BY <3>2, <3>3
  <2>5. GateToCome'
    BY <1>3 DEF GateToCome
  <2>6. SignOutToCome'
    <3>1. SUFFICES ASSUME view'.current \in tokens' \ crossed', view'.window = None
                   PROVE  \E i \in DOMAIN posted' : posted'[i].op = "signOut" /\ posted'[i].id = view'.current
      BY DEF SignOutToCome
    <3>2. view' = view /\ view.current # a
      BY <1>7, <2>2, <3>1
    <3>3. PICK i \in DOMAIN posted : posted[i].op = "signOut" /\ posted[i].id = view.current
      BY <1>3, <1>4, <2>1, <3>1, <3>2 DEF SignOutToCome
    <3> QED BY <1>3, <1>5, <3>2, <3>3
  <2> QED BY <2>3, <2>4, <2>5, <2>6
<1> QED BY <1>8, <1>9, <1>10, <1>11 DEF AccountsInv

LEMMA signOutKeeps == AccountsInv /\ signOut => AccountsInv'
<1> SUFFICES ASSUME AccountsInv, signOut PROVE AccountsInv'
  OBVIOUS
<1>1. TypeInv /\ ClientsOK /\ KeyedAreKept
  BY DEF AccountsInv
<1>2. PICK a : a = Head(posted).id
  OBVIOUS
<1> DEFINE e == Job("erase", a)
<1>3. /\ posted # <<>> /\ posted' = Tail(posted)
      /\ tokens' = tokens \ {a} /\ jobs' = Append(jobs, e)
  BY <1>2 DEF signOut
<1>4. /\ UNCHANGED <<emailOf, table, mirror, slot, list, contexts, signIn, asked, removing, forgotten>>
      /\ UNCHANGED <<view, applied, blind, visits, faults, turns, crossed>>
  BY DEF signOut, diskVars, windowVars, askVars, boundVars
<1>5. /\ a \in contexts /\ a \in table.ids /\ a \in Ids
      /\ posted' \in Seq(Posts)
      /\ \A i \in DOMAIN posted' : posted'[i].id \in contexts
      /\ \A i \in DOMAIN posted :
            \/ posted[i] = Head(posted)
            \/ \E j \in DOMAIN posted' : posted'[j] = posted[i]
  BY <1>2, <1>3, HeadPosted
<1>6. e \in Jobs /\ e.id = a /\ e.op = "erase" /\ e.live
  BY <1>5 DEF Job, Jobs
<1> HIDE DEF e
<1>7. /\ jobs' \in Seq(Jobs)
      /\ \A i \in DOMAIN jobs : i \in DOMAIN jobs' /\ jobs'[i] = jobs[i]
      /\ Len(jobs') \in DOMAIN jobs' /\ jobs'[Len(jobs')] = e
      /\ \A i \in DOMAIN jobs : Len(jobs') > i
      /\ \A i \in DOMAIN jobs' : i \in DOMAIN jobs \/ i = Len(jobs')
  BY <1>1, <1>3, <1>6, AppendOf DEF TypeInv
<1>8. PICK n \in DOMAIN jobs' :
            /\ jobs'[n] = e
            /\ \A i \in DOMAIN jobs : n > i
            /\ \A i \in DOMAIN jobs' : i \in DOMAIN jobs \/ i = n
  BY <1>7
<1>9. \A i \in DOMAIN jobs : n > i
  BY <1>8
<1>10. TypeInv'
  BY <1>1, <1>3, <1>4, <1>5, <1>7 DEF TypeInv
<1>11. ClientsOK'
  <2>1. \A i \in DOMAIN jobs' : jobs'[i].live => jobs'[i].id \in contexts
    BY <1>1, <1>5, <1>6, <1>7, <1>8 DEF ClientsOK
  <2> QED BY <1>1, <1>3, <1>4, <1>5, <2>1 DEF ClientsOK, RowsOK, Minted
<1>12. KeyedAreKept'
  <2>1. Kept' = Kept
    BY <1>4 DEF Kept
  <2> QED BY <1>1, <1>4, <1>6, <1>7, <1>8, <2>1 DEF KeyedAreKept
<1>13. ASSUME ~ blind'
       PROVE  Agree' /\ JobsTell' /\ GateToCome' /\ SignOutToCome'
  <2>1. Agree /\ JobsTell /\ GateToCome /\ SignOutToCome
    BY <1>4, <1>13 DEF AccountsInv
  <2>2. Agree'
    BY <1>4, <2>1 DEF Agree
  <2>3. JobsTell'
    <3>1. SUFFICES ASSUME NEW b \in table.ids, b \notin tokens \/ b = a
                   PROVE  /\ b \in slot => \E i \in DOMAIN jobs' : jobs'[i].id = b
                          /\ \A i \in DOMAIN jobs' :
                                jobs'[i].id = b /\ (jobs'[i].op = "save" \/ ~ jobs'[i].live) =>
                                    \E j \in DOMAIN jobs' : j > i /\ jobs'[j].id = b
      BY <1>3, <1>4 DEF JobsTell
    <3>2. CASE b = a
      BY <1>6, <1>8, <1>9, <3>2
    <3>3. CASE b # a
      <4>1. b \in slot => \E i \in DOMAIN jobs' : jobs'[i].id = b
        BY <1>7, <2>1, <3>1, <3>3 DEF JobsTell
      <4>2. ASSUME NEW i \in DOMAIN jobs', jobs'[i].id = b, jobs'[i].op = "save" \/ ~ jobs'[i].live
            PROVE  \E j \in DOMAIN jobs' : j > i /\ jobs'[j].id = b
        <5>1. i \in DOMAIN jobs /\ jobs[i] = jobs'[i]
          BY <1>6, <1>7, <1>8, <3>3, <4>2
        <5>2. PICK j \in DOMAIN jobs : j > i /\ jobs[j].id = b
          BY <2>1, <3>1, <3>3, <4>2, <5>1 DEF JobsTell
        <5> QED BY <1>7, <5>2
      <4> QED BY <4>1, <4>2
    <3> QED BY <3>2, <3>3
  <2>4. GateToCome'
    BY <1>6, <1>8 DEF GateToCome
  <2>5. SignOutToCome'
    <3>1. SUFFICES ASSUME view.current \in tokens \ crossed, view.current # a, view.window = None
                   PROVE  \E i \in DOMAIN posted' : posted'[i].op = "signOut" /\ posted'[i].id = view.current
      BY <1>3, <1>4 DEF SignOutToCome
    <3>2. PICK i \in DOMAIN posted : posted[i].op = "signOut" /\ posted[i].id = view.current
      BY <2>1, <3>1 DEF SignOutToCome
    <3> QED BY <1>2, <1>5, <3>1, <3>2
  <2> QED BY <2>2, <2>3, <2>4, <2>5
<1> QED BY <1>10, <1>11, <1>12, <1>13 DEF AccountsInv

-----------------------------------------------------------------------------
(* The keychain.                                                           *)

\* A job that is done leaves the others.
LEMMA HeadJob ==
    ASSUME TypeInv, jobs # <<>>, jobs' = Tail(jobs)
    PROVE  /\ Head(jobs) \in Jobs /\ 1 \in DOMAIN jobs /\ Head(jobs) = jobs[1] /\ Head(jobs).id \in Ids
           /\ jobs' \in Seq(Jobs) /\ DOMAIN jobs \subseteq Nat /\ DOMAIN jobs' \subseteq Nat
           /\ \A i \in DOMAIN jobs' : i + 1 \in DOMAIN jobs /\ jobs'[i] = jobs[i + 1]
           /\ \A i \in DOMAIN jobs : i # 1 => i - 1 \in DOMAIN jobs' /\ jobs'[i - 1] = jobs[i]
<1>1. jobs \in Seq(Jobs) /\ \A j \in Jobs : j.id \in Ids
  BY DEF TypeInv, Jobs
<1> QED BY <1>1, TailOf

\* What is left tells of the tokens that are left: those of the account that the job
\* was about, a, have come into the memory, are erased, or are told of by a later job.
LEMMA DoneTells ==
    ASSUME AccountsInv, ~ blind, jobs # <<>>, jobs' = Tail(jobs),
           UNCHANGED table, tokens \subseteq tokens', NEW a, a = Head(jobs).id,
           \A b \in table.ids \ tokens' : b \in slot' /\ b # a => b \in slot,
           a \in slot' /\ a \notin tokens' => Head(jobs).op = "save" \/ ~ Head(jobs).live
    PROVE  JobsTell'
<1>1. JobsTell /\ TypeInv
  BY DEF AccountsInv
<1>2. SUFFICES ASSUME NEW b \in table.ids, b \notin tokens'
               PROVE  /\ b \in slot' => \E i \in DOMAIN jobs' : jobs'[i].id = b
                      /\ \A i \in DOMAIN jobs' :
                            jobs'[i].id = b /\ (jobs'[i].op = "save" \/ ~ jobs'[i].live) =>
                                \E j \in DOMAIN jobs' : j > i /\ jobs'[j].id = b
  BY DEF JobsTell
<1>3. /\ b \in slot => \E i \in DOMAIN jobs : jobs[i].id = b
      /\ \A i \in DOMAIN jobs :
            jobs[i].id = b /\ (jobs[i].op = "save" \/ ~ jobs[i].live) =>
                \E j \in DOMAIN jobs : j > i /\ jobs[j].id = b
  BY <1>1, <1>2 DEF JobsTell
<1>4. /\ 1 \in DOMAIN jobs /\ Head(jobs) = jobs[1] /\ DOMAIN jobs \subseteq Nat /\ DOMAIN jobs' \subseteq Nat
      /\ \A i \in DOMAIN jobs' : i + 1 \in DOMAIN jobs /\ jobs'[i] = jobs[i + 1]
      /\ \A i \in DOMAIN jobs : i # 1 => i - 1 \in DOMAIN jobs' /\ jobs'[i - 1] = jobs[i]
  BY <1>1, HeadJob
<1>5. ASSUME b \in slot'
      PROVE  \E i \in DOMAIN jobs' : jobs'[i].id = b
  <2>1. PICK i \in DOMAIN jobs : i # 1 /\ jobs[i].id = b
    <3>1. CASE b = a
      <4>1. PICK j \in DOMAIN jobs : j > 1 /\ jobs[j].id = b
        BY <1>2, <1>3, <1>4, <1>5, <3>1
      <4> QED BY <4>1
    <3>2. CASE b # a
      <4>1. PICK i \in DOMAIN jobs : jobs[i].id = b
        BY <1>2, <1>3, <1>5, <3>2
      <4> QED BY <1>4, <3>2, <4>1
    <3> QED BY <3>1, <3>2
  <2> QED BY <1>4, <2>1
<1>6. ASSUME NEW i \in DOMAIN jobs', jobs'[i].id = b, jobs'[i].op = "save" \/ ~ jobs'[i].live
      PROVE  \E j \in DOMAIN jobs' : j > i /\ jobs'[j].id = b
  <2>1. i \in Nat /\ i + 1 \in DOMAIN jobs /\ jobs[i + 1] = jobs'[i]
    BY <1>4
  <2>2. PICK j \in DOMAIN jobs : j > i + 1 /\ jobs[j].id = b
    BY <1>3, <1>6, <2>1
  <2>3. j \in Nat /\ j # 1 /\ j - 1 > i
    BY <1>4, <2>1, <2>2
  <2> QED BY <1>4, <2>2, <2>3
<1> QED BY <1>5, <1>6

\* What a keychain job that is done leaves alone, and so keeps.
LEMMA DoneKeeps ==
    ASSUME AccountsInv, jobs # <<>>, jobs' = Tail(jobs),
           UNCHANGED <<emailOf, table, mirror, list, contexts, signIn, posted, asked, removing>>,
           UNCHANGED <<forgotten, visits, turns>>,
           tokens' \subseteq tokens \cup ({Head(jobs).id} \cap contexts),
           slot' \subseteq slot \cup {Head(jobs).id}, Head(jobs).id \in slot' \ slot => Head(jobs).op = "save",
           crossed' \subseteq Ids, view' \in Views, applied' \in BOOLEAN, blind' \in BOOLEAN, faults' \in Nat
    PROVE  TypeInv' /\ ClientsOK' /\ KeyedAreKept'
<1>1. TypeInv /\ ClientsOK /\ KeyedAreKept
  BY DEF AccountsInv
<1>2. PICK h : h = Head(jobs)
  OBVIOUS
<1>3. /\ 1 \in DOMAIN jobs /\ h = jobs[1] /\ h.id \in Ids /\ jobs' \in Seq(Jobs)
      /\ \A i \in DOMAIN jobs' : i + 1 \in DOMAIN jobs /\ jobs'[i] = jobs[i + 1]
  BY <1>1, <1>2, HeadJob
<1>4. TypeInv'
  BY <1>1, <1>2, <1>3 DEF TypeInv, Views
<1>5. ClientsOK'
  <2>1. \A i \in DOMAIN jobs' : jobs'[i].live => jobs'[i].id \in contexts
    BY <1>1, <1>3 DEF ClientsOK
  <2>2. RowsOK(table)' /\ RowsOK(mirror)' /\ list' \in {table', NoRows}
    BY <1>1 DEF ClientsOK, RowsOK, Minted
  <2>3. contexts' \subseteq table'.ids /\ tokens' \subseteq contexts'
    BY <1>1 DEF ClientsOK
  <2>4. \A i \in DOMAIN posted' : posted'[i].id \in contexts'
    BY <1>1 DEF ClientsOK
  <2> QED BY <2>1, <2>2, <2>3, <2>4 DEF ClientsOK
<1>6. KeyedAreKept'
  <2>1. Kept' = Kept
    BY DEF Kept
  <2>2. slot' \subseteq Kept \cup forgotten
    BY <1>1, <1>2, <1>3 DEF KeyedAreKept
  <2>3. \A i \in DOMAIN jobs' : jobs'[i].op = "save" => jobs'[i].id \in Kept \cup forgotten
    BY <1>1, <1>3 DEF KeyedAreKept
  <2> QED BY <2>1, <2>2, <2>3 DEF KeyedAreKept
<1> QED BY <1>4, <1>5, <1>6

LEMMA loadedKeeps == AccountsInv /\ loaded => AccountsInv'
<1> SUFFICES ASSUME AccountsInv, loaded PROVE AccountsInv'
  OBVIOUS
<1>1. TypeInv /\ ClientsOK
  BY DEF AccountsInv
<1>2. PICK a : a = Head(jobs).id
  OBVIOUS
<1>3. /\ jobs # <<>> /\ Head(jobs).op = "load" /\ jobs' = Tail(jobs) /\ Head(jobs).live
      /\ onTokensLoaded(a, tokens')
      /\ UNCHANGED <<emailOf, table, mirror, slot, list, contexts, signIn, posted, asked, removing>>
      /\ UNCHANGED <<forgotten, visits, turns, crossed>>
  BY <1>2 DEF loaded, NextJob, diskVars, askVars
<1>4. a \in Ids /\ a \in contexts
  BY <1>1, <1>2, <1>3, HeadJob DEF ClientsOK
<1>5. /\ tokens' \subseteq tokens \cup {a} /\ tokens \subseteq tokens'
      /\ faults' \in Nat /\ blind' \in BOOLEAN
      /\ ~ blind' => ~ blind /\ (a \in slot => a \in tokens')
  <2>1. \/ tokens' = (IF a \in slot THEN tokens \cup {a} ELSE tokens) /\ UNCHANGED <<blind, faults>>
        \/ UNCHANGED tokens /\ blind' = TRUE /\ faults' = faults + 1
    BY <1>2 DEF loaded, Fault
  <2>2. blind \in BOOLEAN /\ faults \in Nat
    BY <1>1 DEF TypeInv
  <2>3. CASE tokens' = (IF a \in slot THEN tokens \cup {a} ELSE tokens) /\ UNCHANGED <<blind, faults>>
    BY <2>2, <2>3
  <2>4. CASE UNCHANGED tokens /\ blind' = TRUE /\ faults' = faults + 1
    BY <2>2, <2>4
  <2> QED BY <2>1, <2>3, <2>4
<1>6. /\ view' \in Views /\ applied' \in BOOLEAN
      /\ \/ view' = view
         \/ view'.current = view.current /\ view'.window = None /\ tokens' = {}
         \/ \E x \in list.ids \cup {a} : view' = View(x, x)
      /\ tokens' = {} => view'.window = None
      /\ a \in tokens' /\ view.current = a => view'.window # None
  BY <1>1, <1>3, <1>4, TokensLoadedOf
<1>7. TypeInv' /\ ClientsOK' /\ KeyedAreKept'
  BY <1>1, <1>2, <1>3, <1>4, <1>5, <1>6, DoneKeeps DEF TypeInv
<1>8. ASSUME ~ blind'
      PROVE  Agree' /\ JobsTell' /\ GateToCome' /\ SignOutToCome'
  <2>1. Agree /\ JobsTell /\ GateToCome /\ SignOutToCome /\ ~ blind /\ (a \in slot => a \in tokens')
    BY <1>5, <1>8 DEF AccountsInv
  <2>2. \A x \in list.ids \cup {a} :
           x # None /\ x \in table.ids /\ View(x, x).current = x /\ View(x, x).window = x
    BY <1>1, <1>4, <2>1, IdsAreNumbers, ViewOf DEF TypeInv, Rows, Agree
  <2>3. Agree'
    BY <1>3, <1>6, <2>1, <2>2 DEF Agree
  <2>4. JobsTell'
    BY <1>2, <1>3, <1>5, <2>1, DoneTells
  <2>5. GateToCome'
    BY <1>6 DEF GateToCome
  <2>6. SignOutToCome'
    <3>1. SUFFICES ASSUME view'.current \in tokens' \ crossed', view'.window = None
                   PROVE  \E i \in DOMAIN posted' : posted'[i].op = "signOut" /\ posted'[i].id = view'.current
      BY DEF SignOutToCome
    <3>2. view' = view
      BY <1>6, <2>2, <3>1
    <3>3. view.current \in tokens
      BY <1>5, <1>6, <3>1, <3>2
    <3> QED BY <1>3, <2>1, <3>1, <3>2, <3>3 DEF SignOutToCome
  <2> QED BY <2>3, <2>4, <2>5, <2>6
<1> QED BY <1>7, <1>8 DEF AccountsInv

\* A save that is done, and a load that calls back into a client that is gone.
LEMMA silentJobKeeps == AccountsInv /\ (saved \/ loadedGone) => AccountsInv'
<1> SUFFICES ASSUME AccountsInv, saved \/ loadedGone PROVE AccountsInv'
  OBVIOUS
<1>1. TypeInv /\ ClientsOK
  BY DEF AccountsInv
<1>2. PICK a : a = Head(jobs).id
  OBVIOUS
<1>3. /\ jobs # <<>> /\ jobs' = Tail(jobs)
      /\ Head(jobs).op = "save" \/ (~ Head(jobs).live /\ slot' = slot)
      /\ UNCHANGED <<emailOf, table, mirror, list, contexts, tokens, signIn, posted, asked, removing>>
      /\ UNCHANGED <<view, applied, forgotten, visits, turns, crossed>>
  BY DEF saved, loadedGone, NextJob, diskVars, memoryVars, windowVars, askVars, boundVars
<1>4. /\ slot' \subseteq slot \cup {a} /\ faults' \in Nat /\ blind' \in BOOLEAN
      /\ ~ blind' => ~ blind
  <2>1. \/ slot' \subseteq slot \cup {a} /\ UNCHANGED <<blind, faults>>
        \/ slot' = slot /\ blind' = TRUE /\ faults' = faults + 1
    BY <1>2 DEF saved, loadedGone, Fault, boundVars
  <2>2. blind \in BOOLEAN /\ faults \in Nat
    BY <1>1 DEF TypeInv
  <2>3. CASE slot' \subseteq slot \cup {a} /\ UNCHANGED <<blind, faults>>
    BY <2>2, <2>3
  <2>4. CASE slot' = slot /\ blind' = TRUE /\ faults' = faults + 1
    BY <2>2, <2>4
  <2> QED BY <2>1, <2>3, <2>4
<1>5. TypeInv' /\ ClientsOK' /\ KeyedAreKept'
  BY <1>1, <1>2, <1>3, <1>4, DoneKeeps DEF TypeInv, Views
<1>6. ASSUME ~ blind'
      PROVE  Agree' /\ JobsTell' /\ GateToCome' /\ SignOutToCome'
  <2>1. Agree /\ JobsTell /\ GateToCome /\ SignOutToCome /\ ~ blind
    BY <1>4, <1>6 DEF AccountsInv
  <2>2. Agree' /\ SignOutToCome'
    BY <1>3, <2>1 DEF Agree, SignOutToCome
  <2>3. JobsTell'
    BY <1>2, <1>3, <1>4, <2>1, DoneTells
  <2>4. GateToCome'
    <3>1. SUFFICES ASSUME NEW i \in DOMAIN jobs, jobs[i].live, jobs[i].op \in {"load", "erase"}
                   PROVE  \E j \in DOMAIN jobs' : jobs'[j].live /\ jobs'[j].op \in {"load", "erase"}
      BY <1>3, <2>1 DEF GateToCome
    <3>2. i # 1
      BY <1>1, <1>3, <3>1, HeadJob
    <3>3. i - 1 \in DOMAIN jobs' /\ jobs'[i - 1] = jobs[i]
      BY <1>1, <1>3, <3>2, HeadJob
    <3> QED BY <3>1, <3>3
  <2> QED BY <2>2, <2>3, <2>4
<1> QED BY <1>5, <1>6 DEF AccountsInv

LEMMA erasedKeeps == AccountsInv /\ erased => AccountsInv'
<1> SUFFICES ASSUME AccountsInv, erased PROVE AccountsInv'
  OBVIOUS
<1>1. TypeInv /\ ClientsOK /\ view \in Views /\ applied \in BOOLEAN
  BY DEF AccountsInv, TypeInv, Views
<1>2. PICK a : a = Head(jobs).id
  OBVIOUS
<1>3. /\ jobs # <<>> /\ jobs' = Tail(jobs) /\ Head(jobs).op = "erase"
      /\ UNCHANGED <<emailOf, table, mirror, list, contexts, tokens, signIn, posted, asked, removing>>
      /\ UNCHANGED <<applied, forgotten, visits, turns>>
  BY DEF erased, NextJob, diskVars, memoryVars, askVars
<1>4. /\ slot' \subseteq slot /\ faults' \in Nat /\ blind' \in BOOLEAN
      /\ ~ blind' => ~ blind /\ a \notin slot'
  <2>1. \/ slot' = slot \ {a} /\ UNCHANGED <<blind, faults>>
        \/ slot' = slot /\ blind' = TRUE /\ faults' = faults + 1
    BY <1>2 DEF erased, Fault
  <2>2. blind \in BOOLEAN /\ faults \in Nat
    BY <1>1 DEF TypeInv
  <2>3. CASE slot' = slot \ {a} /\ UNCHANGED <<blind, faults>>
    BY <2>2, <2>3
  <2>4. CASE slot' = slot /\ blind' = TRUE /\ faults' = faults + 1
    BY <2>2, <2>4
  <2> QED BY <2>1, <2>3, <2>4
<1>5. a \in Ids
  BY <1>1, <1>2, <1>3, HeadJob
<1>6. \/ Head(jobs).live /\ onAccountSignedOut(a) /\ crossed' = crossed \cup ({a} \cap tokens)
      \/ ~ Head(jobs).live /\ UNCHANGED <<view, crossed>>
  BY <1>2 DEF erased
<1>7. Head(jobs).live =>
      /\ view' \in Views
      /\ \/ view' = view
         \/ view'.current = view.current /\ view'.window = None /\ (a = view.window \/ tokens = {})
         \/ \E x \in list.ids : view' = View(x, x)
      /\ tokens = {} => view'.window = None
  BY <1>1, <1>5, <1>6, SignedOutOf
<1>8. view' \in Views /\ crossed' \subseteq Ids
  BY <1>1, <1>5, <1>6, <1>7 DEF TypeInv
<1>9. TypeInv' /\ ClientsOK' /\ KeyedAreKept'
  BY <1>1, <1>2, <1>3, <1>4, <1>8, DoneKeeps
<1>10. ASSUME ~ blind'
       PROVE  Agree' /\ JobsTell' /\ GateToCome' /\ SignOutToCome'
  <2>1. Agree /\ JobsTell /\ GateToCome /\ SignOutToCome /\ ~ blind /\ a \notin slot'
    BY <1>4, <1>10 DEF AccountsInv
  <2>2. \A x \in list.ids : x # None /\ x \in table.ids /\ View(x, x).current = x /\ View(x, x).window = x
    BY <1>1, <2>1, IdsAreNumbers, ViewOf DEF TypeInv, Rows, Agree
  <2>3. \/ view' = view
        \/ view'.current = view.current /\ view'.window = None
        \/ \E x \in list.ids : view' = View(x, x)
    BY <1>6, <1>7
  <2>4. Agree'
    BY <1>3, <2>1, <2>2, <2>3 DEF Agree
  <2>5. JobsTell'
    BY <1>2, <1>3, <1>4, <2>1, DoneTells
  <2>6. GateToCome'
    <3>1. CASE Head(jobs).live
      BY <1>3, <1>7, <3>1 DEF GateToCome
    <3>2. CASE ~ Head(jobs).live
      <4>1. SUFFICES ASSUME NEW i \in DOMAIN jobs, jobs[i].live, jobs[i].op \in {"load", "erase"}
                     PROVE  \E j \in DOMAIN jobs' : jobs'[j].live /\ jobs'[j].op \in {"load", "erase"}
        BY <1>3, <1>6, <2>1, <3>2 DEF GateToCome
      <4>2. i # 1
        BY <1>1, <1>3, <3>2, <4>1, HeadJob
      <4>3. i - 1 \in DOMAIN jobs' /\ jobs'[i - 1] = jobs[i]
        BY <1>1, <1>3, <4>2, HeadJob
      <4> QED BY <4>1, <4>3
    <3> QED BY <3>1, <3>2
  <2>7. SignOutToCome'
    <3>1. SUFFICES ASSUME view'.current \in tokens \ crossed', view'.window = None
                   PROVE  \E i \in DOMAIN posted : posted[i].op = "signOut" /\ posted[i].id = view'.current
      BY <1>3 DEF SignOutToCome
    <3>2. crossed \subseteq crossed'
      BY <1>6
    <3>3. view' = view
      <4>1. SUFFICES ASSUME Head(jobs).live, view'.current = view.current, a = view.window \/ tokens = {}
                     PROVE  FALSE
        BY <1>6, <1>7, <2>2, <3>1
      <4>2. a = view.window /\ a # None
        BY <1>5, <3>1, <4>1, IdsAreNumbers
      <4>3. view.current = a
        BY <2>1, <4>2 DEF Agree
      <4> QED BY <1>6, <3>1, <4>1, <4>3
    <3> QED BY <2>1, <3>1, <3>2, <3>3 DEF SignOutToCome
  <2> QED BY <2>4, <2>5, <2>6, <2>7
<1> QED BY <1>9, <1>10 DEF AccountsInv

-----------------------------------------------------------------------------
(* Rows that come and go.                                                  *)

LEMMA ConcatOf ==
    ASSUME NEW S, NEW s \in Seq(S), NEW u \in Seq(S), NEW c, c = s \o u
    PROVE  /\ c \in Seq(S)
           /\ \A i \in DOMAIN s : i \in DOMAIN c /\ c[i] = s[i]
           /\ \A k \in DOMAIN u : Len(s) + k \in DOMAIN c /\ c[Len(s) + k] = u[k]
           /\ \A i \in DOMAIN s, k \in DOMAIN u : Len(s) + k > i
           /\ \A i \in DOMAIN c :
                 \/ i \in DOMAIN s /\ c[i] = s[i]
                 \/ i - Len(s) \in DOMAIN u /\ c[i] = u[i - Len(s)]
<1> DEFINE n == Len(s)
           m == Len(u)
<1>1. DOMAIN s = 1 .. n /\ n \in Nat /\ DOMAIN u = 1 .. m /\ m \in Nat
  BY LenProperties
<1>2. /\ c \in Seq(S) /\ Len(c) = n + m
      /\ \A i \in 1 .. n + m : c[i] = IF i <= n THEN s[i] ELSE u[i - n]
  BY ConcatProperties
<1>3. DOMAIN c = 1 .. n + m
  BY <1>2, LenProperties
<1> HIDE DEF n, m
<1>5. \A i \in DOMAIN s : i \in DOMAIN c /\ c[i] = s[i]
  BY <1>1, <1>2, <1>3
<1>6. \A k \in DOMAIN u : n + k \in DOMAIN c /\ c[n + k] = u[k]
  <2>1. \A k \in 1 .. m : n + k \in 1 .. n + m /\ ~ (n + k <= n) /\ (n + k) - n = k
    BY <1>1
  <2> QED BY <1>1, <1>2, <1>3, <2>1
<1>7. \A i \in DOMAIN s, k \in DOMAIN u : n + k > i
  BY <1>1
<1>8. \A i \in DOMAIN c : (i \in DOMAIN s /\ c[i] = s[i]) \/ (i - n \in DOMAIN u /\ c[i] = u[i - n])
  <2>1. \A i \in 1 .. n + m : i <= n => i \in 1 .. n
    BY <1>1
  <2>2. \A i \in 1 .. n + m : ~ (i <= n) => i - n \in 1 .. m
    BY <1>1
  <2> QED BY <1>1, <1>2, <1>3, <2>1, <2>2
<1> QED BY <1>2, <1>5, <1>6, <1>7, <1>8 DEF n

\* The jobs of a client that goes stay and are dead, and new clients load.
LEMMA RemovedJobs ==
    ASSUME TypeInv, NEW a, NEW S \in SUBSET Ids,
           jobs' = [i \in DOMAIN jobs |->
                      IF jobs[i].id = a THEN [jobs[i] EXCEPT !.live = FALSE] ELSE jobs[i]]
                   \o Loads(S)
    PROVE  /\ jobs' \in Seq(Jobs)
           /\ \A i \in DOMAIN jobs :
                 i \in DOMAIN jobs' /\ jobs'[i].id = jobs[i].id /\ jobs'[i].op = jobs[i].op
           /\ \A b \in S : \E n \in DOMAIN jobs' : jobs'[n].id = b /\ \A i \in DOMAIN jobs : n > i
           /\ \A i \in DOMAIN jobs' :
                 \/ /\ i \in DOMAIN jobs /\ jobs'[i].id = jobs[i].id /\ jobs'[i].op = jobs[i].op
                    /\ jobs[i].id # a => jobs'[i] = jobs[i]
                    /\ jobs'[i].live => jobs[i].id # a
                 \/ jobs'[i].id \in S /\ jobs'[i].op = "load" /\ jobs'[i].live
<1> DEFINE J == [i \in DOMAIN jobs |->
                   IF jobs[i].id = a THEN [jobs[i] EXCEPT !.live = FALSE] ELSE jobs[i]]
           L == Loads(S)
<1>1. jobs \in Seq(Jobs) /\ DOMAIN jobs = 1 .. Len(jobs) /\ Len(jobs) \in Nat
  BY LenProperties DEF TypeInv
<1>2. \A i \in DOMAIN jobs : jobs[i] \in Jobs
  BY <1>1, ElementOfSeq
<1>3. \A i \in DOMAIN jobs :
         /\ J[i] \in Jobs /\ J[i].id = jobs[i].id /\ J[i].op = jobs[i].op
         /\ jobs[i].id # a => J[i] = jobs[i]
         /\ J[i].live => jobs[i].id # a
  BY <1>2 DEF Jobs
<1>4. DOMAIN J = DOMAIN jobs
  OBVIOUS
<1>5. J \in [1 .. Len(jobs) -> Jobs]
  BY <1>1, <1>3
<1>6. J \in Seq(Jobs)
  BY <1>1, <1>5
<1>7. /\ L \in Seq(Jobs)
      /\ \A i \in DOMAIN L : L[i].id \in S /\ L[i].op = "load" /\ L[i].live
      /\ \A b \in S : \E i \in DOMAIN L : L[i].id = b
  BY LoadsListed
<1> HIDE DEF J, L
<1>8. jobs' = J \o L
  BY DEF J, L
<1>9. /\ jobs' \in Seq(Jobs)
      /\ \A i \in DOMAIN J : i \in DOMAIN jobs' /\ jobs'[i] = J[i]
      /\ \A k \in DOMAIN L : Len(J) + k \in DOMAIN jobs' /\ jobs'[Len(J) + k] = L[k]
      /\ \A i \in DOMAIN J, k \in DOMAIN L : Len(J) + k > i
      /\ \A i \in DOMAIN jobs' :
            \/ i \in DOMAIN J /\ jobs'[i] = J[i]
            \/ i - Len(J) \in DOMAIN L /\ jobs'[i] = L[i - Len(J)]
  <2>1. PICK s, u, c : s = J /\ u = L /\ c = jobs'
    OBVIOUS
  <2>2. s \in Seq(Jobs) /\ u \in Seq(Jobs) /\ c = s \o u
    BY <1>6, <1>7, <1>8, <2>1
  <2>3. /\ c \in Seq(Jobs)
        /\ \A i \in DOMAIN s : i \in DOMAIN c /\ c[i] = s[i]
        /\ \A k \in DOMAIN u : Len(s) + k \in DOMAIN c /\ c[Len(s) + k] = u[k]
        /\ \A i \in DOMAIN s, k \in DOMAIN u : Len(s) + k > i
        /\ \A i \in DOMAIN c :
              \/ i \in DOMAIN s /\ c[i] = s[i]
              \/ i - Len(s) \in DOMAIN u /\ c[i] = u[i - Len(s)]
    <3> HIDE <2>1
    <3> QED BY <2>2, ConcatOf
  <2> QED BY <2>1, <2>3
<1>10. \A i \in DOMAIN jobs :
          i \in DOMAIN jobs' /\ jobs'[i].id = jobs[i].id /\ jobs'[i].op = jobs[i].op
  BY <1>3, <1>4, <1>9
<1>11. ASSUME NEW b \in S
       PROVE  \E n \in DOMAIN jobs' : jobs'[n].id = b /\ \A i \in DOMAIN jobs : n > i
  <2>1. PICK k \in DOMAIN L : L[k].id = b
    BY <1>7
  <2> QED BY <1>4, <1>9, <2>1
<1>12. ASSUME NEW i \in DOMAIN jobs'
       PROVE  \/ /\ i \in DOMAIN jobs /\ jobs'[i].id = jobs[i].id /\ jobs'[i].op = jobs[i].op
                 /\ jobs[i].id # a => jobs'[i] = jobs[i]
                 /\ jobs'[i].live => jobs[i].id # a
              \/ jobs'[i].id \in S /\ jobs'[i].op = "load" /\ jobs'[i].live
  <2>1. CASE i \in DOMAIN J /\ jobs'[i] = J[i]
    BY <1>3, <1>4, <2>1
  <2>2. CASE i - Len(J) \in DOMAIN L /\ jobs'[i] = L[i - Len(J)]
    BY <1>7, <2>2
  <2> QED BY <1>9, <2>1, <2>2
<1> QED BY <1>9, <1>10, <1>11, <1>12

\* The row of an account goes.
LEMMA removeKeeps ==
    ASSUME AccountsInv, removeNext
    PROVE  AccountsInv'
<1>1. TypeInv /\ ClientsOK /\ KeyedAreKept
  BY DEF AccountsInv
<1>2. PICK a, R : a = First(removing) /\ R = removing \ {a}
  OBVIOUS
<1>3. a \in Ids /\ a # None /\ R \subseteq Ids
  <2>1. removing \subseteq Nat /\ removing # {}
    BY <1>1, IdsAreNumbers DEF removeNext, TypeInv
  <2> QED BY <1>1, <1>2, <2>1, FirstOf, IdsAreNumbers DEF TypeInv
<1>4. remove(a) /\ removing' = R
  BY <1>2 DEF removeNext
<1>5. UNCHANGED <<emailOf, slot, signIn, applied, asked, visits, turns>>
  BY DEF removeNext
<1>6. PICK t, m, gone, left, v :
         /\ t = RowsOf(table, Ids \ {a}) /\ m = mirror /\ left = contexts \ {a}
         /\ gone = (IF blind \/ a \in tokens \/ \E i \in DOMAIN jobs : jobs[i].id = a THEN {a} ELSE {})
         /\ v = (IF view.current = a THEN View(None, None) ELSE view)
  OBVIOUS
<1>7. /\ reload(t, gone) /\ blind' = (blind \/ faults' # faults)
      /\ contexts' = left \cup list'.ids
      /\ tokens' = tokens \ {a}
      /\ view' \in (IF v.current = None THEN selectInitialCurrent(list', v) ELSE {v})
      /\ crossed' = crossed \cup ({view'.window} \ (tokens' \cup {None}))
      /\ posted' = postedToOthers(a)
  BY <1>4, <1>6 DEF remove, Noted
<1>8. jobs' = [i \in DOMAIN jobs |->
                 IF jobs[i].id = a THEN [jobs[i] EXCEPT !.live = FALSE] ELSE jobs[i]]
              \o Loads(list'.ids \ left)
  BY <1>4, <1>6 DEF remove
<1>9. /\ t \in Rows /\ RowsOK(t)' /\ RowsOK(m)' /\ m \in Rows
      /\ t.ids = table.ids \ {a} /\ gone \in SUBSET Ids /\ v \in Views
  <2>1. RowsOK(table) /\ table \in Rows /\ m \in Rows /\ RowsOK(m)
    BY <1>1, <1>6 DEF ClientsOK, TypeInv
  <2>2. PICK T : T = table
    OBVIOUS
  <2>3. RowsOK(T)' /\ RowsOK(m)' /\ T \in Rows
    BY <1>1, <1>5, <2>1, <2>2, RowsOutlast
  <2>4. t \in Rows /\ RowsOK(t)'
    BY <1>6, <2>2, <2>3, SomeRowsOK
  <2>5. t.ids = table.ids \ {a}
    BY <1>6, <2>1 DEF RowsOf, Rows
  <2>6. v \in Views
    BY <1>1, <1>6, ViewOf DEF TypeInv, Views
  <2> QED BY <1>3, <1>6, <2>1, <2>3, <2>4, <2>5, <2>6
<1>10. /\ table' \in Rows /\ mirror' \in Rows /\ list' \in {table', NoRows}
       /\ RowsOK(table)' /\ RowsOK(mirror)'
       /\ t.ids # {} => table' = t
       /\ forgotten \cup gone \subseteq forgotten' /\ forgotten' \subseteq Ids
       /\ (IF t.ids # {} THEN t.ids ELSE m.ids) \subseteq Kept' \cup forgotten'
       /\ faults' \in Nat
       /\ faults' = faults =>
             list' = table' /\ mirror' = table' /\ table' = IF t.ids # {} THEN t ELSE m
  <2>1. m = mirror /\ reload(t, gone)
    BY <1>6, <1>7
  <2> QED BY <1>1, <1>9, <2>1, ReloadRows
<1>11. PICK L : L = list'
  OBVIOUS
<1>12. L \in Rows /\ L.default \subseteq L.ids /\ L.ids \subseteq table'.ids /\ L.ids \subseteq Ids
  <2>1. NoRows.ids = {} /\ NoRows.default = {}
    BY DEF NoRows
  <2>2. L = table' \/ L = NoRows
    BY <1>10, <1>11
  <2>3. table'.default \subseteq table'.ids
    BY <1>10 DEF RowsOK
  <2> QED BY <1>10, <2>1, <2>2, <2>3, NoRowsOK DEF Rows
<1>13. /\ jobs' \in Seq(Jobs)
       /\ \A i \in DOMAIN jobs :
             i \in DOMAIN jobs' /\ jobs'[i].id = jobs[i].id /\ jobs'[i].op = jobs[i].op
       /\ \A b \in L.ids \ left : \E n \in DOMAIN jobs' : jobs'[n].id = b /\ \A i \in DOMAIN jobs : n > i
       /\ \A i \in DOMAIN jobs' :
             \/ /\ i \in DOMAIN jobs /\ jobs'[i].id = jobs[i].id /\ jobs'[i].op = jobs[i].op
                /\ jobs[i].id # a => jobs'[i] = jobs[i]
                /\ jobs'[i].live => jobs[i].id # a
             \/ jobs'[i].id \in L.ids \ left /\ jobs'[i].op = "load" /\ jobs'[i].live
  <2>1. PICK S : S = L.ids \ left
    OBVIOUS
  <2>2. S \in SUBSET Ids
    BY <1>12, <2>1
  <2>3. jobs' = [i \in DOMAIN jobs |->
                   IF jobs[i].id = a THEN [jobs[i] EXCEPT !.live = FALSE] ELSE jobs[i]]
                \o Loads(S)
    BY <1>8, <1>11, <2>1
  <2>4. /\ jobs' \in Seq(Jobs)
        /\ \A i \in DOMAIN jobs :
              i \in DOMAIN jobs' /\ jobs'[i].id = jobs[i].id /\ jobs'[i].op = jobs[i].op
        /\ \A b \in S : \E n \in DOMAIN jobs' : jobs'[n].id = b /\ \A i \in DOMAIN jobs : n > i
        /\ \A i \in DOMAIN jobs' :
              \/ /\ i \in DOMAIN jobs /\ jobs'[i].id = jobs[i].id /\ jobs'[i].op = jobs[i].op
                 /\ jobs[i].id # a => jobs'[i] = jobs[i]
                 /\ jobs'[i].live => jobs[i].id # a
              \/ jobs'[i].id \in S /\ jobs'[i].op = "load" /\ jobs'[i].live
    BY <1>1, <2>2, <2>3, RemovedJobs, Zenon
  <2> QED BY <2>1, <2>4
<1>14. /\ posted' \in Seq(Posts)
       /\ \A j \in DOMAIN posted' : \E i \in DOMAIN posted : posted'[j] = posted[i] /\ posted[i].id # a
       /\ \A i \in DOMAIN posted : posted[i].id # a => \E j \in DOMAIN posted' : posted'[j] = posted[i]
  BY <1>1, <1>7, OthersStay DEF TypeInv
<1>15. /\ view' \in Views
       /\ v.current # None => view' = v
       /\ v.current = None /\ L.ids = {} => view' = View(None, v.window)
       /\ v.current = None /\ L.ids # {} => \E x \in L.ids : view' = View(x, x)
  <2>1. CASE v.current = None
    <3>1. view' \in selectInitialCurrent(L, v)
      BY <1>7, <1>11, <2>1
    <3> QED BY <1>9, <1>12, <2>1, <3>1, InitialOf
  <2>2. CASE v.current # None
    BY <1>7, <1>9, <2>2
  <2> QED BY <2>1, <2>2
<1>16. contexts' = left \cup L.ids /\ left \subseteq t.ids /\ contexts' \subseteq table'.ids
  <2>1. left \subseteq t.ids
    BY <1>1, <1>6, <1>9 DEF ClientsOK
  <2>2. left \subseteq table'.ids
    BY <1>10, <2>1
  <2> QED BY <1>7, <1>11, <1>12, <2>1, <2>2
<1>17. TypeInv'
  <2>1. list' \in Rows /\ contexts' \subseteq Ids /\ tokens' \subseteq Ids
    BY <1>1, <1>7, <1>10, <1>11, <1>12, <1>16 DEF TypeInv, Rows
  <2>2. crossed' \subseteq Ids /\ view' \in [current : Ids \cup {None}, window : Ids \cup {None}]
    BY <1>1, <1>7, <1>15 DEF TypeInv, Views
  <2>3. blind' \in BOOLEAN
    BY <1>1, <1>7 DEF TypeInv
  <2> QED BY <1>1, <1>3, <1>4, <1>5, <1>10, <1>13, <1>14, <2>1, <2>2, <2>3 DEF TypeInv
<1>18. ClientsOK'
  <2>1. tokens' \subseteq contexts'
    BY <1>1, <1>6, <1>7, <1>16 DEF ClientsOK
  <2>2. \A i \in DOMAIN posted' : posted'[i].id \in contexts'
    BY <1>1, <1>6, <1>14, <1>16 DEF ClientsOK
  <2>3. \A i \in DOMAIN jobs' : jobs'[i].live => jobs'[i].id \in contexts'
    BY <1>1, <1>6, <1>13, <1>16 DEF ClientsOK, TypeInv
  <2> QED BY <1>10, <1>16, <2>1, <2>2, <2>3 DEF ClientsOK
<1>19. KeyedAreKept'
  <2> DEFINE X == Kept' \cup forgotten'
  <2>1. ASSUME NEW b, b \in Kept \cup forgotten, b # a \/ gone = {a} \/ a \notin table.ids
        PROVE  b \in X
    <3>1. CASE b \in forgotten
      BY <1>10, <3>1
    <3>2. CASE b \in Kept /\ table.ids = {}
      <4>1. t.ids = {} /\ b \in m.ids
        BY <1>6, <1>9, <3>2 DEF Kept
      <4> QED BY <1>10, <4>1
    <3>3. CASE b \in Kept /\ table.ids # {}
      <4>1. b \in table.ids
        BY <3>3 DEF Kept
      <4>2. CASE b = a
        BY <1>10, <2>1, <4>1, <4>2
      <4>3. CASE b # a
        <5>1. b \in t.ids
          BY <1>9, <4>1, <4>3
        <5> QED BY <1>10, <5>1
      <4> QED BY <4>2, <4>3
    <3> QED BY <2>1, <3>1, <3>2, <3>3
  <2> HIDE DEF X
  <2>2. ASSUME gone # {a}, a \in table.ids
        PROVE  a \notin slot /\ \A i \in DOMAIN jobs : jobs[i].id # a
    <3>1. ~ blind /\ a \notin tokens /\ \A i \in DOMAIN jobs : jobs[i].id # a
      BY <1>6, <2>2
    <3>2. JobsTell
      BY <3>1 DEF AccountsInv
    <3> QED BY <2>2, <3>1, <3>2 DEF JobsTell
  <2>3. slot' \subseteq X
    BY <1>1, <1>5, <2>1, <2>2 DEF KeyedAreKept
  <2>4. \A i \in DOMAIN jobs' : jobs'[i].op = "save" => jobs'[i].id \in X
    BY <1>1, <1>13, <2>1, <2>2 DEF KeyedAreKept
  <2> QED BY <2>3, <2>4 DEF KeyedAreKept, X
<1>20. ASSUME ~ blind'
       PROVE  Agree' /\ JobsTell' /\ GateToCome' /\ SignOutToCome'
  <2>1. ~ blind /\ faults' = faults
    BY <1>7, <1>20
  <2>2. Agree /\ JobsTell /\ GateToCome /\ SignOutToCome
    BY <2>1 DEF AccountsInv
  <2>3. list' = table' /\ mirror' = table' /\ table' = (IF t.ids # {} THEN t ELSE m) /\ L = table'
    BY <1>10, <1>11, <2>1
  <2>4. left = t.ids /\ m = table
    BY <1>6, <1>9, <2>2 DEF Agree
  <2>5. contexts' = table'.ids
    BY <1>16, <2>3, <2>4
  <2>6. \A x \in L.ids : x # None /\ View(x, x).current = x /\ View(x, x).window = x
    BY <1>12, IdsAreNumbers, ViewOf
  <2>7. /\ View(None, v.window).current = None /\ View(None, v.window).window = v.window
        /\ View(None, None).current = None /\ View(None, None).window = None
    BY ViewOf
  <2>8. v.current # None => v = view /\ view.current \in t.ids /\ table' = t
    <3>1. SUFFICES ASSUME v.current # None
                   PROVE  v = view /\ view.current \in t.ids
      BY <2>3
    <3>2. v = view /\ view.current # a
      BY <1>6, <2>7, <3>1
    <3> QED BY <1>9, <2>2, <3>1, <3>2 DEF Agree
  <2>9. v.current = None => v.window = None
    <3>1. CASE view.current = a
      BY <1>6, <2>7, <3>1
    <3>2. CASE view.current # a
      BY <1>6, <2>2, <3>2 DEF Agree
    <3> QED BY <3>1, <3>2
  <2>10. \/ view' = view /\ v = view /\ view.current # None /\ view.current \in table'.ids
         \/ view'.current = None /\ view'.window = None /\ table'.ids = {}
         \/ \E x \in table'.ids : x # None /\ view'.current = x /\ view'.window = x
    <3>1. CASE v.current # None
      BY <1>15, <2>8, <3>1
    <3>2. CASE v.current = None /\ L.ids = {}
      BY <1>15, <2>3, <2>7, <2>9, <3>2
    <3>3. CASE v.current = None /\ L.ids # {}
      BY <1>15, <2>3, <2>6, <3>3
    <3> QED BY <3>1, <3>2, <3>3
  <2>11. Agree'
    <3>1. (view'.current = None) <=> (table'.ids = {})
      BY <2>10
    <3>2. view'.current \in table'.ids \cup {None} /\ view'.window \in {view'.current, None}
      BY <2>2, <2>10 DEF Agree
    <3> QED BY <2>3, <2>5, <3>1, <3>2 DEF Agree
  <2>12. JobsTell'
    <3>1. SUFFICES ASSUME NEW b \in table'.ids, b \notin tokens'
                   PROVE  /\ b \in slot => \E i \in DOMAIN jobs' : jobs'[i].id = b
                          /\ \A i \in DOMAIN jobs' :
                                jobs'[i].id = b /\ (jobs'[i].op = "save" \/ ~ jobs'[i].live) =>
                                    \E j \in DOMAIN jobs' : j > i /\ jobs'[j].id = b
      BY <1>5 DEF JobsTell
    <3>2. CASE b \in left
      <4>1. b \in table.ids \ tokens /\ b # a
        BY <1>7, <1>9, <2>4, <3>1, <3>2
      <4>2. b \in slot => \E i \in DOMAIN jobs' : jobs'[i].id = b
        BY <1>13, <2>2, <4>1 DEF JobsTell
      <4>3. ASSUME NEW i \in DOMAIN jobs', jobs'[i].id = b, jobs'[i].op = "save" \/ ~ jobs'[i].live
            PROVE  \E j \in DOMAIN jobs' : j > i /\ jobs'[j].id = b
        <5>1. i \in DOMAIN jobs /\ jobs'[i] = jobs[i]
          BY <1>13, <3>2, <4>1, <4>3
        <5>2. PICK j \in DOMAIN jobs : j > i /\ jobs[j].id = b
          BY <2>2, <4>1, <4>3, <5>1 DEF JobsTell
        <5> QED BY <1>13, <5>2
      <4> QED BY <4>2, <4>3
    <3>3. CASE b \notin left
      <4>1. PICK n \in DOMAIN jobs' : jobs'[n].id = b /\ \A i \in DOMAIN jobs : n > i
        BY <1>13, <2>3, <3>1, <3>3
      <4>2. ASSUME NEW i \in DOMAIN jobs', jobs'[i].op = "save" \/ ~ jobs'[i].live
            PROVE  i \in DOMAIN jobs
        BY <1>13, <4>2
      <4> QED BY <4>1, <4>2
    <3> QED BY <3>2, <3>3
  <2>13. GateToCome'
    BY <1>7 DEF GateToCome
  <2>14. SignOutToCome'
    <3>1. SUFFICES ASSUME view'.current \in tokens' \ crossed', view'.window = None
                   PROVE  \E i \in DOMAIN posted' : posted'[i].op = "signOut" /\ posted'[i].id = view'.current
      BY DEF SignOutToCome
    <3>2. view'.current # None /\ view'.current # a /\ view'.current \in tokens \ crossed
      BY <1>1, <1>7, <3>1, IdsAreNumbers DEF TypeInv
    <3>3. view' = view
      BY <2>10, <3>1, <3>2
    <3>4. PICK i \in DOMAIN posted : posted[i].op = "signOut" /\ posted[i].id = view.current
      BY <2>2, <3>1, <3>2, <3>3 DEF SignOutToCome
    <3> QED BY <1>14, <3>2, <3>3, <3>4
  <2> QED BY <2>11, <2>12, <2>13, <2>14
<1> QED BY <1>17, <1>18, <1>19, <1>20 DEF AccountsInv

\* An account gets a context, and tokens, in rows t that have it.
LEMMA AddedKeeps ==
    ASSUME AccountsInv, NEW a \in Ids, NEW t \in Rows, RowsOK(t)', NEW m, m = mirror, RowsOK(m)',
           emailOf' \in Seq(Emails), Len(emailOf') <= MaxIds, signIn' \in SignIns,
           t.ids = table.ids \cup {a}, AddedTo(a, t)
    PROVE  AccountsInv'
<1>1. TypeInv /\ ClientsOK /\ KeyedAreKept
  BY DEF AccountsInv
<1>2. PICK gone : gone = Overlooked
  OBVIOUS
<1> DEFINE p == [op |-> "adopt", id |-> a]
           e == Job("load", a)
<1>3. /\ reload(t, gone) /\ blind' = (blind \/ faults' # faults)
      /\ contexts' = contexts \cup {a}
      /\ jobs' = (IF a \in contexts THEN jobs ELSE Append(jobs, e))
      /\ posted' = Append(posted, p)
      /\ UNCHANGED <<slot, tokens, applied, asked, removing, visits, turns, crossed>>
  BY <1>2 DEF AddedTo, Noted, askVars
<1>4. PICK v \in (IF a \notin table.ids /\ view.current = None
                  THEN selectInitialCurrent(list', view) ELSE {view}) :
             view' = setCurrentAccountId(list', v, a)
  BY Zenon DEF AddedTo
<1>5. gone \in SUBSET Ids /\ a # None /\ a \in t.ids /\ m \in Rows
  BY <1>1, <1>2, IdsAreNumbers DEF Overlooked, TypeInv, Rows
<1>6. /\ table' = t /\ mirror' \in Rows /\ list' \in {t, NoRows} /\ list' \in Rows
      /\ RowsOK(table)' /\ RowsOK(mirror)'
      /\ forgotten \cup gone \subseteq forgotten' /\ forgotten' \subseteq Ids
      /\ faults' \in Nat
      /\ faults' = faults => list' = t /\ mirror' = t
  <2>1. m = mirror
    OBVIOUS
  <2>2. /\ table' \in Rows /\ mirror' \in Rows /\ list' \in {table', NoRows}
        /\ RowsOK(table)' /\ RowsOK(mirror)'
        /\ t.ids # {} => table' = t
        /\ forgotten \cup gone \subseteq forgotten' /\ forgotten' \subseteq Ids
        /\ (IF t.ids # {} THEN t.ids ELSE m.ids) \subseteq Kept' \cup forgotten'
        /\ faults' \in Nat
        /\ faults' = faults =>
              list' = table' /\ mirror' = table' /\ table' = IF t.ids # {} THEN t ELSE m
    BY <1>1, <1>3, <1>5, ReloadRows
  <2> QED BY <1>5, <2>2, NoRowsOK
<1>7. p \in Posts /\ p.id = a /\ e \in Jobs /\ e.id = a /\ e.live /\ e.op = "load"
  BY DEF Posts, Job, Jobs
<1> HIDE DEF p, e
<1>8. /\ posted' \in Seq(Posts) /\ posted' # <<>>
      /\ \A i \in DOMAIN posted : i \in DOMAIN posted' /\ posted'[i] = posted[i]
      /\ \A i \in DOMAIN posted' : i \in DOMAIN posted \/ posted'[i] = p
  <2>1. /\ posted' \in Seq(Posts) /\ posted' # <<>>
        /\ \A i \in DOMAIN posted : i \in DOMAIN posted' /\ posted'[i] = posted[i]
        /\ Len(posted') \in DOMAIN posted' /\ posted'[Len(posted')] = p
        /\ \A i \in DOMAIN posted' : i \in DOMAIN posted \/ i = Len(posted')
    BY <1>1, <1>3, <1>7, AppendOf DEF TypeInv
  <2> QED BY <2>1
<1>9. /\ jobs' \in Seq(Jobs)
      /\ \A i \in DOMAIN jobs : i \in DOMAIN jobs' /\ jobs'[i] = jobs[i]
      /\ \A i \in DOMAIN jobs' : i \in DOMAIN jobs \/ jobs'[i] = e
      /\ a \notin contexts =>
            \E n \in DOMAIN jobs' : jobs'[n] = e /\ \A i \in DOMAIN jobs : n > i
  <2>1. CASE a \in contexts
    BY <1>1, <1>3, <2>1 DEF TypeInv
  <2>2. CASE a \notin contexts
    <3>1. jobs' = Append(jobs, e)
      BY <1>3, <2>2
    <3>2. /\ jobs' \in Seq(Jobs)
          /\ \A i \in DOMAIN jobs : i \in DOMAIN jobs' /\ jobs'[i] = jobs[i]
          /\ Len(jobs') \in DOMAIN jobs' /\ jobs'[Len(jobs')] = e
          /\ \A i \in DOMAIN jobs : Len(jobs') > i
          /\ \A i \in DOMAIN jobs' : i \in DOMAIN jobs \/ i = Len(jobs')
      BY <1>1, <1>7, <3>1, AppendOf DEF TypeInv
    <3> QED BY <3>2
  <2> QED BY <2>1, <2>2
<1>10. PICK L : L = list'
  OBVIOUS
<1>11. /\ v \in Views /\ view' \in Views
       /\ \/ view' = v /\ (a = v.current \/ a \notin L.ids)
          \/ view' = View(a, a)
       /\ \/ v = view /\ ~ (a \notin table.ids /\ view.current = None)
          \/ v \in selectInitialCurrent(L, view)
  <2>1. L \in Rows /\ L.default \subseteq L.ids
    <3>1. NoRows.default = {} /\ NoRows.ids = {}
      BY DEF NoRows
    <3> QED BY <1>6, <1>10, <3>1 DEF RowsOK
  <2>2. view \in Views
    BY <1>1 DEF TypeInv, Views
  <2>3. (v = view /\ ~ (a \notin table.ids /\ view.current = None)) \/ v \in selectInitialCurrent(L, view)
    BY <1>4, <1>10
  <2>4. v \in Views
    BY <2>1, <2>2, <2>3, InitialOf
  <2>5. view' = setCurrentAccountId(L, v, a)
    BY <1>4, <1>10
  <2> QED BY <2>1, <2>3, <2>4, <2>5, SetCurrentOf
<1>12. TypeInv'
  <2>1. contexts' \subseteq Ids /\ blind' \in BOOLEAN
    BY <1>1, <1>3 DEF TypeInv
  <2> QED BY <1>1, <1>3, <1>6, <1>8, <1>9, <1>11, <2>1 DEF TypeInv, Views
<1>13. ClientsOK'
  <2>1. contexts' \subseteq t.ids /\ tokens' \subseteq contexts'
    BY <1>1, <1>3 DEF ClientsOK
  <2>2. \A i \in DOMAIN posted' : posted'[i].id \in contexts'
    BY <1>1, <1>3, <1>7, <1>8 DEF ClientsOK
  <2>3. \A i \in DOMAIN jobs' : jobs'[i].live => jobs'[i].id \in contexts'
    BY <1>1, <1>3, <1>7, <1>9 DEF ClientsOK
  <2> QED BY <1>6, <2>1, <2>2, <2>3 DEF ClientsOK
<1>14. KeyedAreKept'
  <2>1. Kept \cup forgotten \subseteq t.ids \cup forgotten'
    BY <1>2, <1>6 DEF Kept, Overlooked
  <2>2. Kept' = t.ids
    BY <1>5, <1>6 DEF Kept
  <2>3. slot' \subseteq t.ids \cup forgotten'
    BY <1>1, <1>3, <2>1 DEF KeyedAreKept
  <2>4. \A i \in DOMAIN jobs' : jobs'[i].op = "save" => jobs'[i].id \in t.ids \cup forgotten'
    BY <1>1, <1>7, <1>9, <2>1 DEF KeyedAreKept
  <2> QED BY <2>2, <2>3, <2>4 DEF KeyedAreKept
<1>15. ASSUME ~ blind'
       PROVE  Agree' /\ JobsTell' /\ GateToCome' /\ SignOutToCome'
  <2>1. ~ blind /\ list' = t /\ mirror' = t /\ L = t
    BY <1>3, <1>6, <1>10, <1>15
  <2>2. Agree /\ JobsTell /\ GateToCome /\ SignOutToCome
    BY <2>1 DEF AccountsInv
  <2>3. \A x \in t.ids : x # None /\ View(x, x).current = x /\ View(x, x).window = x
    BY IdsAreNumbers, ViewOf DEF Rows
  <2>4. \/ v = view /\ view.current \in table.ids
        \/ \E x \in t.ids : v = View(x, x)
    <3>1. CASE v = view /\ ~ (a \notin table.ids /\ view.current = None)
      BY <2>2, <3>1 DEF Agree
    <3>2. CASE v \in selectInitialCurrent(t, view)
      <4>1. view \in Views /\ t.default \subseteq t.ids
        BY <1>1, <1>6 DEF TypeInv, Views, RowsOK
      <4> QED BY <1>5, <3>2, <4>1, InitialOf
    <3> QED BY <1>11, <2>1, <3>1, <3>2
  <2>5. \/ view' = view /\ view.current \in table.ids
        \/ \E x \in t.ids : view' = View(x, x)
    BY <1>5, <1>11, <2>1, <2>4
  <2>6. Agree'
    <3>1. view'.current \in t.ids /\ view'.window \in {view'.current, None}
      BY <2>2, <2>3, <2>5 DEF Agree
    <3>2. contexts' = t.ids
      BY <1>3, <2>2 DEF Agree
    <3>3. view'.current # None
      BY <2>3, <3>1
    <3> QED BY <1>5, <1>6, <2>1, <3>1, <3>2, <3>3 DEF Agree
  <2>7. JobsTell'
    <3>1. SUFFICES ASSUME NEW b \in t.ids, b \notin tokens
                   PROVE  /\ b \in slot => \E i \in DOMAIN jobs' : jobs'[i].id = b
                          /\ \A i \in DOMAIN jobs' :
                                jobs'[i].id = b /\ (jobs'[i].op = "save" \/ ~ jobs'[i].live) =>
                                    \E j \in DOMAIN jobs' : j > i /\ jobs'[j].id = b
      BY <1>3, <1>6 DEF JobsTell
    <3>2. CASE b \in table.ids
      <4>1. b \in slot => \E i \in DOMAIN jobs' : jobs'[i].id = b
        BY <1>9, <2>2, <3>1, <3>2 DEF JobsTell
      <4>2. ASSUME NEW i \in DOMAIN jobs', jobs'[i].id = b, jobs'[i].op = "save" \/ ~ jobs'[i].live
            PROVE  \E j \in DOMAIN jobs' : j > i /\ jobs'[j].id = b
        <5>1. i \in DOMAIN jobs /\ jobs[i] = jobs'[i]
          BY <1>7, <1>9, <4>2
        <5>2. PICK j \in DOMAIN jobs : j > i /\ jobs[j].id = b
          BY <2>2, <3>1, <3>2, <4>2, <5>1 DEF JobsTell
        <5> QED BY <1>9, <5>2
      <4> QED BY <4>1, <4>2
    <3>3. CASE b \notin table.ids
      <4>1. b = a /\ a \notin contexts
        BY <2>2, <3>1, <3>3 DEF Agree
      <4>2. PICK n \in DOMAIN jobs' : jobs'[n] = e /\ \A i \in DOMAIN jobs : n > i
        BY <1>9, <4>1
      <4>3. ASSUME NEW i \in DOMAIN jobs', jobs'[i].op = "save" \/ ~ jobs'[i].live
            PROVE  i \in DOMAIN jobs
        BY <1>7, <1>9, <4>3
      <4> QED BY <1>7, <4>1, <4>2, <4>3
    <3> QED BY <3>2, <3>3
  <2>8. GateToCome'
    BY <1>8 DEF GateToCome
  <2>9. SignOutToCome'
    <3>1. SUFFICES ASSUME view'.current \in tokens \ crossed, view'.window = None
                   PROVE  \E i \in DOMAIN posted' : posted'[i].op = "signOut" /\ posted'[i].id = view'.current
      BY <1>3 DEF SignOutToCome
    <3>2. view' = view
      BY <2>3, <2>5, <3>1
    <3>3. PICK i \in DOMAIN posted : posted[i].op = "signOut" /\ posted[i].id = view.current
      BY <2>2, <3>1, <3>2 DEF SignOutToCome
    <3> QED BY <1>8, <3>2, <3>3
  <2> QED BY <2>6, <2>7, <2>8, <2>9
<1> QED BY <1>12, <1>13, <1>14, <1>15 DEF AccountsInv

\* The address of a sign-in is that of a row, or gets a row of its own.
LEMMA finalizeKeeps ==
    ASSUME AccountsInv, NEW e \in Emails, finalizePendingAddAccountFlow(e)
    PROVE  AccountsInv'
<1>1. TypeInv /\ ClientsOK /\ RowsOK(table) /\ RowsOK(mirror)
  BY DEF AccountsInv, ClientsOK
<1>2. PICK T, m, known : T = table /\ m = mirror /\ known = {a \in table.ids : emailOf[a] = e}
  OBVIOUS
<1>3. T \in Rows /\ m \in Rows /\ RowsOK(T) /\ RowsOK(m) /\ signIn' \in SignIns
  BY <1>1, <1>2 DEF TypeInv, RowsOK, finalizePendingAddAccountFlow, SignIns
<1>4. \/ \E a \in known : AddedTo(a, table) /\ UNCHANGED emailOf
      \/ /\ known = {} /\ Len(emailOf) < MaxIds
         /\ emailOf' = Append(emailOf, e)
         /\ AddedTo(Len(emailOf'), WithRow(table, Len(emailOf')))
  BY <1>2 DEF finalizePendingAddAccountFlow
<1>5. CASE \E a \in known : AddedTo(a, table) /\ UNCHANGED emailOf
  <2>1. PICK a \in known : AddedTo(a, T) /\ emailOf' = emailOf
    BY <1>2, <1>5
  <2>2. a \in Ids /\ T.ids = table.ids \cup {a}
    BY <1>2, <1>3 DEF Rows
  <2>3. RowsOK(T)' /\ RowsOK(m)'
    BY <1>1, <1>3, <2>1, RowsOutlast
  <2>4. emailOf' \in Seq(Emails) /\ Len(emailOf') <= MaxIds
    BY <1>1, <2>1 DEF TypeInv
  <2> QED BY <1>2, <1>3, <2>1, <2>2, <2>3, <2>4, AddedKeeps
<1>6. CASE /\ known = {} /\ Len(emailOf) < MaxIds
           /\ emailOf' = Append(emailOf, e)
           /\ AddedTo(Len(emailOf'), WithRow(table, Len(emailOf')))
  <2>1. PICK a, t : a = Len(emailOf') /\ t = WithRow(T, a)
    OBVIOUS
  <2>2. /\ Len(emailOf) \in Nat /\ a = Len(emailOf) + 1 /\ emailOf' \in Seq(Emails)
        /\ emailOf'[a] = e /\ \A b \in Minted : emailOf'[b] = emailOf[b]
    BY <1>1, <1>6, <2>1, AppendProperties, LenProperties DEF TypeInv, Minted
  <2>3. MaxIds \in Nat
    BY AccountsAssumption DEF AccountsAssumption
  <2>4. a \in Ids /\ a <= MaxIds /\ a \in Minted' /\ a \notin Minted
    BY <1>6, <2>1, <2>2, <2>3 DEF Ids, Minted
  <2>5. RowsOK(T)' /\ RowsOK(m)'
    BY <1>1, <1>3, <1>6, RowsOutlast
  <2>6. /\ t.ids = T.ids \cup {a} /\ t.default = (IF T.ids = {} THEN {a} ELSE T.default)
        /\ t \in Rows
    BY <1>3, <2>1, <2>4 DEF WithRow, Rows
  <2>7. RowsOK(t)'
    <3>1. t.ids \subseteq Minted' /\ t.default \subseteq t.ids /\ \A x, y \in t.default : x = y
      BY <2>4, <2>5, <2>6 DEF RowsOK
    <3>2. \A x \in T.ids : x \in Minted /\ emailOf'[x] # e
      BY <1>2, <1>3, <1>6, <2>2 DEF RowsOK
    <3>3. \A x, y \in t.ids : emailOf'[x] = emailOf'[y] => x = y
      BY <2>2, <2>5, <2>6, <3>2 DEF RowsOK
    <3> QED BY <3>1, <3>3 DEF RowsOK
  <2>8. AddedTo(a, t)
    BY <1>2, <1>6, <2>1
  <2>9. Len(emailOf') <= MaxIds
    BY <2>1, <2>4
  <2> QED BY <1>2, <1>3, <2>2, <2>4, <2>5, <2>6, <2>7, <2>8, <2>9, AddedKeeps
<1> QED BY <1>4, <1>5, <1>6

-----------------------------------------------------------------------------
(* The start.                                                              *)

\* After a start without a failure the memory agrees with the rows, each client
\* loads its tokens, and nothing else is under way.
LEMMA StartedAgrees ==
    ASSUME NEW t, t \in Rows, t.default \subseteq t.ids,
           table' = t, list' = t, mirror' = t, contexts' = t.ids, tokens' = {},
           view' \in selectInitialCurrent(t, View(None, None)),
           posted' = <<>>, jobs' = Loads(t.ids)
    PROVE  Agree' /\ JobsTell' /\ GateToCome' /\ SignOutToCome'
<1>1. t.ids \subseteq Ids
  BY DEF Rows
<1>2. /\ t.ids = {} => view' = View(None, View(None, None).window)
      /\ t.ids # {} => \E a \in t.ids : view' = View(a, a)
  <2>1. View(None, None) \in Views
    BY ViewOf
  <2> QED BY <2>1, InitialOf
<1>3. /\ \A x \in t.ids : x # None /\ View(x, x).current = x /\ View(x, x).window = x
      /\ View(None, None).window = None /\ View(None, None).current = None
  BY <1>1, IdsAreNumbers, ViewOf
<1>4. /\ \A i \in DOMAIN jobs' : jobs'[i].id \in t.ids /\ jobs'[i].op = "load" /\ jobs'[i].live
      /\ \A a \in t.ids : \E i \in DOMAIN jobs' : jobs'[i].id = a
  BY <1>1, LoadsListed
<1>5. Agree'
  BY <1>2, <1>3 DEF Agree
<1>6. JobsTell'
  BY <1>4 DEF JobsTell
<1>7. GateToCome'
  <2>1. CASE t.ids = {}
    BY <1>2, <1>3, <2>1 DEF GateToCome
  <2>2. CASE t.ids # {}
    BY <1>4, <2>2 DEF GateToCome
  <2> QED BY <2>1, <2>2
<1>8. SignOutToCome'
  BY DEF SignOutToCome
<1> QED BY <1>5, <1>6, <1>7, <1>8

LEMMA RestartKeeps ==
    ASSUME AccountsInv, Restart
    PROVE  AccountsInv'
<1>1. TypeInv /\ ClientsOK /\ KeyedAreKept
  BY DEF AccountsInv
<1>2. /\ UNCHANGED <<emailOf, slot, visits>>
      /\ turns' = turns + 1 /\ blind' = (faults' # faults)
      /\ contexts' = list'.ids /\ tokens' = {} /\ signIn' = "nothing"
      /\ view' \in selectInitialCurrent(list', View(None, None)) /\ applied' = FALSE
      /\ posted' = <<>> /\ jobs' = Loads(list'.ids)
      /\ asked' = {} /\ removing' = {} /\ crossed' = {}
      /\ \/ reload(table, {})
         \/ reload(NoRows, table.ids \ mirror.ids)
  BY DEF Restart, Turn
<1>3. PICK T, m : T = table /\ m = mirror
  OBVIOUS
<1>4. PICK t, gone : /\ reload(t, gone)
                     /\ (t = T /\ gone = {}) \/ (t = NoRows /\ gone = T.ids \ m.ids)
  BY <1>2, <1>3
<1>5. /\ T \in Rows /\ RowsOK(T)' /\ m \in Rows /\ RowsOK(m)'
      /\ t \in Rows /\ RowsOK(t)' /\ gone \in SUBSET Ids
  <2>1. T \in Rows /\ m \in Rows /\ RowsOK(T) /\ RowsOK(m)
    BY <1>1, <1>3 DEF TypeInv, ClientsOK
  <2>2. RowsOK(T)' /\ RowsOK(m)'
    BY <1>1, <1>2, <2>1, RowsOutlast
  <2> QED BY <1>4, <2>1, <2>2, NoRowsOK DEF Rows
<1>6. /\ table' \in Rows /\ mirror' \in Rows /\ list' \in {table', NoRows}
      /\ RowsOK(table)' /\ RowsOK(mirror)'
      /\ t.ids # {} => table' = t
      /\ forgotten \cup gone \subseteq forgotten' /\ forgotten' \subseteq Ids
      /\ (IF t.ids # {} THEN t.ids ELSE m.ids) \subseteq Kept' \cup forgotten'
      /\ faults' \in Nat
      /\ faults' = faults =>
            list' = table' /\ mirror' = table' /\ table' = IF t.ids # {} THEN t ELSE m
  <2>1. m = mirror /\ reload(t, gone)
    BY <1>3, <1>4
  <2> QED BY <1>1, <1>5, <2>1, ReloadRows
<1>7. PICK L : L = list'
  OBVIOUS
<1>8. L \in Rows /\ L.default \subseteq L.ids /\ L.ids \subseteq table'.ids /\ L.ids \subseteq Ids
  <2>1. NoRows.ids = {} /\ NoRows.default = {}
    BY DEF NoRows
  <2>2. L = table' \/ L = NoRows
    BY <1>6, <1>7
  <2>3. table'.default \subseteq table'.ids
    BY <1>6 DEF RowsOK
  <2> QED BY <1>6, <2>1, <2>2, <2>3, NoRowsOK DEF Rows
<1>9. /\ jobs' = Loads(L.ids) /\ jobs' \in Seq(Jobs)
      /\ \A i \in DOMAIN jobs' : jobs'[i].id \in L.ids /\ jobs'[i].op = "load"
  BY <1>2, <1>7, <1>8, LoadsListed
<1>10. view' \in Views
  <2>1. View(None, None) \in Views /\ view' \in selectInitialCurrent(L, View(None, None))
    BY <1>2, <1>7, ViewOf
  <2> QED BY <1>8, <2>1, InitialOf
<1>11. TypeInv'
  <2>1. posted' \in Seq(Posts)
    BY <1>2, EmptySeq
  <2>2. contexts' \subseteq Ids /\ list' \in Rows
    BY <1>2, <1>7, <1>8
  <2>3. turns' \in Nat /\ visits' \in Nat /\ blind' \in BOOLEAN
    BY <1>1, <1>2 DEF TypeInv
  <2>4. signIn' \in SignIns /\ applied' \in BOOLEAN /\ tokens' \subseteq Ids
    BY <1>2 DEF SignIns
  <2>5. asked' \subseteq Ids /\ removing' \subseteq Ids /\ crossed' \subseteq Ids
    BY <1>2
  <2>6. emailOf' \in Seq(Emails) /\ Len(emailOf') <= MaxIds /\ slot' \subseteq Ids
    BY <1>1, <1>2 DEF TypeInv
  <2> QED BY <1>6, <1>9, <1>10, <2>1, <2>2, <2>3, <2>4, <2>5, <2>6 DEF TypeInv, Views
<1>12. ClientsOK'
  <2>1. contexts' = L.ids
    BY <1>2, <1>7
  <2>2. \A i \in DOMAIN posted' : posted'[i].id \in contexts'
    BY <1>2
  <2> QED BY <1>2, <1>6, <1>8, <1>9, <2>1, <2>2 DEF ClientsOK
<1>13. KeyedAreKept'
  <2>1. Kept \cup forgotten \subseteq Kept' \cup forgotten'
    <3>1. CASE t = T /\ gone = {}
      BY <1>3, <1>6, <3>1 DEF Kept
    <3>2. CASE t = NoRows /\ gone = T.ids \ m.ids
      <4>1. m.ids \subseteq Kept' \cup forgotten' /\ T.ids \ m.ids \subseteq forgotten'
        BY <1>6, <3>2 DEF NoRows
      <4> QED BY <1>3, <1>6, <4>1 DEF Kept
    <3> QED BY <1>4, <3>1, <3>2
  <2> QED BY <1>1, <1>2, <1>9, <2>1 DEF KeyedAreKept
<1>14. ~ blind' => Agree' /\ JobsTell' /\ GateToCome' /\ SignOutToCome'
  <2>1. SUFFICES ASSUME ~ blind' PROVE Agree' /\ JobsTell' /\ GateToCome' /\ SignOutToCome'
    OBVIOUS
  <2>2. list' = L /\ table' = L /\ mirror' = L
    BY <1>2, <1>6, <1>7, <2>1
  <2>3. /\ contexts' = L.ids /\ jobs' = Loads(L.ids)
        /\ view' \in selectInitialCurrent(L, View(None, None))
    BY <1>2, <2>2
  <2> QED BY <1>2, <1>8, <2>2, <2>3, StartedAgrees
<1> QED BY <1>11, <1>12, <1>13, <1>14 DEF AccountsInv

LEMMA InitAccounts == Init => AccountsInv
<1> SUFFICES ASSUME Init PROVE AccountsInv
  OBVIOUS
<1>1. PICK n \in 0 .. InitialAccounts : \E e \in [1 .. n -> Emails] :
         /\ \A a, b \in 1 .. n : e[a] = e[b] => a = b
         /\ emailOf = e
         /\ table = [ids |-> 1 .. n, default |-> {1} \cap (1 .. n)]
  BY DEF Init
<1>0. /\ emailOf \in [1 .. n -> Emails]
      /\ \A a, b \in 1 .. n : emailOf[a] = emailOf[b] => a = b
      /\ table = [ids |-> 1 .. n, default |-> {1} \cap (1 .. n)]
  BY <1>1
<1>2. /\ n \in Nat /\ n <= MaxIds /\ MaxIds \in Nat /\ 1 .. n \subseteq Ids
      /\ emailOf \in Seq(Emails) /\ Len(emailOf) = n
  <2>1. n \in Nat /\ n <= MaxIds /\ MaxIds \in Nat
    BY AccountsAssumption DEF AccountsAssumption
  <2>2. 1 .. n \subseteq Ids
    BY <2>1 DEF Ids
  <2>3. emailOf \in Seq(Emails) /\ DOMAIN emailOf = 1 .. n
    BY <1>0, <2>1
  <2>4. Len(emailOf) = n
    BY <2>1, <2>3, LenProperties
  <2> QED BY <2>1, <2>2, <2>3, <2>4
<1>3. /\ mirror = table /\ slot \in SUBSET table.ids
      /\ list = table /\ contexts = table.ids /\ tokens = {} /\ signIn = "nothing"
      /\ view \in selectInitialCurrent(table, View(None, None)) /\ applied = FALSE
      /\ posted = <<>> /\ jobs = Loads(contexts)
      /\ asked = {} /\ removing = {} /\ forgotten = {} /\ crossed = {} /\ blind = FALSE
      /\ visits = 0 /\ faults = 0 /\ turns = 0
  BY DEF Init
<1>4. table.ids = 1 .. n /\ table.default = {1} \cap (1 .. n) /\ table \in Rows
  BY <1>0, <1>2 DEF Rows
<1>5. RowsOK(table)
  BY <1>0, <1>2, <1>4 DEF RowsOK, Minted
<1>6. /\ jobs \in Seq(Jobs)
      /\ \A i \in DOMAIN jobs : jobs[i].id \in contexts /\ jobs[i].op = "load" /\ jobs[i].live
      /\ \A a \in contexts : \E i \in DOMAIN jobs : jobs[i].id = a
  <2>1. PICK C : C = contexts
    OBVIOUS
  <2>2. C \subseteq Ids /\ jobs = Loads(C)
    BY <1>2, <1>3, <1>4, <2>1
  <2>3. /\ jobs \in Seq(Jobs)
        /\ \A i \in DOMAIN jobs : jobs[i].id \in C /\ jobs[i].op = "load" /\ jobs[i].live
        /\ \A a \in C : \E i \in DOMAIN jobs : jobs[i].id = a
    BY <2>2, LoadsListed, Zenon
  <2> QED BY <2>1, <2>3
<1>7. /\ view \in Views
      /\ table.ids = {} => view = View(None, View(None, None).window)
      /\ table.ids # {} => \E a \in table.ids : view = View(a, a)
  <2>1. View(None, None) \in Views
    BY ViewOf
  <2> QED BY <1>3, <1>4, <1>5, <2>1, InitialOf DEF RowsOK
<1>8. /\ \A x \in table.ids : x # None /\ View(x, x).current = x /\ View(x, x).window = x
      /\ View(None, None).window = None /\ View(None, None).current = None
  BY <1>2, <1>4, IdsAreNumbers, ViewOf
<1>9. TypeInv
  <2>1. posted \in Seq(Posts)
    BY <1>3, EmptySeq
  <2> QED BY <1>2, <1>3, <1>4, <1>6, <1>7, <2>1 DEF TypeInv, Views, SignIns
<1>10. ClientsOK
  BY <1>3, <1>5, <1>6 DEF ClientsOK
<1>11. KeyedAreKept
  BY <1>3, <1>6 DEF KeyedAreKept, Kept
<1>12. Agree
  BY <1>3, <1>7, <1>8 DEF Agree
<1>13. JobsTell
  BY <1>3, <1>6 DEF JobsTell
<1>14. GateToCome
  <2>1. CASE table.ids = {}
    BY <1>7, <1>8, <2>1 DEF GateToCome
  <2>2. CASE table.ids # {}
    BY <1>3, <1>6, <2>2 DEF GateToCome
  <2> QED BY <2>1, <2>2
<1>15. SignOutToCome
  BY <1>3 DEF SignOutToCome
<1> QED BY <1>9, <1>10, <1>11, <1>12, <1>13, <1>14, <1>15 DEF AccountsInv

-----------------------------------------------------------------------------
(* The theorems.                                                           *)

LEMMA AccountsInvStep == AccountsInv /\ [Next]_vars => AccountsInv'
<1> SUFFICES ASSUME AccountsInv, [Next]_vars PROVE AccountsInv'
  OBVIOUS
<1>1. CASE User
  BY <1>1, dropOrphansKeeps, answerKeeps, signingKeeps, defaultKeeps, switchAccountKeeps,
     onSignOutAccountKeeps DEF User
<1>2. CASE SignIn
  <2>1. CASE onAuthCodeCallback \/ exchangeCodeForTokens \/ failed
    <3>1. \E from \in SignIns, to \in SignIns : Signing(from, to)
      BY <2>1 DEF onAuthCodeCallback, exchangeCodeForTokens, failed, SignIns
    <3> QED BY <3>1, signingKeeps
  <2>2. CASE \E e \in Emails : finalizePendingAddAccountFlow(e)
    BY <2>2, finalizeKeeps
  <2> QED BY <1>2, <2>1, <2>2 DEF SignIn
<1>3. CASE Event
  BY <1>3, adoptTokensKeeps, signOutKeeps, loadedKeeps, silentJobKeeps, erasedKeeps DEF Event
<1>4. CASE removeNext
  BY <1>4, removeKeeps
<1>5. CASE Restart
  BY <1>5, RestartKeeps
<1>6. CASE UNCHANGED vars
  <2>1. UNCHANGED <<diskVars, slot, memoryVars, windowVars, eventVars, forgotten, blind, crossed>>
    BY <1>6 DEF vars
  <2>2. UNCHANGED <<signIn, asked, removing, visits, faults, turns>>
    BY <1>6 DEF vars, askVars, boundVars
  <2>3. TypeInv
    BY DEF AccountsInv
  <2> QED BY <2>1, <2>2, <2>3, AskingKeeps DEF TypeInv
<1> QED BY <1>1, <1>2, <1>3, <1>4, <1>5, <1>6 DEF Next

\* The inductive invariant: the rows are in order, clients, calls and jobs are of
\* rows, tokens are of rows a start would show, and without a failure the window,
\* the memory and the jobs under way tell of the same accounts.
THEOREM AccountsInvAlways == Spec => []AccountsInv
<1> QED BY InitAccounts, AccountsInvStep, PTL DEF Spec

\* Every variable keeps its type.
THEOREM TypeOKAlways == Spec => []TypeOK
<1>1. AccountsInv => TypeOK
  BY DEF AccountsInv, TypeInv, TypeOK
<1> QED BY <1>1, AccountsInvAlways, PTL

\* AccountManager and MainWindow speak of the same accounts unless a statement failed:
\* reload(), add(), remove(), the gate and the answers of the keychain keep the copies
\* of the list, and the two current accounts, together.
THEOREM AccountsAgreeAlways == Spec => []AccountsAgree
<1>1. AccountsInv => AccountsAgree
  <2> SUFFICES ASSUME AccountsInv, ~ blind PROVE AccountsAgree
    BY DEF AccountsAgree
  <2>1. Agree /\ ClientsOK /\ RowsOK(table)
    BY DEF AccountsInv, ClientsOK
  <2>2. Cardinality(table.default) <= 1
    <3>1. CASE table.default = {}
      <4>1. Cardinality(table.default) = 0
        BY <3>1, FS_EmptySet
      <4> QED BY <4>1
    <3>2. CASE table.default # {}
      <4>1. PICK x \in table.default : table.default = {x}
        BY <2>1, <3>2 DEF RowsOK
      <4>2. Cardinality(table.default) = 1
        BY <4>1, FS_Singleton
      <4> QED BY <4>2
    <3> QED BY <3>1, <3>2
  <2> QED BY <2>1, <2>2 DEF Agree, ClientsOK, RowsOK, AccountsAgree
<1> QED BY <1>1, AccountsInvAlways, PTL

\* Tokens in the keychain are of an account that the table or its mirror has, unless
\* the row could not be put back or was removed under them: a reset of the database
\* signs nobody out.
THEOREM TokensReachableAlways == Spec => []TokensReachable
<1>1. AccountsInv => TokensReachable
  BY DEF AccountsInv, KeyedAreKept, Kept, TokensReachable
<1> QED BY <1>1, AccountsInvAlways, PTL

\* When nothing is under way the window shows no account without tokens, and does
\* show the current one if that has them.
THEOREM WindowSettlesAlways == Spec => []WindowSettles
<1>1. AccountsInv => WindowSettles
  <2> SUFFICES ASSUME AccountsInv, posted = <<>>, jobs = <<>>, ~ blind
               PROVE  /\ tokens = {} => view.window \in crossed \cup {None}
                      /\ view.current \in tokens \ crossed => view.window = view.current
    BY DEF WindowSettles, Settled
  <2>1. Agree /\ GateToCome /\ SignOutToCome
    BY DEF AccountsInv
  <2>2. DOMAIN posted = {} /\ DOMAIN jobs = {}
    OBVIOUS
  <2> QED BY <2>1, <2>2 DEF Agree, GateToCome, SignOutToCome
<1> QED BY <1>1, AccountsInvAlways, PTL
=============================================================================
