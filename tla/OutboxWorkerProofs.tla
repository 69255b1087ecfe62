------------------------ MODULE OutboxWorkerProofs ------------------------
(***************************************************************************)
(* Theorems about OutboxWorker that hold for any number of accounts and    *)
(* mails and for every bound on what goes wrong.                           *)
(***************************************************************************)
EXTENDS OutboxWorker, FiniteSetTheorems, TLAPS

\* Ids are given out once, and rows and calls carry ids that were given out.
IdsGivenOut ==
    /\ Rows \subseteq 1 .. lastId
    /\ \A c \in calls : c.id \in 1 .. lastId

\* What a batch counts is finite, and an account whose context is still to go
\* is gone.
BatchFinite == IsFiniteSet(calls) /\ doomed \cap accounts = {}

\* Gmail has one copy more than the program lost sight of in two cases only:
\* a call is about to say so, or the row is gone and no call carries it.
CopiesAccounted ==
    \A i \in Ids :
        accepted[i] = lost[i] + 1 =>
            \/ \E c \in calls : c.id = i /\ c.at = "accepted"
            \/ /\ i \in (1 .. lastId) \ Rows
               /\ \A c \in calls : c.id # i

\* The inductive invariant.
IInv ==
    /\ TypeOK
    /\ IdsGivenOut
    /\ BatchFinite
    /\ OneCallPerRow
    /\ BatchCounted
    /\ NoBlindResend
    /\ CopiesAccounted

-----------------------------------------------------------------------------
(* What the helpers do.                                                    *)

LEMMA InitIInv == Init => IInv
<1> SUFFICES ASSUME Init
             PROVE  IInv
  OBVIOUS
<1>1. Rows = {} /\ calls = {} /\ remaining = 0 /\ busy = FALSE
  BY DEF Init, Rows
<1>2. Cardinality(calls) = 0 /\ IsFiniteSet(calls)
  BY <1>1, FS_EmptySet
<1>3. outbox \in [Rows -> Row]
  BY <1>1 DEF Init, Rows
<1>4. accepted = [i \in Ids |-> 0] /\ lost = [i \in Ids |-> 0]
  BY DEF Init
<1>5. TypeOK
  <2>1. accepted \in [Ids -> Nat] /\ lost \in [Ids -> Nat]
    BY <1>4
  <2>2. lastId \in 0 .. MaxRows
    BY OutboxAssumption DEF Init
  <2>3. Rows \subseteq Ids /\ remaining \in Nat /\ busy \in BOOLEAN /\ calls \subseteq Call
    BY <1>1
  <2>4. /\ accounts \subseteq Accounts /\ doomed \subseteq Accounts /\ signedIn \subseteq accounts
        /\ faults \in Nat /\ signOuts \in Nat /\ removals \in Nat /\ crashes \in Nat
    BY DEF Init
  <2> QED BY <1>3, <2>1, <2>2, <2>3, <2>4 DEF TypeOK
<1>6. NoBlindResend /\ CopiesAccounted
  BY <1>4 DEF NoBlindResend, CopiesAccounted
<1>7. IdsGivenOut /\ BatchFinite /\ OneCallPerRow /\ BatchCounted
  BY <1>1, <1>2 DEF Init, IdsGivenOut, BatchFinite, OneCallPerRow, BatchCounted
<1> QED BY <1>5, <1>6, <1>7 DEF IInv

\* A callback that ends counts itself off, and the count stays exact.
LEMMA EndOfCall ==
    ASSUME IInv, NEW c \in calls, onDone(c)
    PROVE  /\ calls' = calls \ {c} /\ IsFiniteSet(calls')
           /\ remaining' \in Nat /\ busy' \in BOOLEAN
           /\ busy' <=> remaining' > 0
           /\ remaining' >= Cardinality(calls')
           /\ remaining = Cardinality(calls) => remaining' = Cardinality(calls')
<1>1. calls' = calls \ {c} /\ remaining' = remaining - 1 /\ busy' = (remaining' > 0)
  BY DEF onDone
<1>2. IsFiniteSet(calls) /\ remaining \in Nat /\ remaining >= Cardinality(calls)
  BY DEF IInv, BatchFinite, TypeOK, BatchCounted
<1>3. IsFiniteSet(calls') /\ Cardinality(calls') = Cardinality(calls) - 1
  BY <1>1, <1>2, FS_RemoveElement
<1>4. Cardinality(calls) \in Nat /\ Cardinality(calls') \in Nat
  BY <1>2, <1>3, FS_CardinalityType
<1>5. remaining' \in Nat /\ remaining' >= Cardinality(calls')
  BY <1>1, <1>2, <1>3, <1>4
<1>6. remaining = Cardinality(calls) => remaining' = Cardinality(calls')
  BY <1>1, <1>3
<1>7. busy' \in BOOLEAN /\ (busy' <=> remaining' > 0)
  <2>1. (remaining' > 0) \in BOOLEAN
    BY <1>5
  <2> QED BY <1>1, <2>1, Zenon
<1> QED BY <1>1, <1>3, <1>5, <1>6, <1>7

\* markFailed touches one row and brings none back.
LEMMA FailedRow ==
    ASSUME TypeOK, NEW i \in Ids, NEW wait \in Waits, markFailed(i, wait)
    PROVE  /\ Rows' = Rows /\ outbox' \in [Rows' -> Row]
           /\ \A j \in Rows \ {i} : outbox'[j] = outbox[j]
<1>1. CASE i \notin Rows
  BY <1>1 DEF markFailed, TypeOK, Rows
<1>2. CASE i \in Rows
  <2>1. outbox' = [outbox EXCEPT ![i].state = "failed", ![i].wait = wait]
    BY <1>2 DEF markFailed
  <2>2. outbox \in [Rows -> Row] /\ DOMAIN outbox = Rows
    BY DEF TypeOK, Rows
  <2>3. Rows' = Rows
    BY <2>1, <2>2 DEF Rows
  <2>4. outbox'[i] = [outbox[i] EXCEPT !.state = "failed", !.wait = wait]
    BY <1>2, <2>1, <2>2
  <2>5. outbox'[i] \in Row
    BY <1>2, <2>2, <2>4 DEF Row
  <2> QED BY <2>1, <2>2, <2>3, <2>5
<1> QED BY <1>1, <1>2

\* Rows taken out leave the others as they were.
LEMMA RowsTakenOut ==
    ASSUME TypeOK, NEW I, outbox' = WithoutRows(I)
    PROVE  /\ Rows' = Rows \ I /\ outbox' \in [Rows' -> Row]
           /\ \A j \in Rows' : outbox'[j] = outbox[j]
<1>1. outbox' = [j \in Rows \ I |-> outbox[j]] /\ outbox \in [Rows -> Row]
  BY DEF WithoutRows, TypeOK
<1>2. Rows' = Rows \ I
  BY <1>1 DEF Rows
<1> QED BY <1>1, <1>2

\* At most one call on a mail is at "accepted", so a dropped set of calls loses
\* sight of at most one copy of it.
LEMMA CopiesUnheard ==
    ASSUME IInv, NEW C \in SUBSET calls, NEW i \in Ids
    PROVE  Unheard(C)[i] = IF \E c \in C : c.id = i /\ c.at = "accepted"
                           THEN lost[i] + 1 ELSE lost[i]
<1> DEFINE D == {c \in C : c.id = i /\ c.at = "accepted"}
<1>1. Unheard(C)[i] = lost[i] + Cardinality(D)
  BY DEF Unheard
<1>2. lost[i] \in Nat
  BY DEF IInv, TypeOK
<1>3. CASE \E c \in C : c.id = i /\ c.at = "accepted"
  <2>1. PICK c \in C : c.id = i /\ c.at = "accepted"
    BY <1>3
  <2>2. \A d \in C : d.id = i => d = c
    BY <2>1 DEF IInv, OneCallPerRow
  <2>3. D = {c}
    BY <2>1, <2>2
  <2>4. Cardinality(D) = 1
    BY <2>3, FS_Singleton
  <2> QED BY <1>1, <1>3, <2>4
<1>4. CASE ~ \E c \in C : c.id = i /\ c.at = "accepted"
  <2>1. D = {}
    BY <1>4
  <2>2. Cardinality(D) = 0
    BY <2>1, FS_EmptySet
  <2> QED BY <1>1, <1>2, <1>4, <2>2
<1> QED BY <1>3, <1>4


-----------------------------------------------------------------------------
(* A batch starts, or does not, on a table that holds the rows and at most *)
(* new ones.                                                               *)

LEMMA NewCallType ==
    ASSUME NEW table, table \in [DOMAIN table -> Row], DOMAIN table \subseteq Ids,
           NEW i \in DOMAIN table
    PROVE  NewCall(table, i) \in Call /\ NewCall(table, i).id = i
<1>1. table[i] \in Row
  OBVIOUS
<1>2. table[i].account \in Accounts /\ table[i].attempts \in 0 .. kMaxAttempts
  BY <1>1 DEF Row
<1>3. Count(table[i].attempts + 1) \in 1 .. kMaxAttempts
  BY <1>2, OutboxAssumption DEF Count
<1> QED BY <1>2, <1>3 DEF NewCall, Call

\* markSending keeps the table a table.
LEMMA SendingRows ==
    ASSUME NEW table, table \in [DOMAIN table -> Row], NEW I,
           outbox' = markSending(table, I)
    PROVE  /\ Rows' = DOMAIN table /\ outbox' \in [Rows' -> Row]
           /\ \A i \in I \cap Rows' : outbox'[i].state = "sending"
<1> DEFINE mark(i) == [table[i] EXCEPT !.state = "sending", !.attempts = Count(@ + 1)]
<1>1. outbox' = [i \in DOMAIN table |-> IF i \in I THEN mark(i) ELSE table[i]]
  BY DEF markSending
<1>2. Rows' = DOMAIN table
  BY <1>1 DEF Rows
<1>3. ASSUME NEW i \in DOMAIN table
      PROVE  mark(i) \in Row /\ mark(i).state = "sending"
  <2>1. table[i] \in Row
    OBVIOUS
  <2>2. table[i].attempts \in 0 .. kMaxAttempts
    BY <2>1 DEF Row
  <2>3. Count(table[i].attempts + 1) \in 0 .. kMaxAttempts
    BY <2>2, OutboxAssumption DEF Count
  <2> QED BY <2>1, <2>3 DEF Row
<1> HIDE DEF mark
<1> QED BY <1>1, <1>2, <1>3

\* One call per item, so the batch counts its calls.
LEMMA CallsOfItems ==
    ASSUME NEW table, table \in [DOMAIN table -> Row], DOMAIN table \subseteq Ids,
           NEW items \in SUBSET DOMAIN table
    PROVE  LET new == {NewCall(table, i) : i \in items}
           IN  /\ IsFiniteSet(new) /\ new \subseteq Call
               /\ Cardinality(new) = Cardinality(items)
               /\ Cardinality(items) \in Nat
               /\ items # {} => Cardinality(items) > 0
<1> DEFINE new == {NewCall(table, i) : i \in items}
           call == [i \in items |-> NewCall(table, i)]
<1>1. IsFiniteSet(items)
  <2>1. MaxRows \in Int /\ 1 \in Int
    BY OutboxAssumption
  <2>2. IsFiniteSet(1 .. MaxRows)
    BY <2>1, FS_Interval
  <2>3. items \subseteq 1 .. MaxRows
    BY DEF Ids
  <2> QED BY <2>2, <2>3, FS_Subset
<1>2. \A i, j \in items : NewCall(table, i) = NewCall(table, j) => i = j
  BY NewCallType
<1>3. call \in Bijection(items, new)
  <2>1. call \in [items -> new]
    OBVIOUS
  <2>2. \A x \in new : \E i \in items : call[i] = x
    OBVIOUS
  <2> QED BY <1>2, <2>1, <2>2 DEF Bijection, Injection, Surjection, IsInjective
<1>4. ExistsBijection(items, new)
  BY <1>3 DEF ExistsBijection
<1>5. IsFiniteSet(new) /\ Cardinality(new) = Cardinality(items)
  BY <1>1, <1>4, FS_Bijection
<1>6. Cardinality(items) \in Nat /\ (items # {} => Cardinality(items) > 0)
  BY <1>1, FS_CardinalityType, FS_EmptySet
<1>7. new \subseteq Call
  BY NewCallType
<1> QED BY <1>5, <1>6, <1>7


LEMMA FlushStep ==
    ASSUME IInv, NEW table,
           table \in [DOMAIN table -> Row],
           lastId' \in lastId .. MaxRows,
           Rows \subseteq DOMAIN table, DOMAIN table \subseteq 1 .. lastId',
           \A i \in DOMAIN table : i \in Rows \/ i > lastId,
           \A i \in Rows : table[i] = outbox[i],
           flush(table),
           UNCHANGED <<accountVars, gmailVars, boundVars>>
    PROVE  IInv'
<1> DEFINE items == dueForSendAllAccounts(table)
<1>1. lastId \in Nat /\ lastId' \in 0 .. MaxRows /\ DOMAIN table \subseteq Ids
  BY OutboxAssumption DEF IInv, TypeOK, Ids
<1>2. \A c \in calls : c.id \in DOMAIN table => table[c.id].state = "sending"
  BY <1>1 DEF IInv, IdsGivenOut, OneCallPerRow
<1>3. items \subseteq DOMAIN table /\ \A i \in items : table[i].state # "sending"
  BY DEF dueForSendAllAccounts
<1>4. ASSUME Rows' = DOMAIN table, outbox' \in [Rows' -> Row],
             busy' \in BOOLEAN, remaining' \in Nat, calls' \subseteq Call
      PROVE  TypeOK'
  <2>1. /\ accounts' \subseteq Accounts /\ doomed' \subseteq Accounts /\ signedIn' \subseteq accounts'
        /\ accepted' \in [Ids -> Nat] /\ lost' \in [Ids -> Nat]
        /\ faults' \in Nat /\ signOuts' \in Nat /\ removals' \in Nat /\ crashes' \in Nat
    BY DEF IInv, TypeOK, accountVars, gmailVars, boundVars
  <2> QED BY <1>1, <1>4, <2>1 DEF TypeOK
<1>5. NoBlindResend' /\ (doomed \cap accounts)' = {}
  BY DEF IInv, NoBlindResend, BatchFinite, accountVars, gmailVars
<1>6. CASE busy \/ items = {}
  <2>1. outbox' = table /\ UNCHANGED <<busy, remaining, calls>>
    BY <1>6 DEF flush, batchVars
  <2>2. Rows' = DOMAIN table
    BY <2>1 DEF Rows
  <2>3. TypeOK'
    <3>1. busy' \in BOOLEAN /\ remaining' \in Nat /\ calls' \subseteq Call
      BY <2>1 DEF IInv, TypeOK
    <3> QED BY <1>4, <2>1, <2>2, <3>1
  <2>4. IdsGivenOut' /\ OneCallPerRow'
    BY <1>1, <1>2, <2>1, <2>2 DEF IInv, IdsGivenOut, OneCallPerRow
  <2>5. BatchFinite' /\ BatchCounted'
    BY <1>5, <2>1 DEF IInv, BatchFinite, BatchCounted, accountVars
  <2>6. CopiesAccounted'
    <3> SUFFICES ASSUME NEW i \in Ids, accepted[i] = lost[i] + 1,
                        ~ \E c \in calls : c.id = i /\ c.at = "accepted"
                 PROVE  i \in (1 .. lastId') \ Rows' /\ \A c \in calls : c.id # i
      BY <2>1 DEF CopiesAccounted, gmailVars
    <3>1. i \in (1 .. lastId) \ Rows /\ \A c \in calls : c.id # i
      BY DEF IInv, CopiesAccounted
    <3> QED BY <1>1, <2>2, <3>1
  <2> QED BY <1>5, <2>3, <2>4, <2>5, <2>6 DEF IInv
<1>7. CASE ~ busy /\ items # {}
  <2> DEFINE new == {NewCall(table, i) : i \in items}
  <2>1. calls = {}
    <3>1. IsFiniteSet(calls) /\ remaining \in Nat /\ ~ (remaining > 0) /\ remaining >= Cardinality(calls)
      BY <1>7 DEF IInv, TypeOK, BatchFinite, BatchCounted
    <3>2. Cardinality(calls) = 0
      BY <3>1, FS_CardinalityType
    <3> QED BY <3>1, <3>2, FS_EmptySet
  <2>2. /\ busy' = TRUE /\ remaining' = Cardinality(items)
        /\ outbox' = markSending(table, items) /\ calls' = new
    BY <1>7, <2>1 DEF flush
  <2>3. /\ Rows' = DOMAIN table /\ outbox' \in [Rows' -> Row]
        /\ \A i \in items : outbox'[i].state = "sending"
    BY <1>3, <2>2, SendingRows
  <2>4. /\ IsFiniteSet(new) /\ new \subseteq Call
        /\ Cardinality(new) = Cardinality(items)
        /\ Cardinality(items) \in Nat /\ Cardinality(items) > 0
    BY <1>1, <1>3, <1>7, CallsOfItems
  <2>5. \A i \in items : NewCall(table, i).id = i
    BY <1>1, <1>3, NewCallType
  <2>6. TypeOK'
    BY <1>4, <2>2, <2>3, <2>4
  <2>7. IdsGivenOut' /\ OneCallPerRow'
    BY <1>1, <1>3, <2>2, <2>3, <2>5 DEF IdsGivenOut, OneCallPerRow
  <2>8. BatchFinite' /\ BatchCounted'
    BY <1>5, <2>2, <2>4 DEF BatchFinite, BatchCounted
  <2>9. CopiesAccounted'
    <3> SUFFICES ASSUME NEW i \in Ids, accepted[i] = lost[i] + 1
                 PROVE  i \in (1 .. lastId') \ Rows' /\ \A c \in calls' : c.id # i
      BY DEF CopiesAccounted, gmailVars
    <3>1. i \in (1 .. lastId) \ Rows
      BY <2>1 DEF IInv, CopiesAccounted
    <3> QED BY <1>1, <1>3, <2>2, <2>3, <2>5, <3>1
  <2> QED BY <1>5, <2>6, <2>7, <2>8, <2>9 DEF IInv
<1> QED BY <1>6, <1>7


LEMMA TickStep == IInv /\ Tick => IInv'
<1> SUFFICES ASSUME IInv, Tick
             PROVE  IInv'
  OBVIOUS
<1>1. flush(outbox) /\ UNCHANGED <<accountVars, gmailVars, boundVars>> /\ lastId' = lastId
  BY DEF Tick
<1>2. outbox \in [DOMAIN outbox -> Row] /\ DOMAIN outbox = Rows /\ lastId \in 0 .. MaxRows
  BY DEF IInv, TypeOK, Rows
<1>3. Rows \subseteq 1 .. lastId
  BY DEF IInv, IdsGivenOut
<1>4. lastId' \in lastId .. MaxRows
  BY <1>1, <1>2, OutboxAssumption
<1> QED BY <1>1, <1>2, <1>3, <1>4, FlushStep

\* The table composeReady hands to flush.
LEMMA EnqueuedTable ==
    ASSUME IInv, NEW a \in Accounts, NEW wait \in Waits, lastId < MaxRows,
           lastId' = lastId + 1
    PROVE  LET table == enqueue(a, wait)
           IN  /\ table \in [DOMAIN table -> Row] /\ DOMAIN table = Rows \cup {lastId'}
               /\ lastId' \in lastId .. MaxRows /\ lastId' > lastId
               /\ lastId' \notin Rows
               /\ DOMAIN table \subseteq 1 .. lastId'
               /\ \A i \in Rows : table[i] = outbox[i]
<1> DEFINE new == [account |-> a, state |-> "queued", attempts |-> 0, wait |-> wait]
           table == enqueue(a, wait)
<1>1. lastId \in 0 .. MaxRows /\ Rows \subseteq 1 .. lastId /\ outbox \in [Rows -> Row]
  BY DEF IInv, TypeOK, IdsGivenOut
<1>2. new \in Row
  BY OutboxAssumption DEF Row
<1>3. lastId' \in lastId .. MaxRows /\ lastId' > lastId
  BY <1>1, OutboxAssumption
<1>4. lastId' \notin Rows /\ Rows \cup {lastId'} \subseteq 1 .. lastId'
  BY <1>1, <1>3
<1> HIDE DEF new
<1>5. table = [j \in Rows \cup {lastId'} |-> IF j = lastId' THEN new ELSE outbox[j]]
  BY DEF enqueue, WithRow, new
<1>6. table \in [Rows \cup {lastId'} -> Row]
  BY <1>1, <1>2, <1>5
<1>7. DOMAIN table = Rows \cup {lastId'}
  BY <1>5
<1>8. \A i \in Rows : table[i] = outbox[i]
  BY <1>4, <1>5
<1> QED BY <1>3, <1>4, <1>6, <1>7, <1>8

LEMMA ComposeStep ==
    ASSUME IInv, NEW a \in Accounts, composeReady(a)
    PROVE  IInv'
<1>1. /\ lastId < MaxRows /\ lastId' = lastId + 1
      /\ UNCHANGED <<accountVars, gmailVars, boundVars>>
  BY DEF composeReady
<1>2. CASE flush(enqueue(a, "due"))
  <2> DEFINE table == enqueue(a, "due")
  <2>1. "due" \in Waits
    BY DEF Waits
  <2>2. /\ table \in [DOMAIN table -> Row] /\ DOMAIN table = Rows \cup {lastId'}
        /\ lastId' \in lastId .. MaxRows /\ lastId' > lastId
        /\ DOMAIN table \subseteq 1 .. lastId'
        /\ \A i \in Rows : table[i] = outbox[i]
    BY <1>1, <2>1, EnqueuedTable
  <2> HIDE DEF table
  <2>3. flush(table)
    BY <1>2 DEF table
  <2> QED BY <1>1, <2>2, <2>3, FlushStep
<1>3. CASE outbox' = enqueue(a, "scheduled") /\ UNCHANGED batchVars
  <2> DEFINE table == enqueue(a, "scheduled")
  <2>1. "scheduled" \in Waits
    BY DEF Waits
  <2>2. /\ table \in [DOMAIN table -> Row] /\ DOMAIN table = Rows \cup {lastId'}
        /\ lastId' \in lastId .. MaxRows /\ lastId' > lastId /\ lastId' \notin Rows
        /\ DOMAIN table \subseteq 1 .. lastId'
        /\ \A i \in Rows : table[i] = outbox[i]
    BY <1>1, <2>1, EnqueuedTable
  <2> HIDE DEF table
  <2>3. outbox' = table
    BY <1>3 DEF table
  <2>4. Rows' = Rows \cup {lastId'}
    BY <2>2, <2>3 DEF Rows
  <2>5. lastId \in 0 .. MaxRows /\ lastId' \in 0 .. MaxRows /\ Rows' \subseteq Ids
    <3>1. lastId \in 0 .. MaxRows
      BY DEF IInv, TypeOK
    <3>2. lastId' \in 0 .. MaxRows
      BY <2>2, <3>1, OutboxAssumption
    <3> QED BY <2>2, <2>4, <3>1, <3>2, OutboxAssumption DEF Ids
  <2>6. TypeOK'
    BY <1>1, <1>3, <2>2, <2>3, <2>4, <2>5
       DEF IInv, TypeOK, accountVars, gmailVars, boundVars, batchVars, Rows
  <2>7. \A c \in calls : c.id \in 1 .. lastId /\ c.id # lastId'
    BY <2>2, <2>5 DEF IInv, IdsGivenOut
  <2>8. IdsGivenOut' /\ OneCallPerRow'
    BY <1>3, <2>2, <2>3, <2>4, <2>5, <2>7 DEF IInv, IdsGivenOut, OneCallPerRow, batchVars
  <2>9. BatchFinite' /\ BatchCounted' /\ NoBlindResend'
    BY <1>1, <1>3 DEF IInv, BatchFinite, BatchCounted, NoBlindResend, accountVars, gmailVars, batchVars
  <2>10. CopiesAccounted'
    <3> SUFFICES ASSUME NEW i \in Ids, accepted[i] = lost[i] + 1,
                        ~ \E c \in calls : c.id = i /\ c.at = "accepted"
                 PROVE  i \in (1 .. lastId') \ Rows' /\ \A c \in calls : c.id # i
      BY <1>1, <1>3 DEF CopiesAccounted, gmailVars, batchVars
    <3>1. i \in (1 .. lastId) \ Rows /\ \A c \in calls : c.id # i
      BY DEF IInv, CopiesAccounted
    <3> QED BY <2>2, <2>4, <2>5, <3>1
  <2> QED BY <2>6, <2>8, <2>9, <2>10 DEF IInv
<1> QED BY <1>2, <1>3 DEF composeReady


LEMMA SignInOutStep ==
    ASSUME IInv, NEW a \in Accounts, signOut(a) \/ signIn(a)
    PROVE  IInv'
<1>1. UNCHANGED <<accounts, doomed, tableVars, batchVars, gmailVars, faults, removals, crashes>>
  BY DEF signOut, signIn, boundVars
<1>2. signedIn' \subseteq accounts /\ signOuts' \in Nat
  BY DEF signOut, signIn, boundVars, IInv, TypeOK
<1>3. Rows' = Rows
  BY <1>1 DEF Rows, tableVars
<1>4. TypeOK'
  BY <1>1, <1>2, <1>3 DEF IInv, TypeOK, tableVars, batchVars, gmailVars
<1>5. IdsGivenOut' /\ BatchFinite' /\ OneCallPerRow' /\ BatchCounted' /\ NoBlindResend'
  BY <1>1, <1>3 DEF IInv, IdsGivenOut, BatchFinite, OneCallPerRow, BatchCounted, NoBlindResend,
                    tableVars, batchVars, gmailVars
<1>6. CopiesAccounted'
  BY <1>1, <1>3 DEF IInv, CopiesAccounted, tableVars, batchVars, gmailVars
<1> QED BY <1>4, <1>5, <1>6 DEF IInv

LEMMA ElapseStep ==
    ASSUME IInv, NEW i \in Ids, Elapse(i)
    PROVE  IInv'
<1>1. /\ i \in Rows /\ outbox' = [outbox EXCEPT ![i].wait = "due"]
      /\ UNCHANGED <<accountVars, lastId, batchVars, gmailVars, boundVars>>
  BY DEF Elapse
<1>2. outbox \in [Rows -> Row] /\ Rows = DOMAIN outbox
  BY DEF IInv, TypeOK, Rows
<1>3. Rows' = Rows
  BY <1>1, <1>2 DEF Rows
<1>4. [outbox[i] EXCEPT !.wait = "due"] \in Row
  <2>1. outbox[i] \in Row
    BY <1>1, <1>2
  <2> QED BY <2>1 DEF Row, Waits
<1>5. outbox' \in [Rows' -> Row] /\ \A j \in Rows : outbox'[j].state = outbox[j].state
  <2>1. outbox'[i] = [outbox[i] EXCEPT !.wait = "due"]
    BY <1>1, <1>2
  <2>2. outbox' \in [Rows' -> Row]
    BY <1>1, <1>2, <1>3, <1>4
  <2>3. outbox[i] \in Row
    BY <1>1, <1>2
  <2>4. outbox'[i].state = outbox[i].state
    BY <2>1, <2>3 DEF Row
  <2>5. \A j \in Rows \ {i} : outbox'[j] = outbox[j]
    BY <1>1, <1>2
  <2> QED BY <2>2, <2>4, <2>5
<1>6. TypeOK'
  BY <1>1, <1>3, <1>5 DEF IInv, TypeOK, accountVars, batchVars, gmailVars, boundVars
<1>7. IdsGivenOut' /\ BatchFinite' /\ OneCallPerRow' /\ BatchCounted' /\ NoBlindResend'
  BY <1>1, <1>3, <1>5 DEF IInv, IdsGivenOut, BatchFinite, OneCallPerRow, BatchCounted,
                          NoBlindResend, accountVars, batchVars, gmailVars
<1>8. CopiesAccounted'
  BY <1>1, <1>3 DEF IInv, CopiesAccounted, batchVars, gmailVars
<1> QED BY <1>6, <1>7, <1>8 DEF IInv

\* Rows go with the account, or with its local data; calls stay.
LEMMA RemovalStep ==
    ASSUME IInv, NEW a \in Accounts, dropCache(a) \/ removeAccount(a)
    PROVE  IInv'
<1>1. /\ outbox' = WithoutRows(RowsOf(a)) /\ removals' = removals + 1
      /\ UNCHANGED <<signedIn, lastId, batchVars, gmailVars, faults, signOuts, crashes>>
  BY DEF dropCache, removeAccount, accountVars
<1>2. TypeOK
  BY DEF IInv
<1>3. /\ Rows' = Rows \ RowsOf(a) /\ outbox' \in [Rows' -> Row]
      /\ \A j \in Rows' : outbox'[j] = outbox[j]
  BY <1>1, <1>2, RowsTakenOut
<1>4. /\ accounts' \subseteq Accounts /\ doomed' \subseteq Accounts /\ signedIn \subseteq accounts'
      /\ (doomed \cap accounts)' = {}
      /\ accounts' = Accounts => accounts = Accounts
  <2>1. CASE dropCache(a)
    BY <2>1 DEF dropCache, accountVars, IInv, TypeOK, BatchFinite
  <2>2. CASE removeAccount(a)
    BY <2>2 DEF removeAccount, IInv, TypeOK, BatchFinite
  <2> QED BY <2>1, <2>2
<1>5. TypeOK'
  BY <1>1, <1>2, <1>3, <1>4 DEF TypeOK, batchVars, gmailVars
<1>6. IdsGivenOut' /\ OneCallPerRow'
  BY <1>1, <1>3 DEF IInv, IdsGivenOut, OneCallPerRow, batchVars
<1>7. BatchFinite' /\ BatchCounted' /\ NoBlindResend'
  BY <1>1, <1>4 DEF IInv, BatchFinite, BatchCounted, NoBlindResend, batchVars, gmailVars
<1>8. CopiesAccounted'
  BY <1>1, <1>3 DEF IInv, CopiesAccounted, batchVars, gmailVars
<1> QED BY <1>5, <1>6, <1>7, <1>8 DEF IInv

\* Calls are dropped, and what Gmail had of them counts as lost.
LEMMA CopiesAfterDrop ==
    ASSUME IInv, NEW C \in SUBSET calls, lost' = Unheard(C), accepted' = accepted,
           calls' = calls \ C, Rows' = Rows, lastId' = lastId
    PROVE  NoBlindResend' /\ CopiesAccounted' /\ lost' \in [Ids -> Nat]
<1>1. \A i \in Ids : accepted[i] \in Nat /\ lost[i] \in Nat
  BY DEF IInv, TypeOK
<1>2. \A i \in Ids : lost'[i] = IF \E c \in C : c.id = i /\ c.at = "accepted"
                                THEN lost[i] + 1 ELSE lost[i]
  BY CopiesUnheard
<1>3. lost' \in [Ids -> Nat]
  <2>1. \A i \in Ids : lost'[i] \in Nat
    BY <1>1, <1>2
  <2>2. lost' = [i \in Ids |-> lost[i] + Cardinality({c \in C : c.id = i /\ c.at = "accepted"})]
    BY DEF Unheard
  <2> QED BY <2>1, <2>2
<1>4. NoBlindResend'
  BY <1>1, <1>2 DEF IInv, NoBlindResend
<1>5. CopiesAccounted'
  <2> SUFFICES ASSUME NEW i \in Ids, accepted[i] = lost'[i] + 1,
                      ~ \E c \in calls' : c.id = i /\ c.at = "accepted"
               PROVE  i \in (1 .. lastId) \ Rows /\ \A c \in calls' : c.id # i
    BY DEF CopiesAccounted
  <2>1. ~ \E c \in C : c.id = i /\ c.at = "accepted"
    BY <1>1, <1>2 DEF IInv, NoBlindResend
  <2>2. accepted[i] = lost[i] + 1 /\ ~ \E c \in calls : c.id = i /\ c.at = "accepted"
    BY <1>2, <2>1
  <2>3. i \in (1 .. lastId) \ Rows /\ \A c \in calls : c.id # i
    BY <2>2 DEF IInv, CopiesAccounted
  <2> QED BY <2>3
<1> QED BY <1>3, <1>4, <1>5

LEMMA DestroyStep ==
    ASSUME IInv, NEW a \in Accounts, destroyContext(a)
    PROVE  IInv'
<1> DEFINE dropped == {c \in calls : c.account = a}
<1>1. /\ a \in doomed /\ doomed' = doomed \ {a}
      /\ calls' = calls \ dropped /\ lost' = Unheard(dropped)
      /\ UNCHANGED <<accounts, signedIn, tableVars, busy, remaining, accepted, boundVars>>
  BY DEF destroyContext
<1>2. Rows' = Rows
  BY <1>1 DEF Rows, tableVars
<1>3. NoBlindResend' /\ CopiesAccounted' /\ lost' \in [Ids -> Nat]
  BY <1>1, <1>2, CopiesAfterDrop DEF tableVars
<1>4. accounts # Accounts
  BY <1>1 DEF IInv, BatchFinite, TypeOK
<1>5. TypeOK'
  BY <1>1, <1>2, <1>3 DEF IInv, TypeOK, tableVars, boundVars
<1>6. IdsGivenOut' /\ OneCallPerRow'
  BY <1>1, <1>2 DEF IInv, IdsGivenOut, OneCallPerRow, tableVars
<1>7. IsFiniteSet(calls') /\ Cardinality(calls') <= Cardinality(calls)
  BY <1>1, FS_Subset DEF IInv, BatchFinite
<1>8. BatchFinite' /\ BatchCounted'
  <2>1. IsFiniteSet(calls) /\ remaining \in Nat /\ remaining >= Cardinality(calls)
    BY DEF IInv, BatchFinite, TypeOK, BatchCounted
  <2>2. Cardinality(calls) \in Nat /\ Cardinality(calls') \in Nat
    BY <1>7, <2>1, FS_CardinalityType
  <2>3. remaining >= Cardinality(calls')
    BY <1>7, <2>1, <2>2
  <2> QED BY <1>1, <1>4, <1>7, <2>3 DEF IInv, BatchFinite, BatchCounted
<1> QED BY <1>3, <1>5, <1>6, <1>8 DEF IInv

LEMMA CrashStep == IInv /\ Crash => IInv'
<1> SUFFICES ASSUME IInv, Crash
             PROVE  IInv'
  OBVIOUS
<1>1. /\ doomed' = {} /\ busy' = FALSE /\ remaining' = 0 /\ calls' = {}
      /\ crashes' = crashes + 1 /\ lost' = Unheard(calls)
      /\ UNCHANGED <<accounts, signedIn, tableVars, accepted, faults, signOuts, removals>>
  BY DEF Crash
<1>2. Rows' = Rows
  BY <1>1 DEF Rows, tableVars
<1>3. NoBlindResend' /\ CopiesAccounted' /\ lost' \in [Ids -> Nat]
  BY <1>1, <1>2, CopiesAfterDrop DEF tableVars
<1>4. TypeOK'
  <2>1. /\ doomed' \subseteq Accounts /\ busy' \in BOOLEAN /\ remaining' \in Nat
        /\ calls' \subseteq Call
    BY <1>1
  <2>2. crashes' \in Nat
    BY <1>1 DEF IInv, TypeOK
  <2>3. /\ UNCHANGED <<accounts, signedIn, outbox, lastId, accepted, faults, signOuts, removals>>
        /\ TypeOK
    BY <1>1 DEF IInv, tableVars
  <2> QED BY <1>2, <1>3, <2>1, <2>2, <2>3 DEF TypeOK
<1>5. IsFiniteSet(calls') /\ Cardinality(calls') = 0
  BY <1>1, FS_EmptySet
<1>6. IdsGivenOut' /\ OneCallPerRow' /\ BatchFinite' /\ BatchCounted'
  BY <1>1, <1>2, <1>5 DEF IInv, IdsGivenOut, OneCallPerRow, BatchFinite, BatchCounted, tableVars
<1> QED BY <1>3, <1>4, <1>6 DEF IInv


-----------------------------------------------------------------------------
(* A call on its way, and its callback.                                    *)

\* A call that moves on keeps its mail.
LEMMA MovedCall ==
    ASSUME IInv, NEW c \in calls, NEW at \in {"sent", "accepted"},
           calls' = (calls \ {c}) \cup {[c EXCEPT !.at = at]}, c.at # at,
           UNCHANGED <<accountVars, tableVars, busy, remaining>>
    PROVE  /\ IdsGivenOut' /\ OneCallPerRow' /\ BatchFinite' /\ BatchCounted'
           /\ calls' \subseteq Call /\ Rows' = Rows
<1> DEFINE d == [c EXCEPT !.at = at]
<1>1. c \in Call
  BY DEF IInv, TypeOK
<1>2. d \in Call /\ d.id = c.id /\ d.at = at
  BY <1>1 DEF Call
<1> HIDE DEF d
<1>3. calls' = (calls \ {c}) \cup {d}
  BY DEF d
<1>4. \A b \in calls \ {c} : b.id # c.id
  BY DEF IInv, OneCallPerRow
<1>5. Rows' = Rows /\ outbox' = outbox /\ lastId' = lastId
  BY DEF Rows, tableVars
<1>6. IdsGivenOut' /\ OneCallPerRow'
  BY <1>2, <1>3, <1>4, <1>5 DEF IInv, IdsGivenOut, OneCallPerRow
<1>7. IsFiniteSet(calls') /\ Cardinality(calls') = Cardinality(calls)
  <2>1. IsFiniteSet(calls)
    BY DEF IInv, BatchFinite
  <2>2. IsFiniteSet(calls \ {c}) /\ Cardinality(calls \ {c}) = Cardinality(calls) - 1
    BY <2>1, FS_RemoveElement
  <2>3. d \notin calls \ {c}
    BY <1>2, <1>4
  <2>4. IsFiniteSet(calls') /\ Cardinality(calls') = Cardinality(calls \ {c}) + 1
    BY <1>3, <2>2, <2>3, FS_AddElement
  <2>5. Cardinality(calls) \in Nat
    BY <2>1, FS_CardinalityType
  <2> QED BY <2>2, <2>4, <2>5
<1>8. BatchFinite' /\ BatchCounted'
  BY <1>7 DEF IInv, BatchFinite, BatchCounted, accountVars
<1>9. calls' \subseteq Call
  BY <1>2, <1>3 DEF IInv, TypeOK
<1> QED BY <1>5, <1>6, <1>8, <1>9

LEMMA SendStep ==
    ASSUME IInv, NEW c \in calls, sendRaw(c)
    PROVE  IInv'
<1>1. /\ c.at = "posted" /\ calls' = (calls \ {c}) \cup {[c EXCEPT !.at = "sent"]}
      /\ UNCHANGED <<accountVars, tableVars, busy, remaining, gmailVars, boundVars>>
  BY DEF sendRaw
<1>2. /\ IdsGivenOut' /\ OneCallPerRow' /\ BatchFinite' /\ BatchCounted'
      /\ calls' \subseteq Call /\ Rows' = Rows
  BY <1>1, MovedCall
<1>3. TypeOK' /\ NoBlindResend'
  BY <1>1, <1>2 DEF IInv, TypeOK, NoBlindResend, accountVars, tableVars, gmailVars, boundVars
<1>4. CopiesAccounted'
  <2> SUFFICES ASSUME NEW i \in Ids, accepted[i] = lost[i] + 1
               PROVE  \/ \E b \in calls' : b.id = i /\ b.at = "accepted"
                      \/ i \in (1 .. lastId) \ Rows /\ \A b \in calls' : b.id # i
    BY <1>1, <1>2 DEF CopiesAccounted, tableVars, gmailVars
  <2>1. CASE \E b \in calls : b.id = i /\ b.at = "accepted"
    BY <1>1, <2>1
  <2>2. CASE i \in (1 .. lastId) \ Rows /\ \A b \in calls : b.id # i
    <3>1. [c EXCEPT !.at = "sent"].id = c.id
      BY DEF IInv, TypeOK, Call
    <3> QED BY <1>1, <2>2, <3>1
  <2> QED BY <2>1, <2>2 DEF IInv, CopiesAccounted
<1> QED BY <1>2, <1>3, <1>4 DEF IInv

\* Before Gmail accepts a mail it has no copy the program could still hear of.
LEMMA AcceptStep ==
    ASSUME IInv, NEW c \in calls, Accept(c)
    PROVE  IInv'
<1>1. /\ c.at = "sent" /\ calls' = (calls \ {c}) \cup {[c EXCEPT !.at = "accepted"]}
      /\ accepted' = [accepted EXCEPT ![c.id] = @ + 1]
      /\ UNCHANGED <<accountVars, tableVars, busy, remaining, lost, boundVars>>
  BY DEF Accept
<1>2. /\ IdsGivenOut' /\ OneCallPerRow' /\ BatchFinite' /\ BatchCounted'
      /\ calls' \subseteq Call /\ Rows' = Rows
  BY <1>1, MovedCall
<1>3. /\ c.id \in Ids /\ [c EXCEPT !.at = "accepted"].id = c.id
      /\ [c EXCEPT !.at = "accepted"].at = "accepted"
  BY DEF IInv, TypeOK, Call
<1>4. \A i \in Ids : accepted[i] \in Nat /\ lost[i] \in Nat /\ accepted[i] <= lost[i] + 1
  BY DEF IInv, TypeOK, NoBlindResend
<1>5. accepted' \in [Ids -> Nat] /\ accepted'[c.id] = accepted[c.id] + 1
      /\ \A i \in Ids \ {c.id} : accepted'[i] = accepted[i]
  BY <1>1, <1>3, <1>4 DEF IInv, TypeOK
<1>6. TypeOK'
  BY <1>1, <1>2, <1>5 DEF IInv, TypeOK, accountVars, tableVars, boundVars
<1>7. accepted[c.id] # lost[c.id] + 1
  BY <1>1, <1>3 DEF IInv, CopiesAccounted, OneCallPerRow
<1>8. NoBlindResend'
  BY <1>1, <1>3, <1>4, <1>5, <1>7 DEF NoBlindResend
<1>9. CopiesAccounted'
  <2> SUFFICES ASSUME NEW i \in Ids, accepted'[i] = lost[i] + 1
               PROVE  \/ \E b \in calls' : b.id = i /\ b.at = "accepted"
                      \/ i \in (1 .. lastId) \ Rows /\ \A b \in calls' : b.id # i
    BY <1>1, <1>2 DEF CopiesAccounted, tableVars
  <2>1. CASE i = c.id
    BY <1>1, <1>3, <2>1
  <2>2. CASE i # c.id
    <3>1. \/ \E b \in calls : b.id = i /\ b.at = "accepted"
          \/ i \in (1 .. lastId) \ Rows /\ \A b \in calls : b.id # i
      BY <1>5, <2>2 DEF IInv, CopiesAccounted
    <3> QED BY <1>1, <1>3, <2>2, <3>1
  <2> QED BY <2>1, <2>2
<1> QED BY <1>2, <1>6, <1>8, <1>9 DEF IInv


\* The copy that is sent again is lost sight of, and Gmail has no other to report.
LEMMA ResentStep ==
    ASSUME IInv, NEW c \in calls, Resent(c)
    PROVE  IInv'
<1>1. /\ c.at = "accepted" /\ calls' = (calls \ {c}) \cup {[c EXCEPT !.at = "sent"]}
      /\ lost' = [lost EXCEPT ![c.id] = @ + 1] /\ faults' = faults + 1
      /\ UNCHANGED <<accountVars, tableVars, busy, remaining, accepted, signOuts, removals, crashes>>
  BY DEF Resent, Fault
<1>2. /\ IdsGivenOut' /\ OneCallPerRow' /\ BatchFinite' /\ BatchCounted'
      /\ calls' \subseteq Call /\ Rows' = Rows
  BY <1>1, MovedCall
<1>3. c.id \in Ids /\ [c EXCEPT !.at = "sent"].id = c.id
  BY DEF IInv, TypeOK, Call
<1>4. \A i \in Ids : accepted[i] \in Nat /\ lost[i] \in Nat /\ accepted[i] <= lost[i] + 1
  BY DEF IInv, TypeOK, NoBlindResend
<1>5. /\ lost' \in [Ids -> Nat]
      /\ \A i \in Ids : lost'[i] = IF i = c.id THEN lost[i] + 1 ELSE lost[i]
  BY <1>1, <1>3, <1>4 DEF IInv, TypeOK
<1>6. TypeOK'
  BY <1>1, <1>2, <1>5 DEF IInv, TypeOK, accountVars, tableVars
<1>7. NoBlindResend'
  BY <1>1, <1>4, <1>5 DEF NoBlindResend
<1>8. CopiesAccounted'
  <2> SUFFICES ASSUME NEW i \in Ids, accepted[i] = lost'[i] + 1
               PROVE  \/ \E b \in calls' : b.id = i /\ b.at = "accepted"
                      \/ i \in (1 .. lastId) \ Rows /\ \A b \in calls' : b.id # i
    BY <1>1, <1>2 DEF CopiesAccounted, tableVars
  <2>1. i # c.id /\ accepted[i] = lost[i] + 1
    BY <1>4, <1>5
  <2>2. \/ \E b \in calls : b.id = i /\ b.at = "accepted"
        \/ i \in (1 .. lastId) \ Rows /\ \A b \in calls : b.id # i
    BY <2>1 DEF IInv, CopiesAccounted
  <2> QED BY <1>1, <1>3, <2>1, <2>2
<1> QED BY <1>2, <1>6, <1>7, <1>8 DEF IInv

LEMMA SentStep ==
    ASSUME IInv, NEW c \in calls, itemSent(c)
    PROVE  IInv'
<1>1. /\ c.at = "accepted" /\ outbox' = WithoutRows({c.id}) /\ onDone(c)
      /\ UNCHANGED <<accountVars, lastId, gmailVars, boundVars>>
  BY DEF itemSent, markSent
<1>2. /\ calls' = calls \ {c} /\ IsFiniteSet(calls')
      /\ remaining' \in Nat /\ busy' \in BOOLEAN /\ (busy' <=> remaining' > 0)
      /\ remaining' >= Cardinality(calls')
      /\ remaining = Cardinality(calls) => remaining' = Cardinality(calls')
  BY <1>1, EndOfCall
<1>3. /\ Rows' = Rows \ {c.id} /\ outbox' \in [Rows' -> Row]
      /\ \A j \in Rows' : outbox'[j] = outbox[j]
  BY <1>1, RowsTakenOut DEF IInv
<1>4. TypeOK'
  BY <1>1, <1>2, <1>3 DEF IInv, TypeOK, accountVars, gmailVars, boundVars
<1>5. IdsGivenOut' /\ OneCallPerRow'
  BY <1>1, <1>2, <1>3 DEF IInv, IdsGivenOut, OneCallPerRow
<1>6. BatchFinite' /\ BatchCounted' /\ NoBlindResend'
  BY <1>1, <1>2 DEF IInv, BatchFinite, BatchCounted, NoBlindResend, accountVars, gmailVars
<1>7. CopiesAccounted'
  <2> SUFFICES ASSUME NEW i \in Ids, accepted[i] = lost[i] + 1
               PROVE  \/ \E b \in calls' : b.id = i /\ b.at = "accepted"
                      \/ i \in (1 .. lastId) \ Rows' /\ \A b \in calls' : b.id # i
    BY <1>1 DEF CopiesAccounted, gmailVars
  <2>1. CASE i = c.id
    BY <1>2, <1>3, <2>1 DEF IInv, OneCallPerRow, IdsGivenOut
  <2>2. CASE i # c.id
    BY <1>2, <1>3, <2>2 DEF IInv, CopiesAccounted
  <2> QED BY <2>1, <2>2
<1> QED BY <1>4, <1>5, <1>6, <1>7 DEF IInv

\* A failed attempt, whether or not Gmail has the mail.
LEMMA FailedStep ==
    ASSUME IInv, NEW c \in calls, itemFailed(c), faults' \in Nat,
           UNCHANGED <<signOuts, removals, crashes>>,
           lost' = IF c.at = "accepted" THEN [lost EXCEPT ![c.id] = @ + 1] ELSE lost
    PROVE  IInv'
<1> DEFINE wait == IF c.attempt >= kMaxAttempts THEN "parked" ELSE "backoff"
<1>1. /\ markFailed(c.id, wait) /\ onDone(c)
      /\ UNCHANGED <<accountVars, lastId, accepted>>
  BY DEF itemFailed
<1>2. c.id \in Ids /\ wait \in Waits
  BY DEF IInv, TypeOK, Call, Waits
<1>3. /\ calls' = calls \ {c} /\ IsFiniteSet(calls')
      /\ remaining' \in Nat /\ busy' \in BOOLEAN /\ (busy' <=> remaining' > 0)
      /\ remaining' >= Cardinality(calls')
      /\ remaining = Cardinality(calls) => remaining' = Cardinality(calls')
  BY <1>1, EndOfCall
<1> HIDE DEF wait
<1>4. /\ Rows' = Rows /\ outbox' \in [Rows' -> Row]
      /\ \A j \in Rows \ {c.id} : outbox'[j] = outbox[j]
  BY <1>1, <1>2, FailedRow DEF IInv
<1>5. \A i \in Ids : accepted[i] \in Nat /\ lost[i] \in Nat /\ accepted[i] <= lost[i] + 1
  BY DEF IInv, TypeOK, NoBlindResend
<1>6. /\ lost' \in [Ids -> Nat]
      /\ \A i \in Ids : lost'[i] = IF i = c.id /\ c.at = "accepted" THEN lost[i] + 1 ELSE lost[i]
  BY <1>2, <1>5 DEF IInv, TypeOK
<1>7. TypeOK'
  BY <1>1, <1>3, <1>4, <1>6 DEF IInv, TypeOK, accountVars
<1>8. \A b \in calls' : b.id # c.id
  BY <1>3 DEF IInv, OneCallPerRow
<1>9. IdsGivenOut' /\ OneCallPerRow'
  BY <1>1, <1>3, <1>4, <1>8 DEF IInv, IdsGivenOut, OneCallPerRow
<1>10. BatchFinite' /\ BatchCounted'
  BY <1>1, <1>3 DEF IInv, BatchFinite, BatchCounted, accountVars
<1>11. NoBlindResend'
  BY <1>1, <1>5, <1>6 DEF NoBlindResend
<1>12. CopiesAccounted'
  <2> SUFFICES ASSUME NEW i \in Ids, accepted[i] = lost'[i] + 1
               PROVE  \/ \E b \in calls' : b.id = i /\ b.at = "accepted"
                      \/ i \in (1 .. lastId) \ Rows /\ \A b \in calls' : b.id # i
    BY <1>1, <1>4 DEF CopiesAccounted
  <2>1. ~ (i = c.id /\ c.at = "accepted")
    BY <1>5, <1>6
  <2>2. accepted[i] = lost[i] + 1
    BY <1>6, <2>1
  <2>3. CASE \E b \in calls : b.id = i /\ b.at = "accepted"
    BY <1>3, <2>1, <2>3
  <2>4. CASE i \in (1 .. lastId) \ Rows /\ \A b \in calls : b.id # i
    BY <1>3, <2>4
  <2> QED BY <2>2, <2>3, <2>4 DEF IInv, CopiesAccounted
<1> QED BY <1>7, <1>9, <1>10, <1>11, <1>12 DEF IInv

LEMMA CallbackStep ==
    ASSUME IInv, NEW c \in calls, Callback(c)
    PROVE  IInv'
<1>1. TypeOK
  BY DEF IInv
<1>2. CASE itemSent(c)
  BY <1>2, SentStep
<1>3. CASE NoToken(c)
  <2>1. faults' \in Nat /\ UNCHANGED <<signOuts, removals, crashes>>
    BY <1>1, <1>3 DEF NoToken, boundVars, TypeOK
  <2>2. itemFailed(c) /\ lost' = lost /\ c.at # "accepted"
    BY <1>3 DEF NoToken
  <2> QED BY <2>1, <2>2, FailedStep
<1>4. CASE Refused(c)
  <2>1. faults' \in Nat /\ UNCHANGED <<signOuts, removals, crashes>>
    BY <1>1, <1>4 DEF Refused, Fault, TypeOK
  <2>2. itemFailed(c) /\ lost' = lost /\ c.at # "accepted"
    BY <1>4 DEF Refused
  <2> QED BY <2>1, <2>2, FailedStep
<1>5. CASE ReplyLost(c)
  <2>1. faults' \in Nat /\ UNCHANGED <<signOuts, removals, crashes>>
    BY <1>1, <1>5 DEF ReplyLost, Fault, TypeOK
  <2>2. itemFailed(c) /\ c.at = "accepted" /\ lost' = [lost EXCEPT ![c.id] = @ + 1]
    BY <1>5 DEF ReplyLost
  <2> QED BY <2>1, <2>2, FailedStep
<1> QED BY <1>2, <1>3, <1>4, <1>5 DEF Callback

-----------------------------------------------------------------------------
(* The theorems.                                                           *)

LEMMA NextIInv == IInv /\ [Next]_vars => IInv'
<1> SUFFICES ASSUME IInv, [Next]_vars
             PROVE  IInv'
  OBVIOUS
<1>1. CASE UNCHANGED vars
  <2>1. UNCHANGED <<accountVars, tableVars, batchVars, gmailVars, boundVars>> /\ Rows' = Rows
    BY <1>1 DEF vars, Rows, tableVars
  <2> QED BY <2>1 DEF IInv, TypeOK, IdsGivenOut, BatchFinite, OneCallPerRow, BatchCounted,
                      NoBlindResend, CopiesAccounted,
                      accountVars, tableVars, batchVars, gmailVars, boundVars
<1>2. CASE User
  BY <1>2, ComposeStep, SignInOutStep, RemovalStep DEF User
<1>3. CASE \E i \in Ids : Elapse(i)
  BY <1>3, ElapseStep
<1>4. CASE \E a \in Accounts : destroyContext(a)
  BY <1>4, DestroyStep
<1>5. CASE Tick
  BY <1>5, TickStep
<1>6. CASE \E c \in calls : sendRaw(c) \/ Accept(c) \/ Resent(c) \/ Callback(c)
  BY <1>6, SendStep, AcceptStep, ResentStep, CallbackStep
<1>7. CASE Crash
  BY <1>7, CrashStep
<1> QED BY <1>1, <1>2, <1>3, <1>4, <1>5, <1>6, <1>7 DEF Next

\* The invariant holds of every reachable state.
THEOREM IInvAlways == Spec => []IInv
<1> QED BY InitIInv, NextIInv, PTL DEF Spec

\* OutboxWorker's variables keep their types: in particular the countdown of
\* flush's onDone never goes below zero.
THEOREM TypeOKAlways == Spec => []TypeOK
<1>1. IInv => TypeOK
  BY DEF IInv
<1> QED BY <1>1, IInvAlways, PTL

\* markSending is enough to keep one mail out of two calls, however ticks, new
\* mail, removals and crashes interleave.
THEOREM OneCallPerRowAlways == Spec => []OneCallPerRow
<1>1. IInv => OneCallPerRow
  BY DEF IInv
<1> QED BY <1>1, IInvAlways, PTL

\* The worker's batch count is exact until an account is removed, and never
\* below the calls that are out.
THEOREM BatchCountedAlways == Spec => []BatchCounted
<1>1. IInv => BatchCounted
  BY DEF IInv
<1> QED BY <1>1, IInvAlways, PTL

\* A recipient gets a second copy of a mail only if the reply to the first was
\* lost.
THEOREM NoBlindResendAlways == Spec => []NoBlindResend
<1>1. IInv => NoBlindResend
  BY DEF IInv
<1> QED BY <1>1, IInvAlways, PTL


-----------------------------------------------------------------------------
(* Mail is not dropped.                                                    *)

\* A call whose mail Gmail has accepted is counted.
AcceptedCounted == \A c \in calls : c.at = "accepted" => accepted[c.id] > 0

\* What a flush adds to the calls is posted, and it takes no row away.
LEMMA FlushKeeps ==
    ASSUME NEW table, flush(table)
    PROVE  /\ \A c \in calls' : c \in calls \/ c.at = "posted"
           /\ Rows' = DOMAIN table
<1>1. CASE busy \/ dueForSendAllAccounts(table) = {}
  BY <1>1 DEF flush, batchVars, Rows
<1>2. CASE ~ (busy \/ dueForSendAllAccounts(table) = {})
  <2> DEFINE items == dueForSendAllAccounts(table)
  <2>1. outbox' = markSending(table, items)
        /\ calls' = calls \cup {NewCall(table, i) : i \in items}
    BY <1>2 DEF flush
  <2>2. Rows' = DOMAIN table
    BY <2>1 DEF markSending, Rows
  <2>3. \A i \in items : NewCall(table, i).at = "posted"
    BY DEF NewCall
  <2> HIDE DEF items
  <2>4. \A c \in calls' : c \in calls \/ c.at = "posted"
    BY <2>1, <2>3
  <2> QED BY <2>2, <2>4
<1> QED BY <1>1, <1>2

LEMMA EnqueueKeeps ==
    ASSUME NEW a, NEW wait
    PROVE  Rows \subseteq DOMAIN enqueue(a, wait)
BY DEF enqueue, WithRow

LEMMA AcceptedCountedStep ==
    IInv /\ AcceptedCounted /\ [Next]_vars => AcceptedCounted'
<1> SUFFICES ASSUME IInv, AcceptedCounted, [Next]_vars
             PROVE  AcceptedCounted'
  OBVIOUS
<1>1. \A c \in calls : c \in Call /\ c.id \in Ids
  BY DEF IInv, TypeOK, Call
<1>2. accepted \in [Ids -> Nat]
  BY DEF IInv, TypeOK
<1>3. ASSUME accepted' = accepted, \A c \in calls' : c \in calls \/ c.at = "posted"
      PROVE  AcceptedCounted'
  BY <1>3 DEF AcceptedCounted
<1>4. CASE UNCHANGED vars
  BY <1>3, <1>4 DEF vars, gmailVars, batchVars
<1>5. CASE User
  <2>1. PICK a \in Accounts : \/ composeReady(a)
                              \/ signOut(a) \/ signIn(a) \/ dropCache(a) \/ removeAccount(a)
    BY <1>5 DEF User
  <2>2. CASE composeReady(a)
    <3>1. accepted' = accepted /\ \A c \in calls' : c \in calls \/ c.at = "posted"
      BY <2>2, FlushKeeps DEF composeReady, gmailVars, batchVars
    <3> QED BY <1>3, <3>1
  <2>3. CASE signOut(a) \/ signIn(a) \/ dropCache(a) \/ removeAccount(a)
    <3>1. accepted' = accepted /\ calls' = calls
      BY <2>3 DEF signOut, signIn, dropCache, removeAccount, gmailVars, batchVars
    <3> QED BY <1>3, <3>1
  <2> QED BY <2>1, <2>2, <2>3
<1>6. CASE \E i \in Ids : Elapse(i)
  BY <1>3, <1>6 DEF Elapse, gmailVars, batchVars
<1>7. CASE \E a \in Accounts : destroyContext(a)
  BY <1>3, <1>7 DEF destroyContext
<1>8. CASE Tick
  <2>1. accepted' = accepted /\ \A c \in calls' : c \in calls \/ c.at = "posted"
    BY <1>8, FlushKeeps DEF Tick, gmailVars
  <2> QED BY <1>3, <2>1
<1>9. CASE \E c \in calls : sendRaw(c) \/ Resent(c)
  <2>1. PICK c \in calls : sendRaw(c) \/ Resent(c)
    BY <1>9
  <2>2. [c EXCEPT !.at = "sent"].at = "sent"
    BY <1>1 DEF Call
  <2>3. accepted' = accepted /\ calls' = (calls \ {c}) \cup {[c EXCEPT !.at = "sent"]}
    BY <2>1 DEF sendRaw, Resent, gmailVars
  <2> QED BY <2>2, <2>3 DEF AcceptedCounted
<1>10. CASE \E c \in calls : Accept(c)
  <2>1. PICK c \in calls : Accept(c)
    BY <1>10
  <2>2. [c EXCEPT !.at = "accepted"].id = c.id
    BY <1>1 DEF Call
  <2>3. accepted' = [accepted EXCEPT ![c.id] = accepted[c.id] + 1]
        /\ calls' = (calls \ {c}) \cup {[c EXCEPT !.at = "accepted"]}
    BY <2>1 DEF Accept
  <2>4. accepted'[c.id] > 0
    BY <1>1, <1>2, <2>3
  <2>5. \A i \in Ids \ {c.id} : accepted'[i] = accepted[i]
    BY <1>1, <1>2, <2>3
  <2> QED BY <1>1, <2>2, <2>3, <2>4, <2>5 DEF AcceptedCounted
<1>11. CASE \E c \in calls : Callback(c)
  <2>1. accepted' = accepted /\ calls' \subseteq calls
    BY <1>11 DEF Callback, itemSent, NoToken, Refused, ReplyLost, itemFailed, onDone, gmailVars
  <2> QED BY <1>3, <2>1
<1>12. CASE Crash
  BY <1>3, <1>12 DEF Crash
<1> QED BY <1>4, <1>5, <1>6, <1>7, <1>8, <1>9, <1>10, <1>11, <1>12 DEF Next

\* Only the callback of an accepted mail, or the user, takes a row away.
LEMMA RowsLeave ==
    ASSUME IInv, AcceptedCounted, [Next]_vars, NEW i \in Rows, i \notin Rows'
    PROVE  accepted[i] > 0 \/ removals' > removals
<1>1. TypeOK
  BY DEF IInv
<1>2. \A c \in calls : c.id \in Ids
  BY <1>1 DEF TypeOK, Call
<1>3. ~ UNCHANGED outbox
  BY DEF Rows
<1>4. CASE User
  <2>1. PICK a \in Accounts : \/ composeReady(a)
                              \/ signOut(a) \/ signIn(a) \/ dropCache(a) \/ removeAccount(a)
    BY <1>4 DEF User
  <2>2. CASE composeReady(a)
    <3>1. CASE flush(enqueue(a, "due"))
      BY <3>1, FlushKeeps, EnqueueKeeps
    <3>2. CASE outbox' = enqueue(a, "scheduled")
      <4>1. Rows' = DOMAIN enqueue(a, "scheduled")
        BY <3>2 DEF Rows
      <4> QED BY <4>1, EnqueueKeeps
    <3> QED BY <2>2, <3>1, <3>2 DEF composeReady
  <2>3. CASE signOut(a) \/ signIn(a)
    BY <1>3, <2>3 DEF signOut, signIn, tableVars
  <2>4. CASE dropCache(a) \/ removeAccount(a)
    BY <1>1, <2>4 DEF dropCache, removeAccount, TypeOK
  <2> QED BY <2>1, <2>2, <2>3, <2>4
<1>5. CASE \E j \in Ids : Elapse(j)
  BY <1>1, <1>5 DEF Elapse, TypeOK, Rows
<1>6. CASE Tick
  BY <1>6, FlushKeeps DEF Tick, Rows
<1>7. CASE \E c \in calls : itemSent(c)
  <2>1. PICK c \in calls : itemSent(c)
    BY <1>7
  <2>2. Rows' = Rows \ {c.id} /\ c.at = "accepted"
    BY <1>1, <2>1, RowsTakenOut DEF itemSent, markSent
  <2> QED BY <2>1, <2>2 DEF AcceptedCounted
<1>8. CASE \E c \in calls : NoToken(c) \/ Refused(c) \/ ReplyLost(c)
  <2>1. PICK c \in calls : itemFailed(c)
    BY <1>8 DEF NoToken, Refused, ReplyLost
  <2>2. Rows' = Rows
    BY <1>1, <1>2, <2>1, FailedRow DEF itemFailed, Waits
  <2> QED BY <2>2
<1>9. CASE \E c \in calls : sendRaw(c) \/ Accept(c) \/ Resent(c)
  BY <1>3, <1>9 DEF sendRaw, Accept, Resent, tableVars
<1>10. CASE (\E a \in Accounts : destroyContext(a)) \/ Crash \/ UNCHANGED vars
  BY <1>3, <1>10 DEF destroyContext, Crash, vars, tableVars
<1> QED BY <1>4, <1>5, <1>6, <1>7, <1>8, <1>9, <1>10 DEF Next, Callback

\* A mail leaves the outbox only when Gmail has it or the user removed it,
\* whatever fails and however often.
THEOREM NoMailDroppedAlways == Spec => NoMailDropped
<1>1. Init => AcceptedCounted
  BY DEF Init, AcceptedCounted
<1>2. Spec => []AcceptedCounted
  BY <1>1, InitIInv, NextIInv, AcceptedCountedStep, PTL DEF Spec
<1>3. IInv /\ AcceptedCounted /\ [Next]_vars =>
          [\A i \in Rows : i \notin DOMAIN outbox' => accepted[i] > 0 \/ removals' > removals]_vars
  <2>1. Rows' = DOMAIN outbox'
    BY DEF Rows
  <2> QED BY <2>1, RowsLeave
<1> QED BY <1>2, <1>3, IInvAlways, PTL DEF Spec, NoMailDropped


-----------------------------------------------------------------------------
(* The outbox implements OutgoingMail.                                     *)

\* What the program does not know of is what it lost sight of, and the one copy
\* a call is about to report.
CopiesExact ==
    /\ \A i \in Ids : lost[i] <= accepted[i]
    /\ \A c \in calls : c.at = "accepted" => accepted[c.id] = lost[c.id] + 1

\* No copy is unreported when Gmail takes the next one.
LEMMA AcceptExact ==
    ASSUME IInv, CopiesExact, NEW c \in calls, Accept(c)
    PROVE  accepted[c.id] = lost[c.id] /\ CopiesExact'
<1>1. /\ c.at = "sent" /\ calls' = (calls \ {c}) \cup {[c EXCEPT !.at = "accepted"]}
      /\ accepted' = [accepted EXCEPT ![c.id] = @ + 1] /\ lost' = lost
  BY DEF Accept
<1>2. c \in Call /\ c.id \in Ids /\ [c EXCEPT !.at = "accepted"].id = c.id
  BY DEF IInv, TypeOK, Call
<1>3. \A i \in Ids : accepted[i] \in Nat /\ lost[i] \in Nat
  BY DEF IInv, TypeOK
<1>4. accepted[c.id] # lost[c.id] + 1
  BY <1>1, <1>2 DEF IInv, CopiesAccounted, OneCallPerRow
<1>5. accepted[c.id] = lost[c.id]
  BY <1>2, <1>3, <1>4 DEF IInv, NoBlindResend, CopiesExact
<1>6. accepted'[c.id] = lost[c.id] + 1 /\ \A i \in Ids \ {c.id} : accepted'[i] = accepted[i]
  BY <1>1, <1>2, <1>5 DEF IInv, TypeOK
<1>7. \A b \in calls : b.id \in Ids /\ (b # c => b.id # c.id)
  BY DEF IInv, TypeOK, Call, OneCallPerRow
<1>8. \A i \in Ids : lost'[i] <= accepted'[i]
  BY <1>1, <1>3, <1>6 DEF CopiesExact
<1>9. \A b \in calls' : b.at = "accepted" => accepted'[b.id] = lost'[b.id] + 1
  BY <1>1, <1>2, <1>6, <1>7 DEF CopiesExact
<1> QED BY <1>5, <1>8, <1>9 DEF CopiesExact

\* A reply that is lost, or a mail that is sent again, leaves one copy more unheard and no
\* call about to report it.
LEMMA LostExact ==
    ASSUME IInv, CopiesExact, NEW c \in calls, c.at = "accepted", accepted' = accepted,
           lost' = [lost EXCEPT ![c.id] = @ + 1],
           \A b \in calls' : b \in calls \ {c} \/ b.at # "accepted"
    PROVE  CopiesExact'
<1>2. c.id \in Ids /\ \A b \in calls \ {c} : b.id \in Ids /\ b.id # c.id
  BY DEF IInv, TypeOK, Call, OneCallPerRow
<1>3. \A i \in Ids : accepted[i] \in Nat /\ lost[i] \in Nat
  BY DEF IInv, TypeOK
<1>4. \A i \in Ids : lost'[i] = IF i = c.id THEN lost[i] + 1 ELSE lost[i]
  BY <1>2 DEF IInv, TypeOK
<1>5. \A i \in Ids : lost'[i] <= accepted[i]
  BY <1>2, <1>3, <1>4 DEF CopiesExact
<1>6. \A b \in calls' : b.at = "accepted" => accepted[b.id] = lost'[b.id] + 1
  BY <1>2, <1>4 DEF CopiesExact
<1> QED BY <1>5, <1>6 DEF CopiesExact

\* Calls that are dropped lose sight of the copies they were about to report.
LEMMA DroppedExact ==
    ASSUME IInv, CopiesExact, NEW C \in SUBSET calls, lost' = Unheard(C),
           accepted' = accepted, calls' = calls \ C
    PROVE  LET M == {i \in Ids : \E c \in C : c.id = i /\ c.at = "accepted"}
           IN  /\ CopiesExact'
               /\ \A i \in M : lost[i] < accepted[i]
               /\ lost' = [i \in Ids |-> IF i \in M THEN lost[i] + 1 ELSE lost[i]]
<1> DEFINE M == {i \in Ids : \E c \in C : c.id = i /\ c.at = "accepted"}
<1>1. \A i \in Ids : accepted[i] \in Nat /\ lost[i] \in Nat
  BY DEF IInv, TypeOK
<1>2. \A i \in Ids : lost'[i] = IF i \in M THEN lost[i] + 1 ELSE lost[i]
  BY CopiesUnheard
<1>3. lost' = [i \in Ids |-> IF i \in M THEN lost[i] + 1 ELSE lost[i]]
  <2>1. lost' = [i \in Ids |-> lost[i] + Cardinality({c \in C : c.id = i /\ c.at = "accepted"})]
    BY DEF Unheard
  <2> HIDE DEF M
  <2> QED BY <1>2, <2>1
<1>4. \A i \in M : accepted[i] = lost[i] + 1
  BY DEF CopiesExact
<1>5. \A b \in calls' : b.id \in Ids \ M
  BY DEF IInv, TypeOK, Call, OneCallPerRow
<1> HIDE DEF M
<1>6. M \subseteq Ids
  BY DEF M
<1>7. \A i \in M : lost[i] < accepted[i]
  BY <1>1, <1>4, <1>6
<1>8. \A i \in Ids : lost'[i] <= accepted[i]
  BY <1>1, <1>2, <1>4 DEF CopiesExact
<1>9. \A b \in calls' : b.at = "accepted" => accepted[b.id] = lost'[b.id] + 1
  BY <1>2, <1>5 DEF CopiesExact
<1>10. CopiesExact'
  BY <1>8, <1>9 DEF CopiesExact
<1> QED BY <1>3, <1>7, <1>10 DEF M

-----------------------------------------------------------------------------
\* What OutgoingMail sees of a step that takes no row and gives no id.
LEMMA MailUnmoved ==
    ASSUME Rows' = Rows, lastId' = lastId
    PROVE  Whereabouts' = Whereabouts
BY DEF Whereabouts

\* Rows that go leave their mails "gone", and the others where they were.
LEMMA MailMoved ==
    ASSUME IInv, NEW I \in SUBSET Rows, Rows' = Rows \ I, lastId' = lastId
    PROVE  /\ \A i \in I : i \in Ids /\ Whereabouts[i] = "kept"
           /\ Whereabouts' = [i \in Ids |-> IF i \in I THEN "gone" ELSE Whereabouts[i]]
<1>1. \A i \in Rows : i \in Ids /\ i <= lastId /\ ~ (i > lastId)
  BY DEF IInv, TypeOK, IdsGivenOut, Ids
<1>2. \A i \in I : i \in Ids /\ Whereabouts[i] = "kept"
  BY <1>1 DEF Whereabouts
<1>3. Whereabouts' = [i \in Ids |-> IF i > lastId THEN "unwritten"
                                    ELSE IF i \in Rows \ I THEN "kept" ELSE "gone"]
  BY DEF Whereabouts
<1>4. ASSUME NEW i \in Ids
      PROVE  Whereabouts'[i] = IF i \in I THEN "gone" ELSE Whereabouts[i]
  BY <1>1, <1>3, <1>4 DEF Whereabouts
<1>5. Whereabouts' = [i \in Ids |-> IF i \in I THEN "gone" ELSE Whereabouts[i]]
  BY <1>3, <1>4, Zenon
<1> QED BY <1>2, <1>5

LEMMA ComposeMapped ==
    ASSUME IInv, CopiesExact, NEW a \in Accounts, composeReady(a)
    PROVE  CopiesExact' /\ \E m \in Ids : Mail!Write(m)
<1>1. /\ lastId < MaxRows /\ a \in accounts /\ lastId' = lastId + 1
      /\ UNCHANGED <<accepted, lost, removals>>
  BY DEF composeReady, gmailVars, boundVars
<1>2. lastId \in 0 .. MaxRows /\ Rows \subseteq 1 .. lastId
  BY DEF IInv, TypeOK, IdsGivenOut
<1>3. Rows' = Rows \cup {lastId'} /\ \A c \in calls' : c \in calls \/ c.at = "posted"
  <2>1. CASE flush(enqueue(a, "due"))
    <3>1. DOMAIN enqueue(a, "due") = Rows \cup {lastId'}
      BY <1>1 DEF enqueue, WithRow
    <3> QED BY <2>1, <3>1, FlushKeeps
  <2>2. CASE outbox' = enqueue(a, "scheduled") /\ UNCHANGED batchVars
    <3>1. DOMAIN enqueue(a, "scheduled") = Rows \cup {lastId'}
      BY <1>1 DEF enqueue, WithRow
    <3> QED BY <2>2, <3>1 DEF Rows, batchVars
  <2> QED BY <2>1, <2>2 DEF composeReady
<1>4. CopiesExact'
  BY <1>1, <1>3 DEF CopiesExact
<1> DEFINE m == lastId + 1
<1>5. m \in Ids /\ MaxRows \in Nat
  BY <1>1, <1>2, OutboxAssumption DEF Ids
<1>6. Whereabouts[m] = "unwritten"
  BY <1>2, <1>5 DEF Whereabouts
<1>7. Whereabouts' = [Whereabouts EXCEPT ![m] = "kept"]
  <2>1. ASSUME NEW i \in Ids
        PROVE  Whereabouts'[i] = IF i = m THEN "kept" ELSE Whereabouts[i]
    <3>1. i \in Nat /\ lastId \in Nat /\ lastId' = m
      BY <1>1, <1>2 DEF Ids
    <3>2. Whereabouts'[i] = IF i > m THEN "unwritten"
                            ELSE IF i \in Rows \cup {m} THEN "kept" ELSE "gone"
      BY <1>3, <3>1 DEF Whereabouts
    <3>3. Whereabouts[i] = IF i > lastId THEN "unwritten"
                           ELSE IF i \in Rows THEN "kept" ELSE "gone"
      BY DEF Whereabouts
    <3>4. i = m \/ (i > m /\ i > lastId) \/ (~ (i > m) /\ ~ (i > lastId) /\ i # m)
      BY <3>1
    <3> QED BY <3>1, <3>2, <3>3, <3>4
  <2>2. Whereabouts' = [i \in Ids |-> Whereabouts'[i]]
    BY DEF Whereabouts
  <2>3. Whereabouts = [i \in Ids |-> Whereabouts[i]]
    BY DEF Whereabouts
  <2> HIDE DEF m
  <2>4. [Whereabouts EXCEPT ![m] = "kept"]
            = [i \in Ids |-> IF i = m THEN "kept" ELSE Whereabouts[i]]
    BY <2>3
  <2> QED BY <2>1, <2>2, <2>4
<1>8. Mail!Write(m)
  BY <1>1, <1>6, <1>7 DEF Mail!Write
<1> QED BY <1>4, <1>5, <1>8

\* Every step of the outbox is a step of OutgoingMail, or one it does not see.
LEMMA NextMapped ==
    ASSUME IInv, CopiesExact, Next
    PROVE  CopiesExact' /\ [Mail!Next]_(Mail!mailVars)
<1>1. TypeOK /\ \A c \in calls : c \in Call /\ c.id \in Ids
  BY DEF IInv, TypeOK, Call
<1>2. ASSUME Rows' = Rows, UNCHANGED <<lastId, accepted, lost, removals>>,
             \A c \in calls' : c \in calls \/ c.at # "accepted"
      PROVE  CopiesExact' /\ [Mail!Next]_(Mail!mailVars)
  BY <1>2, MailUnmoved DEF CopiesExact, Mail!mailVars
<1>3. CASE User
  <2>1. PICK a \in Accounts : \/ composeReady(a)
                              \/ signOut(a) \/ signIn(a) \/ dropCache(a) \/ removeAccount(a)
    BY <1>3 DEF User
  <2>2. CASE composeReady(a)
    BY <2>2, ComposeMapped DEF Mail!Next
  <2>3. CASE signOut(a) \/ signIn(a)
    BY <1>2, <2>3 DEF signOut, signIn, tableVars, batchVars, gmailVars, boundVars, Rows
  <2>4. CASE dropCache(a) \/ removeAccount(a)
    <3>1. /\ outbox' = WithoutRows(RowsOf(a)) /\ removals' = removals + 1
          /\ UNCHANGED <<lastId, calls, accepted, lost>>
      BY <2>4 DEF dropCache, removeAccount, batchVars, gmailVars
    <3>2. Rows' = Rows \ RowsOf(a) /\ RowsOf(a) \subseteq Rows
      BY <1>1, <3>1, RowsTakenOut DEF RowsOf
    <3>3. /\ \A i \in RowsOf(a) : i \in Ids /\ Whereabouts[i] = "kept"
          /\ Whereabouts' = [i \in Ids |-> IF i \in RowsOf(a) THEN "gone" ELSE Whereabouts[i]]
      BY <3>1, <3>2, MailMoved
    <3>4. Mail!Purge(RowsOf(a)) /\ RowsOf(a) \in SUBSET Ids
      BY <3>1, <3>3 DEF Mail!Purge, Mail!Kept
    <3> QED BY <3>1, <3>4 DEF CopiesExact, Mail!Next
  <2> QED BY <2>1, <2>2, <2>3, <2>4
<1>4. CASE \E i \in Ids : Elapse(i)
  BY <1>1, <1>2, <1>4 DEF Elapse, TypeOK, Rows, batchVars, gmailVars, boundVars
<1>5. CASE Tick
  <2>1. Rows' = Rows /\ \A c \in calls' : c \in calls \/ c.at = "posted"
    BY <1>5, FlushKeeps DEF Tick, Rows
  <2> QED BY <1>2, <1>5, <2>1 DEF Tick, gmailVars, boundVars
<1>6. ASSUME NEW C \in SUBSET calls, lost' = Unheard(C), calls' = calls \ C, Rows' = Rows,
             UNCHANGED <<lastId, accepted, removals>>
      PROVE  CopiesExact' /\ [Mail!Next]_(Mail!mailVars)
  <2> DEFINE M == {i \in Ids : \E c \in C : c.id = i /\ c.at = "accepted"}
  <2>1. /\ CopiesExact' /\ \A i \in M : lost[i] < accepted[i]
        /\ lost' = [i \in Ids |-> IF i \in M THEN lost[i] + 1 ELSE lost[i]]
    BY <1>6, DroppedExact
  <2>2. M \in SUBSET Ids
    OBVIOUS
  <2> HIDE DEF M
  <2>3. Mail!LoseSight(M)
    BY <1>6, <2>1, MailUnmoved DEF Mail!LoseSight
  <2> QED BY <2>1, <2>2, <2>3 DEF Mail!Next
<1>7. CASE \E a \in Accounts : destroyContext(a)
  BY <1>6, <1>7 DEF destroyContext, tableVars, boundVars, Rows
<1>8. CASE Crash
  BY <1>6, <1>8 DEF Crash, tableVars, Rows
<1>9. CASE \E c \in calls : sendRaw(c)
  <2>1. PICK c \in calls : sendRaw(c)
    BY <1>9
  <2>2. [c EXCEPT !.at = "sent"].at = "sent"
    BY <1>1 DEF Call
  <2> QED BY <1>2, <2>1, <2>2 DEF sendRaw, tableVars, gmailVars, boundVars, Rows
<1>10. CASE \E c \in calls : Accept(c)
  <2>1. PICK c \in calls : Accept(c)
    BY <1>10
  <2>2. /\ accepted' = [accepted EXCEPT ![c.id] = @ + 1]
        /\ UNCHANGED <<outbox, lastId, lost, removals>>
    BY <2>1 DEF Accept, tableVars, boundVars
  <2>3. accepted[c.id] = lost[c.id] /\ CopiesExact'
    BY <2>1, AcceptExact
  <2>4. Whereabouts[c.id] # "unwritten"
    BY <1>1 DEF IInv, TypeOK, IdsGivenOut, Whereabouts
  <2>5. Mail!Deliver(c.id)
    BY <2>2, <2>3, <2>4, MailUnmoved DEF Mail!Deliver, Rows
  <2> QED BY <1>1, <2>3, <2>5 DEF Mail!Next
<1>11. CASE \E c \in calls : itemSent(c)
  <2>1. PICK c \in calls : itemSent(c)
    BY <1>11
  <2>2. /\ c.at = "accepted" /\ outbox' = WithoutRows({c.id}) /\ calls' \subseteq calls
        /\ UNCHANGED <<lastId, accepted, lost, removals>>
    BY <2>1 DEF itemSent, markSent, onDone, gmailVars, boundVars
  <2>3. Rows' = Rows \ {c.id}
    BY <1>1, <2>2, RowsTakenOut
  <2>4. CASE c.id \notin Rows
    <3>1. Rows' = Rows
      BY <2>3, <2>4
    <3> QED BY <1>2, <2>2, <3>1
  <2>5. CASE c.id \in Rows
    <3>1. /\ Whereabouts[c.id] = "kept"
          /\ Whereabouts' = [i \in Ids |-> IF i \in {c.id} THEN "gone" ELSE Whereabouts[i]]
      BY <2>2, <2>3, <2>5, MailMoved
    <3>2. Whereabouts' = [Whereabouts EXCEPT ![c.id] = "gone"]
      <4>1. Whereabouts = [i \in Ids |-> Whereabouts[i]]
        BY DEF Whereabouts
      <4> QED BY <3>1, <4>1
    <3>3. lost[c.id] < accepted[c.id]
      BY <1>1, <2>2 DEF TypeOK, CopiesExact
    <3>4. Mail!Forget(c.id)
      BY <1>1, <2>2, <3>1, <3>2, <3>3 DEF Mail!Forget, Mail!Kept
    <3> QED BY <1>1, <2>2, <3>4 DEF CopiesExact, Mail!Next
  <2> QED BY <2>4, <2>5
<1>12. CASE \E c \in calls : NoToken(c) \/ Refused(c)
  <2>1. PICK c \in calls : NoToken(c) \/ Refused(c)
    BY <1>12
  <2>2. itemFailed(c) /\ UNCHANGED <<lastId, accepted, lost, removals>> /\ calls' \subseteq calls
    BY <2>1 DEF NoToken, Refused, Fault, itemFailed, onDone, boundVars
  <2>3. Rows' = Rows
    BY <1>1, <2>2, FailedRow DEF itemFailed, Waits
  <2> QED BY <1>2, <2>2, <2>3
<1>13. CASE \E c \in calls : ReplyLost(c) \/ Resent(c)
  <2>1. PICK c \in calls : ReplyLost(c) \/ Resent(c)
    BY <1>13
  <2>2. /\ c.at = "accepted" /\ lost' = [lost EXCEPT ![c.id] = @ + 1]
        /\ UNCHANGED <<lastId, accepted, removals>>
    BY <2>1 DEF ReplyLost, Resent, Fault, itemFailed, tableVars
  <2>3. Rows' = Rows
    <3>1. CASE itemFailed(c)
      BY <1>1, <3>1, FailedRow DEF itemFailed, Waits
    <3> QED BY <2>1, <3>1 DEF ReplyLost, Resent, tableVars, Rows
  <2>4. lost' = [i \in Ids |-> IF i \in {c.id} THEN lost[i] + 1 ELSE lost[i]]
    BY <1>1, <2>2 DEF TypeOK
  <2>5. lost[c.id] < accepted[c.id]
    BY <1>1, <2>2 DEF TypeOK, CopiesExact
  <2>6. Mail!LoseSight({c.id})
    BY <2>2, <2>3, <2>4, <2>5, MailUnmoved DEF Mail!LoseSight
  <2>7. \A b \in calls' : b \in calls \ {c} \/ b.at # "accepted"
    <3>1. [c EXCEPT !.at = "sent"].at = "sent"
      BY <1>1 DEF Call
    <3> QED BY <2>1, <3>1 DEF ReplyLost, Resent, itemFailed, onDone
  <2>8. CopiesExact'
    BY <2>2, <2>7, LostExact
  <2> QED BY <1>1, <2>6, <2>8 DEF Mail!Next
<1> QED BY <1>3, <1>4, <1>5, <1>7, <1>8, <1>9, <1>10, <1>11, <1>12, <1>13
       DEF Next, Callback

\* The outbox keeps the promise of OutgoingMail: whatever the batches, the
\* accounts and the faults do, a mail is given up only with an answer about it
\* or by the user's hand, and offered again only when Gmail's copies went
\* unheard.
THEOREM OutgoingMailImplemented == Spec => ImplementsOutgoingMail
<1>1. Init => Mail!Init /\ CopiesExact
  <2> SUFFICES ASSUME Init
               PROVE  Mail!Init /\ CopiesExact
    OBVIOUS
  <2>1. /\ lastId = 0 /\ accepted = [i \in Ids |-> 0] /\ lost = [i \in Ids |-> 0]
        /\ removals = 0 /\ calls = {}
    BY DEF Init
  <2>2. \A i \in Ids : i > lastId
    BY <2>1 DEF Ids
  <2>3. Whereabouts = [i \in Ids |-> "unwritten"]
    BY <2>2 DEF Whereabouts
  <2> QED BY <2>1, <2>3 DEF Mail!Init, CopiesExact
<1>2. IInv /\ CopiesExact /\ [Next]_vars => CopiesExact' /\ [Mail!Next]_(Mail!mailVars)
  <2> SUFFICES ASSUME IInv, CopiesExact, UNCHANGED vars
               PROVE  CopiesExact' /\ UNCHANGED Mail!mailVars
    BY NextMapped
  <2>1. UNCHANGED <<outbox, lastId, calls, accepted, lost, removals>>
    BY DEF vars, tableVars, batchVars, gmailVars, boundVars
  <2> QED BY <2>1, MailUnmoved DEF CopiesExact, Mail!mailVars, Rows
<1> QED BY <1>1, <1>2, IInvAlways, PTL DEF Spec, ImplementsOutgoingMail, Mail!Spec
=============================================================================
