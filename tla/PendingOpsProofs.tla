------------------------- MODULE PendingOpsProofs -------------------------
(***************************************************************************)
(* Theorems about PendingOps that hold for any messages, labels and edits  *)
(* and for every bound on what goes wrong.                                 *)
(***************************************************************************)
EXTENDS PendingOps, FiniteSetTheorems, TLAPS

\* Ids are given out once, and no operation both adds and removes a label.
RowsInOrder ==
    /\ DOMAIN ops \subseteq 1 .. lastId
    /\ \A i \in DOMAIN ops : ops[i].add \cap ops[i].remove = {}

\* A call carries a row as the table has it, and no two carry the same one.
CallsOfRows ==
    /\ \A c \in calls : c.id \in DOMAIN ops /\ c.op = ops[c.id]
    /\ \A c, d \in calls : c.id = d.id => c = d

\* The countdown of flush's onDone is exact.
BatchExact ==
    /\ IsFiniteSet(calls)
    /\ remaining = Cardinality(calls)
    /\ busy <=> remaining > 0

\* Gmail has taken operation i, and its callback has not run.
Applied(i) == \E c \in calls : c.id = i /\ c.at = "applied"

\* What the sync has been told is still so, unless there is later news.
DeltaCurrent ==
    \A m \in Msgs, l \in Labels :
        l \notin touched[m] => /\ l \in delta[m].on => l \in server[m]
                               /\ l \in delta[m].off => l \notin server[m]

\* Where cache and mailbox differ and nobody has news, an operation waits that
\* wants what the cache shows and that Gmail has not taken in this batch.
DivergenceHasCause ==
    \A m \in Msgs, l \in Labels :
        Diverges(m, l) =>
            \/ NewsOf(m, l)
            \/ <<m, l>> \in dropped
            \/ \E i \in Waiting(ops, m, l) : /\ (l \in ops[i].add) = (l \in cache[m])
                                             /\ ~ Applied(i)

\* Of a label that is not contested at most one change waits.  It wants what the
\* user wants, and once Gmail has taken it the mailbox agrees.
OneChangeWaits ==
    \A m \in Msgs, l \in Labels :
        <<m, l>> \notin contested =>
            /\ \A i, j \in Waiting(ops, m, l) : i = j
            /\ \A i \in Waiting(ops, m, l) :
                  /\ (l \in ops[i].add) = (l \in intent[m])
                  /\ Applied(i) => (l \in server[m]) = (l \in intent[m])

\* The inductive invariant.
IInv ==
    /\ TypeOK
    /\ RowsInOrder
    /\ CallsOfRows
    /\ BatchExact
    /\ DeltaCurrent
    /\ DivergenceHasCause
    /\ OneChangeWaits
    /\ LastEditReaches

-----------------------------------------------------------------------------
(* The table and the batch.                                                *)

Table == RowsInOrder /\ CallsOfRows /\ BatchExact

\* What a step leaves of the table and the batch when it is done with them.
TableType ==
    /\ DOMAIN ops \subseteq Ids /\ ops \in [DOMAIN ops -> Op] /\ lastId \in 0 .. MaxOps
    /\ busy \in BOOLEAN /\ remaining \in Nat /\ calls \subseteq Call

\* The variables the table does not depend on.
LabelType ==
    /\ cache \in [Msgs -> SUBSET Labels] /\ server \in [Msgs -> SUBSET Labels]
    /\ touched \in [Msgs -> SUBSET Labels]
    /\ delta \in [Msgs -> [on : SUBSET Labels, off : SUBSET Labels]]
    /\ intent \in [Msgs -> SUBSET Labels]
    /\ contested \subseteq Msgs \X Labels /\ dropped \subseteq Msgs \X Labels
    /\ others \in Nat /\ faults \in Nat /\ crashes \in Nat

Labelling == DeltaCurrent /\ DivergenceHasCause /\ OneChangeWaits /\ LastEditReaches

LEMMA IInvParts ==
    /\ IInv <=> TableType /\ LabelType /\ Table /\ Labelling
    /\ IInv' <=> TableType' /\ LabelType' /\ Table' /\ Labelling'
BY DEF IInv, TypeOK, TableType, LabelType, Table, Labelling

LEMMA InitIInv == Init => IInv
<1> SUFFICES ASSUME Init
             PROVE  IInv
  OBVIOUS
<1>1. DOMAIN ops = {} /\ calls = {} /\ remaining = 0 /\ busy = FALSE /\ lastId = 0
  BY DEF Init
<1>2. Cardinality(calls) = 0 /\ IsFiniteSet(calls)
  BY <1>1, FS_EmptySet
<1>3. TableType
  <2>1. ops \in [DOMAIN ops -> Op]
    BY <1>1 DEF Init
  <2>2. 0 \in 0 .. MaxOps
    BY PendingAssumption
  <2> QED BY <1>1, <2>1, <2>2 DEF TableType
<1>4. delta \in [Msgs -> [on : SUBSET Labels, off : SUBSET Labels]]
  BY DEF Init, NoDelta
<1>5. LabelType
  BY <1>4 DEF Init, LabelType
<1>6. Table
  BY <1>1, <1>2 DEF Table, RowsInOrder, CallsOfRows, BatchExact
<1>7. \A m \in Msgs, l \in Labels : Waiting(ops, m, l) = {}
  BY <1>1 DEF Waiting
<1>8. \A m \in Msgs : cache[m] = server[m] /\ intent[m] = server[m]
  BY DEF Init
<1>9. DeltaCurrent
  BY DEF Init, NoDelta, DeltaCurrent
<1>10. DivergenceHasCause /\ OneChangeWaits /\ LastEditReaches
  BY <1>7, <1>8 DEF DivergenceHasCause, Diverges, OneChangeWaits, LastEditReaches
<1> QED BY <1>3, <1>5, <1>6, <1>9, <1>10, IInvParts DEF Labelling

\* A callback that ends counts itself off.
LEMMA EndOfCall ==
    ASSUME TableType, BatchExact, NEW c \in calls, onDone(c)
    PROVE  /\ calls' = calls \ {c}
           /\ remaining' \in Nat /\ busy' \in BOOLEAN
           /\ BatchExact'
<1>1. calls' = calls \ {c} /\ remaining' = remaining - 1 /\ busy' = (remaining' > 0)
  BY DEF onDone
<1>2. IsFiniteSet(calls) /\ remaining = Cardinality(calls)
  BY DEF BatchExact
<1>3. IsFiniteSet(calls') /\ Cardinality(calls') = Cardinality(calls) - 1
  BY <1>1, <1>2, FS_RemoveElement
<1>4. Cardinality(calls') \in Nat
  BY <1>3, FS_CardinalityType
<1>5. remaining' = Cardinality(calls')
  BY <1>1, <1>2, <1>3
<1>6. busy' \in BOOLEAN /\ (busy' <=> remaining' > 0)
  <2>1. (remaining' > 0) \in BOOLEAN
    BY <1>4, <1>5
  <2> QED BY <1>1, <2>1, Zenon
<1> QED BY <1>1, <1>3, <1>4, <1>5, <1>6 DEF BatchExact

\* One call per row of the table.
LEMMA CallsOfTable ==
    ASSUME NEW table, table \in [DOMAIN table -> Op], DOMAIN table \subseteq Ids
    PROVE  LET new == {[id |-> i, op |-> table[i], at |-> "sent"] : i \in DOMAIN table}
           IN  /\ IsFiniteSet(new) /\ new \subseteq Call
               /\ Cardinality(new) = Cardinality(DOMAIN table)
               /\ Cardinality(DOMAIN table) \in Nat
               /\ DOMAIN table # {} => Cardinality(DOMAIN table) > 0
<1> DEFINE rec(i) == [id |-> i, op |-> table[i], at |-> "sent"]
           D    == DOMAIN table
           new  == {rec(i) : i \in D}
           call == [i \in D |-> rec(i)]
<1>1. IsFiniteSet(D)
  <2>1. MaxOps \in Int /\ 1 \in Int
    BY PendingAssumption
  <2>2. IsFiniteSet(1 .. MaxOps)
    BY <2>1, FS_Interval
  <2>3. D \subseteq 1 .. MaxOps
    BY DEF Ids
  <2> QED BY <2>2, <2>3, FS_Subset
<1>2. call \in Bijection(D, new)
  <2>1. call \in [D -> new]
    OBVIOUS
  <2>2. \A x \in new : \E i \in D : call[i] = x
    OBVIOUS
  <2>3. \A i, j \in D : call[i] = call[j] => i = j
    OBVIOUS
  <2> QED BY <2>1, <2>2, <2>3 DEF Bijection, Injection, Surjection, IsInjective
<1>3. ExistsBijection(D, new)
  BY <1>2 DEF ExistsBijection
<1>4. IsFiniteSet(new) /\ Cardinality(new) = Cardinality(D)
  BY <1>1, <1>3, FS_Bijection
<1>5. Cardinality(D) \in Nat /\ (D # {} => Cardinality(D) > 0)
  BY <1>1, FS_CardinalityType, FS_EmptySet
<1>6. new \subseteq Call
  BY DEF Call
<1> QED BY <1>4, <1>5, <1>6

\* A batch starts, or does not, on the old table with new rows.  Gmail takes
\* nothing in this step.
LEMMA FlushStep ==
    ASSUME TableType, Table, NEW table,
           table \in [DOMAIN table -> Op],
           lastId' \in lastId .. MaxOps,
           DOMAIN ops \subseteq DOMAIN table, DOMAIN table \subseteq 1 .. lastId',
           \A i \in DOMAIN ops : table[i] = ops[i],
           \A i \in DOMAIN table : table[i].add \cap table[i].remove = {},
           flush(table)
    PROVE  /\ TableType' /\ Table' /\ ops' = table
           /\ \A i : Applied(i)' <=> Applied(i)
<1>1. lastId' \in 0 .. MaxOps /\ DOMAIN table \subseteq Ids /\ ops' = table
  BY PendingAssumption DEF TableType, Ids, flush
<1>2. RowsInOrder'
  BY <1>1 DEF RowsInOrder
<1>3. CASE busy \/ DOMAIN table = {}
  <2>1. UNCHANGED <<busy, remaining, calls>>
    BY <1>3 DEF flush, batchVars, dueAllAccounts
  <2>2. TableType'
    BY <1>1, <2>1 DEF TableType
  <2>3. CallsOfRows' /\ BatchExact'
    BY <1>1, <2>1 DEF Table, CallsOfRows, BatchExact
  <2>4. \A i : Applied(i)' <=> Applied(i)
    BY <2>1 DEF Applied
  <2> QED BY <1>1, <1>2, <2>2, <2>3, <2>4 DEF Table
<1>4. CASE ~ busy /\ DOMAIN table # {}
  <2> DEFINE new == {[id |-> i, op |-> table[i], at |-> "sent"] : i \in DOMAIN table}
  <2>1. calls = {}
    <3>1. IsFiniteSet(calls) /\ remaining = Cardinality(calls) /\ ~ (remaining > 0)
      BY <1>4 DEF Table, BatchExact
    <3>2. Cardinality(calls) = 0
      BY <3>1, FS_CardinalityType
    <3> QED BY <3>1, <3>2, FS_EmptySet
  <2>2. busy' = TRUE /\ remaining' = Cardinality(DOMAIN table) /\ calls' = new
    BY <1>4, <2>1 DEF flush, dueAllAccounts
  <2>3. /\ IsFiniteSet(new) /\ new \subseteq Call
        /\ Cardinality(new) = Cardinality(DOMAIN table)
        /\ Cardinality(DOMAIN table) \in Nat /\ Cardinality(DOMAIN table) > 0
    BY <1>1, <1>4, CallsOfTable
  <2>4. TableType' /\ BatchExact'
    BY <1>1, <2>2, <2>3 DEF TableType, BatchExact
  <2>5. CallsOfRows'
    BY <1>1, <2>2 DEF CallsOfRows
  <2>6. \A i : ~ Applied(i) /\ ~ Applied(i)'
    BY <2>1, <2>2 DEF Applied
  <2> QED BY <1>1, <1>2, <2>4, <2>5, <2>6 DEF Table
<1> QED BY <1>3, <1>4


LEMMA TickStep == IInv /\ Tick => IInv'
<1> SUFFICES ASSUME IInv, Tick
             PROVE  IInv'
  OBVIOUS
<1>1. TableType /\ LabelType /\ Table /\ Labelling
  BY IInvParts
<1>2. flush(ops) /\ lastId' = lastId /\ UNCHANGED <<cache, gmailVars, delta, intentVars, boundVars>>
  BY DEF Tick
<1>3. lastId' \in lastId .. MaxOps
  BY <1>1, <1>2, PendingAssumption DEF TableType
<1>4. /\ TableType' /\ Table' /\ ops' = ops
      /\ \A i : Applied(i)' <=> Applied(i)
  BY <1>1, <1>2, <1>3, FlushStep DEF TableType, Table, RowsInOrder
<1>5. LabelType'
  BY <1>1, <1>2 DEF LabelType, gmailVars, intentVars, boundVars
<1>6. \A m, l : Waiting(ops, m, l)' = Waiting(ops, m, l) /\ (Diverges(m, l)' <=> Diverges(m, l))
                /\ (NewsOf(m, l)' <=> NewsOf(m, l))
  BY <1>2, <1>4 DEF Waiting, Diverges, NewsOf, gmailVars
<1>7. Labelling'
  <2>1. DeltaCurrent'
    BY <1>1, <1>2 DEF Labelling, DeltaCurrent, gmailVars
  <2>2. DivergenceHasCause'
    BY <1>1, <1>2, <1>4, <1>6 DEF Labelling, DivergenceHasCause, intentVars
  <2>3. OneChangeWaits'
    BY <1>1, <1>2, <1>4, <1>6 DEF Labelling, OneChangeWaits, intentVars, gmailVars
  <2>4. LastEditReaches'
    BY <1>1, <1>2, <1>6 DEF Labelling, LastEditReaches, intentVars, gmailVars
  <2> QED BY <2>1, <2>2, <2>3, <2>4 DEF Labelling
<1> QED BY <1>1, <1>4, <1>5, <1>7, IInvParts

-----------------------------------------------------------------------------
(* An edit.                                                                *)

\* The ids of new rows follow lastId, one for each message.
LEMMA IdsForMessages ==
    ASSUME NEW T \in SUBSET Msgs, lastId \in Nat
    PROVE  /\ IsFiniteSet(T) /\ Cardinality(T) \in Nat
           /\ \A m \in T : IdFor(T, m) \in (lastId + 1) .. (lastId + Cardinality(T))
           /\ \A m, n \in T : IdFor(T, m) = IdFor(T, n) => m = n
<1> DEFINE upTo(m) == {n \in T : n <= m}
<1>1. IsFiniteSet(T) /\ Cardinality(T) \in Nat
  BY PendingAssumption, FS_Subset, FS_CardinalityType
<1>2. T \subseteq Nat
  BY PendingAssumption
<1>3. ASSUME NEW m \in T
      PROVE  /\ IsFiniteSet(upTo(m)) /\ Cardinality(upTo(m)) \in Nat
             /\ Cardinality(upTo(m)) > 0 /\ Cardinality(upTo(m)) <= Cardinality(T)
  <2>1. upTo(m) \in SUBSET T /\ m \in upTo(m)
    BY <1>2
  <2>2. IsFiniteSet(upTo(m)) /\ Cardinality(upTo(m)) <= Cardinality(T)
    BY <1>1, <2>1, FS_Subset
  <2>3. Cardinality(upTo(m)) \in Nat /\ Cardinality(upTo(m)) # 0
    BY <2>1, <2>2, FS_CardinalityType, FS_EmptySet
  <2> QED BY <2>2, <2>3
<1>4. ASSUME NEW m \in T, NEW n \in T, m < n
      PROVE  Cardinality(upTo(m)) # Cardinality(upTo(n))
  <2>3. n <= n /\ ~ (n <= m) /\ \A k \in T : k <= m => k <= n
    BY <1>2, <1>4
  <2>1. upTo(m) \in SUBSET upTo(n) /\ n \in upTo(n) /\ n \notin upTo(m)
    BY <2>3
  <2>2. upTo(n) # upTo(m)
    BY <2>1
  <2> HIDE DEF upTo
  <2> QED BY <1>3, <2>1, <2>2, FS_Subset
<1>5. \A m \in T : IdFor(T, m) = lastId + Cardinality(upTo(m))
  BY DEF IdFor
<1> HIDE DEF upTo
<1>6. \A m \in T : IdFor(T, m) \in (lastId + 1) .. (lastId + Cardinality(T))
  BY <1>1, <1>3, <1>5
<1>7. ASSUME NEW m \in T, NEW n \in T, IdFor(T, m) = IdFor(T, n)
      PROVE  m = n
  <2>1. Cardinality(upTo(m)) = Cardinality(upTo(n))
    BY <1>3, <1>5, <1>7
  <2>2. ~ (m < n) /\ ~ (n < m)
    BY <1>4, <2>1
  <2> QED BY <1>2, <2>2
<1> QED BY <1>1, <1>6, <1>7

\* What enqueueModify returns: the old rows, and one new row for each message.
LEMMA EnqueuedTable ==
    ASSUME TableType, RowsInOrder,
           NEW T \in SUBSET Msgs, NEW e \in Edits, lastId + Cardinality(T) <= MaxOps
    PROVE  LET table == enqueueModify(T, e)
           IN  /\ table \in [DOMAIN table -> Op]
               /\ lastId + Cardinality(T) \in lastId .. MaxOps
               /\ DOMAIN ops \subseteq DOMAIN table
               /\ DOMAIN table \subseteq 1 .. (lastId + Cardinality(T))
               /\ \A i \in DOMAIN ops : table[i] = ops[i]
               /\ \A i \in DOMAIN table : table[i].add \cap table[i].remove = {}
               /\ \A i \in DOMAIN table \ DOMAIN ops :
                     /\ table[i].msg \in T /\ i = IdFor(T, table[i].msg)
                     /\ table[i].add = e.add /\ table[i].remove = e.remove
               /\ \A m \in T : /\ IdFor(T, m) \in DOMAIN table \ DOMAIN ops
                               /\ table[IdFor(T, m)].msg = m
<1> DEFINE table == enqueueModify(T, e)
           new   == {IdFor(T, m) : m \in T}
           who(i) == CHOOSE m \in T : IdFor(T, m) = i
           row(i) == [msg |-> who(i), add |-> e.add, remove |-> e.remove, attempts |-> 0]
<1>1. /\ lastId \in Nat /\ Cardinality(T) \in Nat /\ MaxOps \in Nat
      /\ \A m \in T : IdFor(T, m) \in (lastId + 1) .. (lastId + Cardinality(T))
      /\ \A m, n \in T : IdFor(T, m) = IdFor(T, n) => m = n
  BY IdsForMessages, PendingAssumption DEF TableType
<1>2. \A i \in DOMAIN ops : i \in 1 .. lastId
  BY DEF RowsInOrder
<1>3. \A m \in T : IdFor(T, m) \notin DOMAIN ops
  BY <1>1, <1>2
<1>4. ASSUME NEW i \in new
      PROVE  who(i) \in T /\ IdFor(T, who(i)) = i
  OBVIOUS
<1>5. table = [i \in DOMAIN ops \cup new |-> IF i \in DOMAIN ops THEN ops[i] ELSE row(i)]
  BY DEF enqueueModify
<1>6. \A i \in new : row(i) \in Op
  <2>1. e.add \in SUBSET Labels /\ e.remove \in SUBSET Labels /\ 0 \in 0 .. kGiveUpAttempts - 1
    BY PendingAssumption
  <2>2. \A i \in new : who(i) \in Msgs
    BY <1>4
  <2> HIDE DEF who
  <2> QED BY <2>1, <2>2 DEF Op
<1>7. e.add \cap e.remove = {}
  BY PendingAssumption
<1>8. \A m \in T : who(IdFor(T, m)) = m
  BY <1>1, <1>4
<1>9. \A i \in new : row(i).msg = who(i) /\ row(i).add = e.add /\ row(i).remove = e.remove
  OBVIOUS
<1> HIDE DEF who, row
<1>10. DOMAIN table = DOMAIN ops \cup new
  BY <1>5
<1>11. \A i \in DOMAIN ops : table[i] = ops[i]
  BY <1>5
<1>12. \A i \in new : i \notin DOMAIN ops /\ table[i] = row(i)
  BY <1>3, <1>5
<1> HIDE DEF table
<1>13. table \in [DOMAIN table -> Op]
  <2>1. \A i \in DOMAIN table : table[i] \in Op
    BY <1>6, <1>10, <1>11, <1>12 DEF TableType
  <2>2. table = [i \in DOMAIN table |-> table[i]]
    BY <1>5, <1>10
  <2> QED BY <2>1, <2>2
<1>14. DOMAIN table \subseteq 1 .. (lastId + Cardinality(T))
  BY <1>1, <1>2, <1>10
<1>15. \A i \in DOMAIN table : table[i].add \cap table[i].remove = {}
  BY <1>7, <1>9, <1>10, <1>11, <1>12 DEF RowsInOrder
<1>16. \A i \in DOMAIN table \ DOMAIN ops :
          /\ table[i].msg \in T /\ i = IdFor(T, table[i].msg)
          /\ table[i].add = e.add /\ table[i].remove = e.remove
  BY <1>4, <1>9, <1>10, <1>12
<1>17. \A m \in T : IdFor(T, m) \in DOMAIN table \ DOMAIN ops /\ table[IdFor(T, m)].msg = m
  BY <1>8, <1>9, <1>10, <1>12
<1>18. lastId + Cardinality(T) \in lastId .. MaxOps
  BY <1>1
<1> QED BY <1>10, <1>11, <1>13, <1>14, <1>15, <1>16, <1>17, <1>18 DEF table

\* What an edit leaves of the labels: Q are the messages it queues an operation
\* for, U those it only shows.  Nothing is taken by Gmail in the step, and no
\* news is lost.
LEMMA EditLabels ==
    ASSUME TableType, LabelType, RowsInOrder, CallsOfRows, Labelling,
           NEW Q \in SUBSET Msgs, NEW U \in SUBSET Msgs, NEW e \in Edits,
           lastId + Cardinality(Q) <= MaxOps,
           applyLabelDiff(Q \cup U, e), ops' = enqueueModify(Q, e), Wished(Q, U, e),
           \A i : Applied(i)' => Applied(i),
           server' = server,
           \A m \in Msgs, l \in Labels : NewsOf(m, l) => NewsOf(m, l)'
    PROVE  DivergenceHasCause' /\ OneChangeWaits' /\ LastEditReaches'
<1> DEFINE table == enqueueModify(Q, e)
           changed == UNION {Pairs(m, Touches(e)) : m \in Q}
           orphans == UNION {Pairs(m, Touches(e)) : m \in U}
<1>1. /\ DOMAIN ops \subseteq DOMAIN table
      /\ \A i \in DOMAIN ops : table[i] = ops[i]
      /\ \A i \in DOMAIN table \ DOMAIN ops :
            /\ table[i].msg \in Q /\ i = IdFor(Q, table[i].msg)
            /\ table[i].add = e.add /\ table[i].remove = e.remove
      /\ \A m \in Q : /\ IdFor(Q, m) \in DOMAIN table \ DOMAIN ops
                      /\ table[IdFor(Q, m)].msg = m
  BY EnqueuedTable
<1>2. ops' = table
  OBVIOUS
<1>3. \A i \in DOMAIN table \ DOMAIN ops : ~ Applied(i)'
  BY DEF Applied, CallsOfRows
<1>4. /\ \A m \in Msgs : cache'[m] = IF m \in Q \cup U THEN After(cache[m], e) ELSE cache[m]
      /\ \A m \in Msgs : intent'[m] = IF m \in Q THEN After(intent[m], e) ELSE intent[m]
      /\ contested' = (contested \ changed)
                        \cup {p \in changed : Waiting(ops, p[1], p[2]) # {}} \cup orphans
      /\ dropped' = (dropped \ changed) \cup orphans
  BY DEF applyLabelDiff, Wished
<1>5. \A m \in Msgs, l \in Labels :
         /\ <<m, l>> \in changed <=> m \in Q /\ l \in Touches(e)
         /\ <<m, l>> \in orphans <=> m \in U /\ l \in Touches(e)
  BY DEF Pairs
<1>6. \A S, l : /\ l \notin Touches(e) => (l \in After(S, e) <=> l \in S)
                /\ l \in Touches(e) => (l \in After(S, e) <=> l \in e.add)
  BY PendingAssumption DEF After, Touches
<1> HIDE DEF table, changed, orphans
<1>7. ASSUME NEW m \in Msgs, NEW l \in Labels, <<m, l>> \notin changed
      PROVE  Waiting(table, m, l) = Waiting(ops, m, l)
  <2>1. m \notin Q \/ l \notin Touches(e)
    BY <1>5, <1>7
  <2>2. ASSUME NEW i \in DOMAIN table \ DOMAIN ops
        PROVE  ~ (table[i].msg = m /\ l \in Touches(table[i]))
    BY <1>1, <2>1, <2>2 DEF Touches
  <2> QED BY <1>1, <2>2 DEF Waiting
<1>8. ASSUME NEW m \in Msgs, NEW l \in Labels, <<m, l>> \in changed
      PROVE  /\ m \in Q /\ l \in Touches(e)
             /\ \E i \in DOMAIN table \ DOMAIN ops :
                   /\ table[i].add = e.add
                   /\ ~ Applied(i)'
                   /\ Waiting(table, m, l) = Waiting(ops, m, l) \cup {i}
  <2>1. m \in Q /\ l \in Touches(e)
    BY <1>5, <1>8
  <2>2. PICK i \in DOMAIN table \ DOMAIN ops : i = IdFor(Q, m) /\ table[i].msg = m
    BY <1>1, <2>1
  <2>3. table[i].add = e.add /\ table[i].remove = e.remove /\ ~ Applied(i)'
    BY <1>1, <1>3
  <2>4. \A j \in DOMAIN table \ DOMAIN ops : table[j].msg = m => j = i
    BY <1>1, <2>2
  <2>5. l \in Touches(table[i])
    BY <2>1, <2>3 DEF Touches
  <2>6. Waiting(table, m, l) = Waiting(ops, m, l) \cup {i}
    BY <1>1, <2>2, <2>4, <2>5 DEF Waiting
  <2> QED BY <2>1, <2>3, <2>6
<1>9. ASSUME NEW m \in Msgs, NEW l \in Labels, Diverges(m, l)', ~ NewsOf(m, l)',
             <<m, l>> \notin dropped'
      PROVE  \E i \in Waiting(table, m, l) : /\ (l \in table[i].add) = (l \in cache'[m])
                                            /\ ~ Applied(i)'
  <2>1. CASE <<m, l>> \in changed
    <3>1. PICK i \in Waiting(table, m, l) : table[i].add = e.add /\ ~ Applied(i)'
      BY <1>8, <2>1
    <3>2. m \in Q /\ l \in Touches(e)
      BY <1>8, <2>1
    <3>3. l \in e.add <=> l \in cache'[m]
      BY <1>4, <1>6, <3>2
    <3> QED BY <3>1, <3>2, <3>3
  <2>2. CASE <<m, l>> \notin changed
    <3>1. <<m, l>> \notin orphans /\ <<m, l>> \notin dropped
      BY <1>4, <1>9, <2>2
    <3>2. l \in cache'[m] <=> l \in cache[m]
      BY <1>4, <1>5, <1>6, <2>2, <3>1
    <3>3. Diverges(m, l) /\ ~ NewsOf(m, l)
      BY <1>9, <3>2 DEF Diverges
    <3>4. PICK i \in Waiting(ops, m, l) : (l \in ops[i].add) = (l \in cache[m]) /\ ~ Applied(i)
      BY <3>1, <3>3 DEF Labelling, DivergenceHasCause
    <3>5. i \in Waiting(table, m, l) /\ table[i] = ops[i] /\ ~ Applied(i)'
      BY <1>1, <1>7, <2>2, <3>4 DEF Waiting
    <3> QED BY <3>2, <3>4, <3>5
  <2> QED BY <2>1, <2>2
<1>10. ASSUME NEW m \in Msgs, NEW l \in Labels, <<m, l>> \notin contested'
       PROVE  /\ \A i, j \in Waiting(table, m, l) : i = j
              /\ \A i \in Waiting(table, m, l) :
                    /\ (l \in table[i].add) = (l \in intent'[m])
                    /\ Applied(i)' => (l \in server'[m]) = (l \in intent'[m])
              /\ Waiting(table, m, l) = {} => (l \in server'[m]) = (l \in intent'[m])
  <2>1. CASE <<m, l>> \in changed
    <3>1. Waiting(ops, m, l) = {}
      BY <1>4, <1>10, <2>1
    <3>2. PICK i \in DOMAIN table : /\ table[i].add = e.add /\ ~ Applied(i)'
                                   /\ Waiting(table, m, l) = {i}
      BY <1>8, <2>1, <3>1
    <3>3. m \in Q /\ l \in Touches(e)
      BY <1>8, <2>1
    <3>4. l \in e.add <=> l \in intent'[m]
      BY <1>4, <1>6, <3>3
    <3> QED BY <3>2, <3>3, <3>4
  <2>2. CASE <<m, l>> \notin changed
    <3>1. <<m, l>> \notin contested
      BY <1>4, <1>10, <2>2
    <3>2. l \in intent'[m] <=> l \in intent[m]
      BY <1>4, <1>5, <1>6, <2>2
    <3>3. /\ Waiting(table, m, l) = Waiting(ops, m, l)
          /\ \A i \in Waiting(ops, m, l) : table[i] = ops[i]
      BY <1>1, <1>7, <2>2 DEF Waiting
    <3>4. /\ \A i, j \in Waiting(ops, m, l) : i = j
          /\ \A i \in Waiting(ops, m, l) :
                /\ (l \in ops[i].add) = (l \in intent[m])
                /\ Applied(i) => (l \in server[m]) = (l \in intent[m])
          /\ Waiting(ops, m, l) = {} => (l \in server[m]) = (l \in intent[m])
      BY <3>1 DEF Labelling, OneChangeWaits, LastEditReaches
    <3>5. (l \in server'[m]) = (l \in server[m])
      OBVIOUS
    <3>6. \A i \in Waiting(ops, m, l) :
             /\ (l \in table[i].add) = (l \in intent'[m])
             /\ Applied(i)' => (l \in server'[m]) = (l \in intent'[m])
      BY <3>2, <3>3, <3>4, <3>5
    <3> QED BY <3>2, <3>3, <3>4, <3>5, <3>6
  <2> QED BY <2>1, <2>2
<1>11. DivergenceHasCause'
  BY <1>2, <1>9 DEF DivergenceHasCause
<1>12. OneChangeWaits'
  BY <1>2, <1>10 DEF OneChangeWaits
<1>13. LastEditReaches'
  BY <1>2, <1>10 DEF LastEditReaches
<1> QED BY <1>11, <1>12, <1>13

\* What the process forgets when it dies, the sync asks for again.
LEMMA DiesNews ==
    ASSUME LabelType, Dies
    PROVE  /\ DeltaCurrent' /\ server' = server
           /\ \A m \in Msgs, l \in Labels : NewsOf(m, l)' <=> NewsOf(m, l)
<1>1. \A m \in Msgs : delta'[m].on = {} /\ delta'[m].off = {}
  BY DEF Dies, ProcessEnds, NoDelta
<1>2. \A m \in Msgs : touched'[m] = touched[m] \cup delta[m].on \cup delta[m].off
  BY DEF Dies
<1> QED BY <1>1, <1>2 DEF Dies, ProcessEnds, DeltaCurrent, NewsOf

LEMMA DiesTypes ==
    ASSUME LabelType, Dies
    PROVE  /\ server' \in [Msgs -> SUBSET Labels] /\ touched' \in [Msgs -> SUBSET Labels]
           /\ delta' \in [Msgs -> [on : SUBSET Labels, off : SUBSET Labels]]
           /\ others' \in Nat /\ faults' \in Nat /\ crashes' \in Nat
<1>1. delta' = [m \in Msgs |-> [on |-> {}, off |-> {}]]
  BY DEF Dies, ProcessEnds, NoDelta
<1>2. \A m \in Msgs : touched[m] \cup delta[m].on \cup delta[m].off \in SUBSET Labels
  BY DEF LabelType
<1> QED BY <1>1, <1>2 DEF Dies, ProcessEnds, LabelType

\* The types of what an edit changes.
LEMMA EditTypes ==
    ASSUME LabelType, NEW Q \in SUBSET Msgs, NEW U \in SUBSET Msgs, NEW e \in Edits,
           applyLabelDiff(Q \cup U, e), Wished(Q, U, e)
    PROVE  /\ cache' \in [Msgs -> SUBSET Labels] /\ intent' \in [Msgs -> SUBSET Labels]
           /\ contested' \subseteq Msgs \X Labels /\ dropped' \subseteq Msgs \X Labels
<1>1. e.add \in SUBSET Labels /\ e.remove \in SUBSET Labels
  BY PendingAssumption
<1>2. \A S \in SUBSET Labels : After(S, e) \in SUBSET Labels
  BY <1>1 DEF After
<1>3. cache' \in [Msgs -> SUBSET Labels] /\ intent' \in [Msgs -> SUBSET Labels]
  BY <1>2 DEF LabelType, applyLabelDiff, Wished
<1>4. \A m \in Msgs : Pairs(m, Touches(e)) \subseteq Msgs \X Labels
  BY <1>1 DEF Pairs, Touches
<1>5. UNION {Pairs(m, Touches(e)) : m \in Q} \subseteq Msgs \X Labels
  BY <1>4
<1>6. UNION {Pairs(m, Touches(e)) : m \in U} \subseteq Msgs \X Labels
  BY <1>4
<1>7. contested' \subseteq Msgs \X Labels /\ dropped' \subseteq Msgs \X Labels
  BY <1>5, <1>6 DEF LabelType, Wished
<1> QED BY <1>3, <1>7

LEMMA EditStep ==
    ASSUME IInv, NEW T \in Threads, NEW e \in Edits, applyLabelDiffToThread(T, e)
    PROVE  IInv'
<1>1. TableType /\ LabelType /\ Table /\ Labelling
  BY IInvParts
<1>2. T \in SUBSET Msgs /\ {} \in SUBSET Msgs /\ T \cup {} = T
  BY PendingAssumption
<1>3. /\ lastId + Cardinality(T) <= MaxOps /\ lastId' = lastId + Cardinality(T)
      /\ applyLabelDiff(T, e) /\ flush(enqueueModify(T, e)) /\ Wished(T, {}, e)
      /\ UNCHANGED <<server, touched, delta, others, faults, crashes>>
  BY DEF applyLabelDiffToThread, gmailVars, boundVars
<1>4. RowsInOrder /\ CallsOfRows
  BY <1>1 DEF Table
<1>5. /\ TableType' /\ Table' /\ ops' = enqueueModify(T, e)
      /\ \A i : Applied(i)' <=> Applied(i)
  <2> DEFINE table == enqueueModify(T, e)
  <2>1. /\ table \in [DOMAIN table -> Op]
        /\ lastId' \in lastId .. MaxOps
        /\ DOMAIN ops \subseteq DOMAIN table /\ DOMAIN table \subseteq 1 .. lastId'
        /\ \A i \in DOMAIN ops : table[i] = ops[i]
        /\ \A i \in DOMAIN table : table[i].add \cap table[i].remove = {}
    BY <1>1, <1>2, <1>3, <1>4, EnqueuedTable
  <2>2. flush(table)
    BY <1>3
  <2> HIDE DEF table
  <2>3. /\ TableType' /\ Table' /\ ops' = table
        /\ \A i : Applied(i)' <=> Applied(i)
    BY <1>1, <2>1, <2>2, FlushStep
  <2> QED BY <2>3 DEF table
<1>6. LabelType'
  BY <1>1, <1>2, <1>3, EditTypes DEF LabelType
<1>7. DeltaCurrent' /\ \A m \in Msgs, l \in Labels : NewsOf(m, l) => NewsOf(m, l)'
  BY <1>1, <1>3 DEF Labelling, DeltaCurrent, NewsOf
<1>8. DivergenceHasCause' /\ OneChangeWaits' /\ LastEditReaches'
  BY <1>1, <1>2, <1>3, <1>4, <1>5, <1>7, EditLabels
<1> QED BY <1>1, <1>5, <1>6, <1>7, <1>8, IInvParts DEF Labelling

LEMMA CrashInEditStep ==
    ASSUME IInv, NEW S \in SUBSET Msgs, NEW m \in Msgs, NEW e \in Edits,
           CrashInEdit(S, m, e)
    PROVE  IInv'
<1>1. TableType /\ LabelType /\ Table /\ Labelling
  BY IInvParts
<1>2. /\ lastId + Cardinality(S) <= MaxOps /\ lastId' = lastId + Cardinality(S)
      /\ applyLabelDiff(S \cup {m}, e) /\ ops' = enqueueModify(S, e) /\ Wished(S, {m}, e)
      /\ Dies
  BY DEF CrashInEdit
<1>3. RowsInOrder /\ CallsOfRows
  BY <1>1 DEF Table
<1>4. /\ ops' \in [DOMAIN ops' -> Op] /\ lastId' \in 0 .. MaxOps
      /\ DOMAIN ops' \subseteq 1 .. lastId'
      /\ \A i \in DOMAIN ops' : ops'[i].add \cap ops'[i].remove = {}
  <2> DEFINE table == enqueueModify(S, e)
  <2>1. /\ table \in [DOMAIN table -> Op] /\ lastId' \in lastId .. MaxOps
        /\ DOMAIN table \subseteq 1 .. lastId'
        /\ \A i \in DOMAIN table : table[i].add \cap table[i].remove = {}
    BY <1>1, <1>2, <1>3, EnqueuedTable
  <2>2. ops' = table
    BY <1>2
  <2> HIDE DEF table
  <2> QED BY <1>1, <2>1, <2>2, PendingAssumption DEF TableType
<1>5. busy' = FALSE /\ remaining' = 0 /\ calls' = {}
  BY <1>2 DEF Dies, ProcessEnds
<1>6. TableType' /\ Table'
  <2>1. Cardinality(calls') = 0 /\ IsFiniteSet(calls')
    BY <1>5, FS_EmptySet
  <2>2. DOMAIN ops' \subseteq Ids
    BY <1>4, PendingAssumption DEF Ids
  <2>3. TableType'
    BY <1>4, <1>5, <2>2 DEF TableType
  <2>4. RowsInOrder' /\ CallsOfRows' /\ BatchExact'
    BY <1>4, <1>5, <2>1 DEF RowsInOrder, CallsOfRows, BatchExact
  <2> QED BY <2>3, <2>4 DEF Table
<1>7. LabelType'
  BY <1>1, <1>2, DiesTypes, EditTypes DEF LabelType
<1>8. DeltaCurrent' /\ server' = server
      /\ \A n \in Msgs, l \in Labels : NewsOf(n, l)' <=> NewsOf(n, l)
  BY <1>1, <1>2, DiesNews
<1>9. \A i : ~ Applied(i)'
  BY <1>5 DEF Applied
<1>10. DivergenceHasCause' /\ OneChangeWaits' /\ LastEditReaches'
  BY <1>1, <1>2, <1>3, <1>8, <1>9, EditLabels
<1> QED BY <1>6, <1>7, <1>8, <1>10, IInvParts DEF Labelling

LEMMA CrashStep == IInv /\ Crash => IInv'
<1> SUFFICES ASSUME IInv, Crash
             PROVE  IInv'
  OBVIOUS
<1>1. TableType /\ LabelType /\ Table /\ Labelling
  BY IInvParts
<1>2. Dies /\ UNCHANGED <<cache, ops, lastId, intent, contested, dropped>>
  BY DEF Crash, tableVars, intentVars
<1>3. busy' = FALSE /\ remaining' = 0 /\ calls' = {}
  BY <1>2 DEF Dies, ProcessEnds
<1>4. TableType'
  BY <1>1, <1>2, <1>3 DEF TableType
<1>5. Table'
  <2>1. Cardinality(calls') = 0 /\ IsFiniteSet(calls')
    BY <1>3, FS_EmptySet
  <2> QED BY <1>1, <1>2, <1>3, <2>1 DEF Table, RowsInOrder, CallsOfRows, BatchExact
<1>6. LabelType'
  BY <1>1, <1>2, DiesTypes DEF LabelType
<1>7. DeltaCurrent' /\ server' = server
      /\ \A m \in Msgs, l \in Labels : NewsOf(m, l)' <=> NewsOf(m, l)
  BY <1>1, <1>2, DiesNews
<1>8. /\ \A i : ~ Applied(i)'
      /\ \A m, l : Waiting(ops, m, l)' = Waiting(ops, m, l) /\ (Diverges(m, l)' <=> Diverges(m, l))
  BY <1>2, <1>3, <1>7 DEF Applied, Waiting, Diverges
<1>9. DivergenceHasCause'
  BY <1>1, <1>2, <1>7, <1>8 DEF Labelling, DivergenceHasCause
<1>10. OneChangeWaits' /\ LastEditReaches'
  BY <1>1, <1>2, <1>7, <1>8 DEF Labelling, OneChangeWaits, LastEditReaches
<1> QED BY <1>4, <1>5, <1>6, <1>7, <1>9, <1>10, IInvParts DEF Labelling

-----------------------------------------------------------------------------
(* Changes in the mailbox.                                                 *)

\* A change that is made is in the history; what is not in it is as it was.
LEMMA ChangeIsNews ==
    ASSUME LabelType, DeltaCurrent, NEW m \in Msgs, NEW L \in SUBSET Labels,
           Change(m, L), delta' = delta
    PROVE  /\ server' \in [Msgs -> SUBSET Labels] /\ touched' \in [Msgs -> SUBSET Labels]
           /\ server'[m] = L /\ \A n \in Msgs \ {m} : server'[n] = server[n]
           /\ DeltaCurrent'
           /\ \A n \in Msgs, l \in Labels :
                 ~ NewsOf(n, l)' => ~ NewsOf(n, l) /\ (l \in server'[n] <=> l \in server[n])
<1>1. server' = [server EXCEPT ![m] = L]
      /\ touched' = [touched EXCEPT ![m] = @ \cup (server[m] \ L) \cup (L \ server[m])]
  BY DEF Change
<1>2. /\ server' \in [Msgs -> SUBSET Labels] /\ touched' \in [Msgs -> SUBSET Labels]
      /\ server'[m] = L /\ \A n \in Msgs \ {m} : server'[n] = server[n]
      /\ touched'[m] = touched[m] \cup (server[m] \ L) \cup (L \ server[m])
      /\ \A n \in Msgs \ {m} : touched'[n] = touched[n]
  BY <1>1 DEF LabelType
<1>3. \A n \in Msgs, l \in Labels :
         l \notin touched'[n] => l \notin touched[n] /\ (l \in server'[n] <=> l \in server[n])
  BY <1>2
<1>4. DeltaCurrent'
  BY <1>3 DEF DeltaCurrent
<1>5. \A n \in Msgs, l \in Labels :
         ~ NewsOf(n, l)' => ~ NewsOf(n, l) /\ (l \in server'[n] <=> l \in server[n])
  BY <1>3 DEF NewsOf
<1> QED BY <1>2, <1>4, <1>5

\* A call that moves on stays the call of its row.
LEMMA CallMoved ==
    ASSUME TableType, Table, NEW c \in calls, NEW d \in Call, d.id = c.id, d.op = c.op,
           calls' = (calls \ {c}) \cup {d}, UNCHANGED <<ops, lastId, busy, remaining>>
    PROVE  TableType' /\ Table'
<1>1. d \notin calls \ {c}
  BY DEF Table, CallsOfRows
<1>2. BatchExact'
  <2>1. IsFiniteSet(calls) /\ remaining = Cardinality(calls) /\ (busy <=> remaining > 0)
    BY DEF Table, BatchExact
  <2>2. IsFiniteSet(calls \ {c}) /\ Cardinality(calls \ {c}) = Cardinality(calls) - 1
    BY <2>1, FS_RemoveElement
  <2>3. IsFiniteSet(calls') /\ Cardinality(calls') = Cardinality(calls \ {c}) + 1
    BY <1>1, <2>2, FS_AddElement
  <2>4. Cardinality(calls) \in Nat
    BY <2>1, FS_CardinalityType
  <2>5. Cardinality(calls') = Cardinality(calls)
    BY <2>2, <2>3, <2>4
  <2> QED BY <2>1, <2>3, <2>5 DEF BatchExact
<1>3. TableType'
  BY DEF TableType
<1>4. RowsInOrder' /\ CallsOfRows'
  BY DEF Table, RowsInOrder, CallsOfRows
<1> QED BY <1>2, <1>3, <1>4 DEF Table

\* A change that is sent again has been made once: whoever waited for it waits on.
LEMMA ResentStep ==
    ASSUME IInv, NEW c \in calls, Resent(c)
    PROVE  IInv'
<1>1. TableType /\ LabelType /\ Table /\ Labelling
  BY IInvParts
<1> DEFINE d == [c EXCEPT !.at = "sent"]
<1>2. /\ calls' = (calls \ {c}) \cup {d} /\ faults' = faults + 1
      /\ UNCHANGED <<cache, ops, lastId, busy, remaining, server, touched, delta, intent, contested,
                     dropped, others, crashes>>
  BY DEF Resent, Fault, tableVars, gmailVars, intentVars
<1>3. c \in Call
  BY <1>1 DEF TableType
<1>4. d \in Call /\ d.id = c.id /\ d.op = c.op /\ d.at = "sent"
  BY <1>3 DEF Call
<1> HIDE DEF d
<1>5. TableType' /\ Table'
  BY <1>1, <1>2, <1>4, CallMoved
<1>6. \A i : Applied(i)' => Applied(i)
  BY <1>2, <1>4 DEF Applied
<1>7. \A m, l : Waiting(ops, m, l)' = Waiting(ops, m, l)
  BY <1>2 DEF Waiting
<1>8. \A m, l : /\ Diverges(m, l)' <=> Diverges(m, l)
                /\ NewsOf(m, l)' <=> NewsOf(m, l)
  BY <1>2 DEF Diverges, NewsOf
<1>9. LabelType' /\ DeltaCurrent'
  BY <1>1, <1>2 DEF LabelType, Labelling, DeltaCurrent
<1>10. DivergenceHasCause'
  BY <1>1, <1>2, <1>6, <1>7, <1>8 DEF Labelling, DivergenceHasCause
<1>11. OneChangeWaits' /\ LastEditReaches'
  BY <1>1, <1>2, <1>6, <1>7 DEF Labelling, OneChangeWaits, LastEditReaches
<1> QED BY <1>5, <1>9, <1>10, <1>11, IInvParts DEF Labelling

LEMMA ApplyStep ==
    ASSUME IInv, NEW c \in calls, Apply(c)
    PROVE  IInv'
<1>1. TableType /\ LabelType /\ Table /\ Labelling
  BY IInvParts
<1> DEFINE d == [c EXCEPT !.at = "applied"]
           m == c.op.msg
<1>2. /\ c.at = "sent" /\ calls' = (calls \ {c}) \cup {d}
      /\ Change(m, After(server[m], c.op))
      /\ UNCHANGED <<cache, ops, lastId, busy, remaining, delta, intent, contested, dropped,
                     others, faults, crashes>>
  BY DEF Apply, tableVars, intentVars, boundVars
<1>3. /\ c \in Call /\ c.op = ops[c.id] /\ c.id \in DOMAIN ops /\ c.op \in Op
      /\ c.op.add \cap c.op.remove = {}
  BY <1>1 DEF TableType, Table, CallsOfRows, RowsInOrder, Call
<1>4. d \in Call /\ d.id = c.id /\ d.op = c.op /\ d.at = "applied"
  BY <1>3 DEF Call
<1> HIDE DEF d
<1>5. TableType' /\ Table'
  BY <1>1, <1>2, <1>4, CallMoved
<1>9. \A i : Applied(i)' <=> Applied(i) \/ i = c.id
  BY <1>1, <1>2, <1>4 DEF Applied
<1>10. m \in Msgs /\ After(server[m], c.op) \in SUBSET Labels
  BY <1>1, <1>3 DEF LabelType, Op, After
<1> HIDE DEF m
<1>11. /\ server' \in [Msgs -> SUBSET Labels] /\ touched' \in [Msgs -> SUBSET Labels]
       /\ server'[m] = After(server[m], c.op)
       /\ \A n \in Msgs \ {m} : server'[n] = server[n]
       /\ DeltaCurrent'
       /\ \A n \in Msgs, l \in Labels :
             ~ NewsOf(n, l)' => ~ NewsOf(n, l) /\ (l \in server'[n] <=> l \in server[n])
  BY <1>1, <1>2, <1>10, ChangeIsNews DEF Labelling
<1>12. LabelType'
  BY <1>1, <1>2, <1>11 DEF LabelType
<1>13. \A n, l : Waiting(ops, n, l)' = Waiting(ops, n, l)
  BY <1>2 DEF Waiting
\* Where c's operation waits, the mailbox is as that operation wants it.
<1>14. ASSUME NEW n \in Msgs, NEW l \in Labels, c.id \in Waiting(ops, n, l)
       PROVE  l \in server'[n] <=> l \in ops[c.id].add
  <2>1. n = m /\ l \in Touches(c.op)
    BY <1>3, <1>14 DEF Waiting, m
  <2>2. l \in After(server[m], c.op) <=> l \in c.op.add
    BY <1>3, <2>1 DEF After, Touches
  <2> QED BY <1>3, <1>11, <2>1, <2>2
\* Elsewhere it is as it was.
<1>15. ASSUME NEW n \in Msgs, NEW l \in Labels, c.id \notin Waiting(ops, n, l)
       PROVE  l \in server'[n] <=> l \in server[n]
  <2>1. n # m \/ l \notin Touches(c.op)
    BY <1>3, <1>15 DEF Waiting, m
  <2>2. l \notin Touches(c.op) => (l \in After(server[m], c.op) <=> l \in server[m])
    BY DEF After, Touches
  <2> QED BY <1>11, <2>1, <2>2
<1>16. DivergenceHasCause'
  <2>1. ASSUME NEW n \in Msgs, NEW l \in Labels, Diverges(n, l)', ~ NewsOf(n, l)',
               <<n, l>> \notin dropped
        PROVE  \E i \in Waiting(ops, n, l) : /\ (l \in ops[i].add) = (l \in cache[n])
                                            /\ ~ Applied(i)'
    <3>1. Diverges(n, l) /\ ~ NewsOf(n, l)
      BY <1>2, <1>11, <2>1 DEF Diverges
    <3>2. PICK i \in Waiting(ops, n, l) : (l \in ops[i].add) = (l \in cache[n]) /\ ~ Applied(i)
      BY <1>1, <2>1, <3>1 DEF Labelling, DivergenceHasCause
    <3>3. i # c.id
      BY <1>2, <1>14, <2>1, <3>2 DEF Diverges
    <3> QED BY <1>9, <3>2, <3>3
  <2> QED BY <1>2, <1>13, <2>1 DEF DivergenceHasCause
<1>17. ASSUME NEW n \in Msgs, NEW l \in Labels, <<n, l>> \notin contested
       PROVE  /\ \A i, j \in Waiting(ops, n, l) : i = j
              /\ \A i \in Waiting(ops, n, l) :
                    /\ (l \in ops[i].add) = (l \in intent[n])
                    /\ Applied(i)' => (l \in server'[n]) = (l \in intent[n])
              /\ Waiting(ops, n, l) = {} => (l \in server'[n]) = (l \in intent[n])
  <2>1. /\ \A i, j \in Waiting(ops, n, l) : i = j
        /\ \A i \in Waiting(ops, n, l) :
              /\ (l \in ops[i].add) = (l \in intent[n])
              /\ Applied(i) => (l \in server[n]) = (l \in intent[n])
        /\ Waiting(ops, n, l) = {} => (l \in server[n]) = (l \in intent[n])
    BY <1>1, <1>17 DEF Labelling, OneChangeWaits, LastEditReaches
  <2>2. CASE c.id \in Waiting(ops, n, l)
    BY <1>14, <2>1, <2>2
  <2>3. CASE c.id \notin Waiting(ops, n, l)
    BY <1>9, <1>15, <2>1, <2>3
  <2> QED BY <2>2, <2>3
<1>18. OneChangeWaits' /\ LastEditReaches'
  BY <1>2, <1>13, <1>17 DEF OneChangeWaits, LastEditReaches
<1> QED BY <1>5, <1>11, <1>12, <1>16, <1>18, IInvParts DEF Labelling

LEMMA OtherClientStep ==
    ASSUME IInv, NEW m \in Msgs, NEW l \in Labels, OtherClient(m, l)
    PROVE  IInv'
<1>1. TableType /\ LabelType /\ Table /\ Labelling
  BY IInvParts
<1> DEFINE L == IF l \in server[m] THEN server[m] \ {l} ELSE server[m] \cup {l}
<1>2. /\ Change(m, L) /\ contested' = contested \cup {<<m, l>>} /\ others' = others + 1
      /\ UNCHANGED <<cache, ops, lastId, busy, remaining, calls, delta, intent, dropped,
                     faults, crashes>>
  BY DEF OtherClient, tableVars, batchVars
<1>3. L \in SUBSET Labels /\ \A k : k # l => (k \in L <=> k \in server[m])
  BY <1>1 DEF LabelType
<1> HIDE DEF L
<1>4. /\ server' \in [Msgs -> SUBSET Labels] /\ touched' \in [Msgs -> SUBSET Labels]
      /\ server'[m] = L /\ \A n \in Msgs \ {m} : server'[n] = server[n]
      /\ DeltaCurrent'
      /\ \A n \in Msgs, k \in Labels :
            ~ NewsOf(n, k)' => ~ NewsOf(n, k) /\ (k \in server'[n] <=> k \in server[n])
  BY <1>1, <1>2, <1>3, ChangeIsNews DEF Labelling
<1>5. TableType'
  BY <1>1, <1>2 DEF TableType
<1>6. Table'
  BY <1>1, <1>2 DEF Table, RowsInOrder, CallsOfRows, BatchExact
<1>7. LabelType'
  BY <1>1, <1>2, <1>4 DEF LabelType
<1>8. /\ \A n, k : Waiting(ops, n, k)' = Waiting(ops, n, k)
      /\ \A i : Applied(i)' <=> Applied(i)
  BY <1>2 DEF Waiting, Applied
<1>9. \A n \in Msgs, k \in Labels :
         ~ NewsOf(n, k)' /\ Diverges(n, k)' => ~ NewsOf(n, k) /\ Diverges(n, k)
  BY <1>2, <1>4 DEF Diverges
<1>10. DivergenceHasCause'
  BY <1>1, <1>2, <1>8, <1>9 DEF Labelling, DivergenceHasCause
<1>11. \A n \in Msgs, k \in Labels :
          <<n, k>> \notin contested' => /\ <<n, k>> \notin contested
                                       /\ (k \in server'[n] <=> k \in server[n])
  BY <1>2, <1>3, <1>4
<1>12. OneChangeWaits' /\ LastEditReaches'
  BY <1>1, <1>2, <1>8, <1>11 DEF Labelling, OneChangeWaits, LastEditReaches
<1> QED BY <1>4, <1>5, <1>6, <1>7, <1>10, <1>12, IInvParts DEF Labelling

-----------------------------------------------------------------------------
(* The callback of a call.                                                 *)

\* A callback removes its row or counts one more attempt; nothing else of the
\* table changes.
LEMMA RowRemoved ==
    ASSUME TableType, Table, NEW c \in calls, remove(c.id), onDone(c), lastId' = lastId
    PROVE  /\ TableType' /\ Table'
           /\ \A i : Applied(i)' <=> Applied(i) /\ i # c.id
           /\ \A i \in DOMAIN ops' : ops'[i] = ops[i]
           /\ \A m, l : Waiting(ops, m, l)' = Waiting(ops, m, l) \ {c.id}
<1>1. ops' = [i \in DOMAIN ops \ {c.id} |-> ops[i]]
  BY DEF remove
<1>2. /\ calls' = calls \ {c} /\ remaining' \in Nat /\ busy' \in BOOLEAN /\ BatchExact'
  BY EndOfCall DEF Table
<1>3. \A d \in calls' : d \in calls /\ d.id # c.id
  BY <1>2 DEF Table, CallsOfRows
<1>4. DOMAIN ops' = DOMAIN ops \ {c.id} /\ \A i \in DOMAIN ops' : ops'[i] = ops[i]
  BY <1>1
<1>5. ops' \in [DOMAIN ops' -> Op]
  BY <1>1, <1>4 DEF TableType
<1>6. TableType'
  BY <1>2, <1>4, <1>5 DEF TableType
<1>7. RowsInOrder' /\ CallsOfRows'
  BY <1>3, <1>4 DEF Table, RowsInOrder, CallsOfRows
<1>8. \A i : Applied(i)' <=> Applied(i) /\ i # c.id
  BY <1>2, <1>3 DEF Applied
<1>9. \A m, l : Waiting(ops, m, l)' = Waiting(ops, m, l) \ {c.id}
  BY <1>4 DEF Waiting
<1> QED BY <1>2, <1>4, <1>6, <1>7, <1>8, <1>9 DEF Table

LEMMA RowKept ==
    ASSUME TableType, Table, NEW c \in calls, c.op.attempts + 1 < kGiveUpAttempts,
           markAttempt(c.id), onDone(c), lastId' = lastId
    PROVE  /\ TableType' /\ Table'
           /\ \A i : Applied(i)' <=> Applied(i) /\ i # c.id
           /\ DOMAIN ops' = DOMAIN ops /\ \A i \in DOMAIN ops : ops'[i].add = ops[i].add
           /\ \A m, l : Waiting(ops, m, l)' = Waiting(ops, m, l)
<1>1. ops' = [ops EXCEPT ![c.id].attempts = @ + 1]
  BY DEF markAttempt
<1>2. /\ calls' = calls \ {c} /\ remaining' \in Nat /\ busy' \in BOOLEAN /\ BatchExact'
  BY EndOfCall DEF Table
<1>3. \A d \in calls' : d \in calls /\ d.id # c.id
  BY <1>2 DEF Table, CallsOfRows
<1>4. c.id \in DOMAIN ops /\ ops[c.id] \in Op /\ ops[c.id].attempts + 1 < kGiveUpAttempts
  BY DEF Table, CallsOfRows, TableType
<1>5. [ops[c.id] EXCEPT !.attempts = @ + 1] \in Op
  BY <1>4, PendingAssumption DEF Op
<1>6. ops' = [ops EXCEPT ![c.id] = [ops[c.id] EXCEPT !.attempts = @ + 1]]
  BY <1>1
<1>7. /\ DOMAIN ops' = DOMAIN ops /\ ops' \in [DOMAIN ops -> Op]
      /\ \A i \in DOMAIN ops \ {c.id} : ops'[i] = ops[i]
  BY <1>5, <1>6 DEF TableType
<1>8. \A i \in DOMAIN ops : /\ ops'[i].msg = ops[i].msg /\ ops'[i].add = ops[i].add
                            /\ ops'[i].remove = ops[i].remove
  <2>1. /\ ops'[c.id].msg = ops[c.id].msg /\ ops'[c.id].add = ops[c.id].add
        /\ ops'[c.id].remove = ops[c.id].remove
    BY <1>4, <1>6 DEF Op
  <2> QED BY <1>7, <2>1
<1>9. TableType'
  BY <1>2, <1>7 DEF TableType
<1>10. RowsInOrder' /\ CallsOfRows'
  BY <1>3, <1>7, <1>8 DEF Table, RowsInOrder, CallsOfRows
<1>11. \A i : Applied(i)' <=> Applied(i) /\ i # c.id
  BY <1>2, <1>3 DEF Applied
<1>12. \A m, l : Waiting(ops, m, l)' = Waiting(ops, m, l)
  BY <1>7, <1>8 DEF Waiting, Touches
<1> QED BY <1>2, <1>7, <1>8, <1>9, <1>10, <1>11, <1>12 DEF Table

LEMMA ReconciledStep ==
    ASSUME IInv, NEW c \in calls, itemReconciled(c)
    PROVE  IInv'
<1>1. TableType /\ LabelType /\ Table /\ Labelling
  BY IInvParts
<1>2. /\ c.at = "applied" /\ remove(c.id) /\ onDone(c)
      /\ UNCHANGED <<cache, lastId, server, touched, delta, intent, contested, dropped,
                     others, faults, crashes>>
  BY DEF itemReconciled, gmailVars, intentVars, boundVars
<1>3. /\ TableType' /\ Table'
      /\ \A i : Applied(i)' <=> Applied(i) /\ i # c.id
      /\ \A i \in DOMAIN ops' : ops'[i] = ops[i]
      /\ \A m, l : Waiting(ops, m, l)' = Waiting(ops, m, l) \ {c.id}
  BY <1>1, <1>2, RowRemoved
<1>4. \A m, l : \A i \in Waiting(ops, m, l) \ {c.id} : ops'[i] = ops[i]
  BY <1>2, <1>3 DEF Waiting, remove
<1>5. Applied(c.id)
  BY <1>2 DEF Applied
<1>6. LabelType' /\ DeltaCurrent'
  BY <1>1, <1>2 DEF LabelType, Labelling, DeltaCurrent
<1>7. \A m \in Msgs, l \in Labels : /\ Diverges(m, l)' <=> Diverges(m, l)
                                    /\ NewsOf(m, l)' <=> NewsOf(m, l)
  BY <1>2 DEF Diverges, NewsOf
<1>8. DivergenceHasCause'
  <2>1. ASSUME NEW m \in Msgs, NEW l \in Labels, Diverges(m, l), ~ NewsOf(m, l),
               <<m, l>> \notin dropped
        PROVE  \E i \in Waiting(ops, m, l) \ {c.id} : /\ (l \in ops'[i].add) = (l \in cache[m])
                                                     /\ ~ Applied(i)'
    <3>1. PICK i \in Waiting(ops, m, l) : (l \in ops[i].add) = (l \in cache[m]) /\ ~ Applied(i)
      BY <1>1, <2>1 DEF Labelling, DivergenceHasCause
    <3> QED BY <1>3, <1>4, <1>5, <3>1
  <2> QED BY <1>2, <1>3, <1>7, <2>1 DEF DivergenceHasCause
<1>9. ASSUME NEW m \in Msgs, NEW l \in Labels, <<m, l>> \notin contested
      PROVE  /\ \A i, j \in Waiting(ops, m, l) : i = j
             /\ \A i \in Waiting(ops, m, l) :
                   /\ (l \in ops[i].add) = (l \in intent[m])
                   /\ Applied(i) => (l \in server[m]) = (l \in intent[m])
             /\ Waiting(ops, m, l) \ {c.id} = {} => (l \in server[m]) = (l \in intent[m])
  BY <1>1, <1>5, <1>9 DEF Labelling, OneChangeWaits, LastEditReaches
<1>10. OneChangeWaits'
  BY <1>2, <1>3, <1>4, <1>9 DEF OneChangeWaits
<1>11. LastEditReaches'
  BY <1>2, <1>3, <1>9 DEF LastEditReaches
<1> QED BY <1>3, <1>6, <1>8, <1>10, <1>11, IInvParts DEF Labelling

LEMMA DroppedStep ==
    ASSUME IInv, NEW c \in calls, itemDropped(c), onDone(c), Fault,
           UNCHANGED <<cache, lastId, gmailVars, delta>>
    PROVE  IInv'
<1>1. TableType /\ LabelType /\ Table /\ Labelling
  BY IInvParts
<1> DEFINE pairs == Pairs(c.op.msg, Touches(c.op))
<1>2. /\ remove(c.id) /\ contested' = contested \cup pairs /\ dropped' = dropped \cup pairs
      /\ UNCHANGED <<cache, lastId, server, touched, delta, intent, others, crashes>>
      /\ faults' = faults + 1
  BY DEF itemDropped, gmailVars, Fault
<1>3. /\ TableType' /\ Table'
      /\ \A i : Applied(i)' <=> Applied(i) /\ i # c.id
      /\ \A i \in DOMAIN ops' : ops'[i] = ops[i]
      /\ \A m, l : Waiting(ops, m, l)' = Waiting(ops, m, l) \ {c.id}
  BY <1>1, <1>2, RowRemoved
<1>4. c.op = ops[c.id] /\ c.op \in Op
  BY <1>1 DEF Table, CallsOfRows, TableType
<1>5. pairs \subseteq Msgs \X Labels
  BY <1>4 DEF Op, Pairs, Touches
<1>6. \A m, l : <<m, l>> \notin pairs => c.id \notin Waiting(ops, m, l)
  BY <1>4 DEF Waiting, Pairs
<1> HIDE DEF pairs
<1>7. LabelType' /\ DeltaCurrent'
  BY <1>1, <1>2, <1>5 DEF LabelType, Labelling, DeltaCurrent
<1>8. \A m \in Msgs, l \in Labels : /\ Diverges(m, l)' <=> Diverges(m, l)
                                    /\ NewsOf(m, l)' <=> NewsOf(m, l)
  BY <1>2 DEF Diverges, NewsOf
<1>9. ASSUME NEW m \in Msgs, NEW l \in Labels, <<m, l>> \notin pairs
      PROVE  /\ Waiting(ops, m, l)' = Waiting(ops, m, l)
             /\ \A i \in Waiting(ops, m, l) : ops'[i] = ops[i] /\ (Applied(i)' <=> Applied(i))
  BY <1>2, <1>3, <1>6, <1>9 DEF Waiting, remove
<1>10. DivergenceHasCause'
  BY <1>1, <1>2, <1>8, <1>9 DEF Labelling, DivergenceHasCause
<1>11. OneChangeWaits' /\ LastEditReaches'
  BY <1>1, <1>2, <1>9 DEF Labelling, OneChangeWaits, LastEditReaches
<1> QED BY <1>3, <1>7, <1>10, <1>11, IInvParts DEF Labelling

LEMMA RetriedStep ==
    ASSUME IInv, NEW c \in calls, c.op.attempts + 1 < kGiveUpAttempts, markAttempt(c.id),
           onDone(c), Fault, UNCHANGED <<cache, lastId, gmailVars, delta, intentVars>>
    PROVE  IInv'
<1>1. TableType /\ LabelType /\ Table /\ Labelling
  BY IInvParts
<1>2. /\ UNCHANGED <<cache, lastId, server, touched, delta, intent, contested, dropped,
                     others, crashes>>
      /\ faults' = faults + 1
  BY DEF gmailVars, intentVars, Fault
<1>3. /\ TableType' /\ Table'
      /\ \A i : Applied(i)' <=> Applied(i) /\ i # c.id
      /\ DOMAIN ops' = DOMAIN ops /\ \A i \in DOMAIN ops : ops'[i].add = ops[i].add
      /\ \A m, l : Waiting(ops, m, l)' = Waiting(ops, m, l)
  BY <1>1, <1>2, RowKept
<1>4. \A m, l : \A i \in Waiting(ops, m, l) : ops'[i].add = ops[i].add
  BY <1>3 DEF Waiting
<1>5. LabelType' /\ DeltaCurrent'
  BY <1>1, <1>2 DEF LabelType, Labelling, DeltaCurrent
<1>6. \A m \in Msgs, l \in Labels : /\ Diverges(m, l)' <=> Diverges(m, l)
                                    /\ NewsOf(m, l)' <=> NewsOf(m, l)
  BY <1>2 DEF Diverges, NewsOf
<1>7. DivergenceHasCause'
  BY <1>1, <1>2, <1>3, <1>4, <1>6 DEF Labelling, DivergenceHasCause
<1>8. OneChangeWaits' /\ LastEditReaches'
  BY <1>1, <1>2, <1>3, <1>4 DEF Labelling, OneChangeWaits, LastEditReaches
<1> QED BY <1>3, <1>5, <1>7, <1>8, IInvParts DEF Labelling

LEMMA CallbackStep ==
    ASSUME IInv, NEW c \in calls, Callback(c)
    PROVE  IInv'
<1>1. CASE itemReconciled(c)
  BY <1>1, ReconciledStep
<1>2. CASE CallFails(c)
  BY <1>2, DroppedStep, RetriedStep DEF CallFails, itemFailed
<1>3. CASE CallRejected(c)
  BY <1>3, DroppedStep DEF CallRejected
<1> QED BY <1>1, <1>2, <1>3 DEF Callback

-----------------------------------------------------------------------------
(* The incremental sync.                                                   *)

LEMMA HistoryAnsweredStep == IInv /\ HistoryAnswered => IInv'
<1> SUFFICES ASSUME IInv, HistoryAnswered
             PROVE  IInv'
  OBVIOUS
<1>1. TableType /\ LabelType /\ Table /\ Labelling
  BY IInvParts
<1>2. /\ delta = NoDelta
      /\ delta' = [m \in Msgs |-> [on |-> touched[m] \cap server[m],
                                   off |-> touched[m] \ server[m]]]
      /\ touched' = [m \in Msgs |-> {}]
      /\ UNCHANGED <<cache, ops, lastId, busy, remaining, calls, server, intent, contested,
                     dropped, others, faults, crashes>>
  BY DEF HistoryAnswered, tableVars, batchVars, intentVars, boundVars
<1>3. TableType' /\ Table'
  BY <1>1, <1>2 DEF TableType, Table, RowsInOrder, CallsOfRows, BatchExact
<1>4. delta' \in [Msgs -> [on : SUBSET Labels, off : SUBSET Labels]]
  BY <1>1, <1>2 DEF LabelType
<1>5. LabelType'
  BY <1>1, <1>2, <1>4 DEF LabelType
<1>6. \A m \in Msgs : /\ delta[m].on = {} /\ delta[m].off = {} /\ touched'[m] = {}
                      /\ delta'[m].on = touched[m] \cap server[m]
                      /\ delta'[m].off = touched[m] \ server[m]
  BY <1>2 DEF NoDelta
<1>7. DeltaCurrent'
  BY <1>2, <1>6 DEF DeltaCurrent
<1>8. \A m \in Msgs, l \in Labels : /\ Diverges(m, l)' <=> Diverges(m, l)
                                    /\ NewsOf(m, l)' <=> NewsOf(m, l)
  BY <1>2, <1>6 DEF Diverges, NewsOf
<1>9. /\ \A m, l : Waiting(ops, m, l)' = Waiting(ops, m, l)
      /\ \A i : Applied(i)' <=> Applied(i)
  BY <1>2 DEF Waiting, Applied
<1>10. DivergenceHasCause'
  BY <1>1, <1>2, <1>8, <1>9 DEF Labelling, DivergenceHasCause
<1>11. OneChangeWaits' /\ LastEditReaches'
  BY <1>1, <1>2, <1>9 DEF Labelling, OneChangeWaits, LastEditReaches
<1> QED BY <1>3, <1>5, <1>7, <1>10, <1>11, IInvParts DEF Labelling

\* What the sync was told either settles a label, or left it alone.
LEMMA ApplyDeltasStep == IInv /\ ApplyDeltas => IInv'
<1> SUFFICES ASSUME IInv, ApplyDeltas
             PROVE  IInv'
  OBVIOUS
<1>1. TableType /\ LabelType /\ Table /\ Labelling
  BY IInvParts
<1>2. /\ cache' = [m \in Msgs |-> (cache[m] \cup delta[m].on) \ delta[m].off]
      /\ delta' = [m \in Msgs |-> [on |-> {}, off |-> {}]]
      /\ UNCHANGED <<ops, lastId, busy, remaining, calls, server, touched, intent, contested,
                     dropped, others, faults, crashes>>
  BY DEF ApplyDeltas, NoDelta, tableVars, batchVars, gmailVars, intentVars, boundVars
<1>3. TableType' /\ Table'
  BY <1>1, <1>2 DEF TableType, Table, RowsInOrder, CallsOfRows, BatchExact
<1>4. /\ cache' \in [Msgs -> SUBSET Labels]
      /\ delta' \in [Msgs -> [on : SUBSET Labels, off : SUBSET Labels]]
  BY <1>1, <1>2 DEF LabelType
<1>5. LabelType'
  BY <1>1, <1>2, <1>4 DEF LabelType
<1>6. DeltaCurrent'
  BY <1>2 DEF DeltaCurrent
<1>7. ASSUME NEW m \in Msgs, NEW l \in Labels, Diverges(m, l)', ~ NewsOf(m, l)'
      PROVE  Diverges(m, l) /\ ~ NewsOf(m, l) /\ (l \in cache'[m] <=> l \in cache[m])
  <2>1. l \notin touched[m]
    BY <1>2, <1>7 DEF NewsOf
  <2>2. (l \in delta[m].on => l \in server[m]) /\ (l \in delta[m].off => l \notin server[m])
    BY <1>1, <2>1 DEF Labelling, DeltaCurrent
  <2>3. l \in cache'[m] <=> (l \in cache[m] \/ l \in delta[m].on) /\ l \notin delta[m].off
    BY <1>2
  <2>4. ~ ((l \in cache'[m]) <=> (l \in server[m]))
    BY <1>2, <1>7 DEF Diverges
  <2> QED BY <2>1, <2>2, <2>3, <2>4 DEF Diverges, NewsOf
<1>8. /\ \A m, l : Waiting(ops, m, l)' = Waiting(ops, m, l)
      /\ \A i : Applied(i)' <=> Applied(i)
  BY <1>2 DEF Waiting, Applied
<1>9. DivergenceHasCause'
  BY <1>1, <1>2, <1>7, <1>8 DEF Labelling, DivergenceHasCause
<1>10. OneChangeWaits' /\ LastEditReaches'
  BY <1>1, <1>2, <1>8 DEF Labelling, OneChangeWaits, LastEditReaches
<1> QED BY <1>3, <1>5, <1>6, <1>9, <1>10, IInvParts DEF Labelling

\* Of what a crash leaves half done, the wrong half is in `dropped'.
LEMMA CrashInSyncStep ==
    ASSUME IInv, NEW shown \in [Msgs -> SUBSET Labels], CrashInSync(shown)
    PROVE  IInv'
<1>1. TableType /\ LabelType /\ Table /\ Labelling
  BY IInvParts
<1> DEFINE wrong(m) == (delta[m].on \ shown[m]) \cup (delta[m].off \cap shown[m])
<1>2. /\ cache' = shown /\ dropped' = dropped \cup UNION {Pairs(m, wrong(m)) : m \in Msgs}
      /\ \A m \in Msgs, l \in Labels :
            l \notin delta[m].on \cup delta[m].off => (l \in shown[m] <=> l \in cache[m])
      /\ busy' = FALSE /\ remaining' = 0 /\ calls' = {}
      /\ delta' = [m \in Msgs |-> [on |-> {}, off |-> {}]] /\ crashes' = crashes + 1
      /\ UNCHANGED <<ops, lastId, server, touched, intent, contested, others, faults>>
  BY DEF CrashInSync, ProcessEnds, NoDelta, tableVars
<1>3. \A m \in Msgs : wrong(m) \in SUBSET Labels
  BY <1>1 DEF LabelType
<1>4. \A m \in Msgs, l \in Labels : <<m, l>> \in dropped' <=> <<m, l>> \in dropped \/ l \in wrong(m)
  BY <1>2 DEF Pairs
<1>5. dropped' \subseteq Msgs \X Labels
  BY <1>1, <1>2, <1>3 DEF LabelType, Pairs
<1>6. TableType'
  BY <1>1, <1>2 DEF TableType
<1>7. Table'
  <2>1. Cardinality(calls') = 0 /\ IsFiniteSet(calls')
    BY <1>2, FS_EmptySet
  <2> QED BY <1>1, <1>2, <2>1 DEF Table, RowsInOrder, CallsOfRows, BatchExact
<1>8. delta' \in [Msgs -> [on : SUBSET Labels, off : SUBSET Labels]]
  BY <1>2
<1> HIDE DEF wrong
<1>9. LabelType'
  <2>1. cache' \in [Msgs -> SUBSET Labels] /\ crashes' \in Nat
    BY <1>1, <1>2 DEF LabelType
  <2>2. UNCHANGED <<server, touched, intent, contested, others, faults>>
    BY <1>2
  <2> QED BY <1>1, <1>5, <1>8, <2>1, <2>2 DEF LabelType
<1>10. DeltaCurrent'
  BY <1>2 DEF DeltaCurrent
<1>11. ASSUME NEW m \in Msgs, NEW l \in Labels, Diverges(m, l)', ~ NewsOf(m, l)',
              <<m, l>> \notin dropped'
       PROVE  /\ Diverges(m, l) /\ ~ NewsOf(m, l) /\ <<m, l>> \notin dropped
              /\ l \in cache'[m] <=> l \in cache[m]
  <2>1. l \notin touched[m] /\ <<m, l>> \notin dropped /\ l \notin wrong(m)
    BY <1>2, <1>4, <1>11 DEF NewsOf
  <2>2. (l \in delta[m].on => l \in server[m]) /\ (l \in delta[m].off => l \notin server[m])
    BY <1>1, <2>1 DEF Labelling, DeltaCurrent
  <2>3. ~ ((l \in shown[m]) <=> (l \in server[m]))
    BY <1>2, <1>11 DEF Diverges
  <2>4. l \notin delta[m].on /\ l \notin delta[m].off
    BY <2>1, <2>2, <2>3 DEF wrong
  <2>5. l \in shown[m] <=> l \in cache[m]
    BY <1>2, <2>4
  <2> QED BY <1>2, <2>1, <2>3, <2>4, <2>5 DEF Diverges, NewsOf
<1>12. (\A m, l : Waiting(ops, m, l)' = Waiting(ops, m, l)) /\ \A i : ~ Applied(i)'
  BY <1>2 DEF Waiting, Applied
<1>13. DivergenceHasCause'
  <2>1. ASSUME NEW m \in Msgs, NEW l \in Labels, Diverges(m, l)', ~ NewsOf(m, l)',
               <<m, l>> \notin dropped'
        PROVE  \E i \in Waiting(ops, m, l) : (l \in ops[i].add) = (l \in cache'[m])
    BY <1>1, <1>11, <2>1 DEF Labelling, DivergenceHasCause
  <2>2. ops' = ops
    BY <1>2
  <2> QED BY <1>12, <2>1, <2>2 DEF DivergenceHasCause
<1>14. OneChangeWaits' /\ LastEditReaches'
  BY <1>1, <1>2, <1>12 DEF Labelling, OneChangeWaits, LastEditReaches
<1> QED BY <1>6, <1>7, <1>9, <1>10, <1>13, <1>14, IInvParts DEF Labelling

-----------------------------------------------------------------------------
(* Every step.                                                             *)

LEMMA NextIInv == IInv /\ [Next]_vars => IInv'
<1> SUFFICES ASSUME IInv, [Next]_vars
             PROVE  IInv'
  OBVIOUS
<1>1. CASE \E T \in Threads, e \in Edits : applyLabelDiffToThread(T, e)
  BY <1>1, EditStep
<1>2. CASE Tick
  BY <1>2, TickStep
<1>3. CASE \E c \in calls : Apply(c) \/ Resent(c) \/ Callback(c)
  BY <1>3, ApplyStep, ResentStep, CallbackStep
<1>4. CASE \E m \in Msgs, l \in Labels : OtherClient(m, l)
  BY <1>4, OtherClientStep
<1>5. CASE HistoryAnswered \/ ApplyDeltas
  BY <1>5, HistoryAnsweredStep, ApplyDeltasStep
<1>6. CASE Crash
  BY <1>6, CrashStep
<1>7. CASE \E T \in Threads, m \in Msgs, e \in Edits :
              m \in T /\ \E S \in SUBSET (T \ {m}) : CrashInEdit(S, m, e)
  <2>1. PICK T \in Threads, m \in Msgs, e \in Edits :
               \E S \in SUBSET (T \ {m}) : CrashInEdit(S, m, e)
    BY <1>7
  <2>2. PICK S \in SUBSET (T \ {m}) : CrashInEdit(S, m, e)
    BY <2>1
  <2>3. S \in SUBSET Msgs
    BY PendingAssumption
  <2> QED BY <2>2, <2>3, CrashInEditStep
<1>9. CASE \E shown \in [Msgs -> SUBSET Labels] : CrashInSync(shown)
  BY <1>9, CrashInSyncStep
<1>8. CASE UNCHANGED vars
  <2>1. UNCHANGED <<cache, ops, lastId, busy, remaining, calls, server, touched, delta, intent,
                    contested, dropped, others, faults, crashes>>
    BY <1>8 DEF vars, tableVars, batchVars, gmailVars, intentVars, boundVars
  <2>2. TypeOK'
    BY <2>1 DEF IInv, TypeOK
  <2>3. RowsInOrder' /\ CallsOfRows' /\ BatchExact' /\ DeltaCurrent'
    BY <2>1 DEF IInv, RowsInOrder, CallsOfRows, BatchExact, DeltaCurrent
  <2>4. DivergenceHasCause'
    BY <2>1 DEF IInv, DivergenceHasCause, Diverges, NewsOf, Waiting, Applied
  <2>5. OneChangeWaits' /\ LastEditReaches'
    BY <2>1 DEF IInv, OneChangeWaits, LastEditReaches, Waiting, Applied
  <2> QED BY <2>2, <2>3, <2>4, <2>5 DEF IInv
<1> QED BY <1>1, <1>2, <1>3, <1>4, <1>5, <1>6, <1>7, <1>8, <1>9 DEF Next

\* The table, the batch and the labels stay as IInv says, for any messages,
\* labels, edits and bounds.
THEOREM IInvAlways == Spec => []IInv
BY InitIInv, NextIInv, PTL DEF Spec

\* Every variable keeps its type; in particular no row's attempts reach
\* kGiveUpAttempts (flush's callback, PendingOpsWorker.cpp:95-117).
THEOREM TypeOKAlways == Spec => []TypeOK
<1>1. IInv => TypeOK
  BY DEF IInv
<1> QED BY <1>1, IInvAlways, PTL

\* A cache that differs from the mailbox has an operation in pending_ops or a
\* history entry to come, or the operation was given up: edits, replays,
\* retries and syncs in any order, and crashes, leave nothing else behind.
THEOREM DivergenceIsOwedAlways == Spec => []DivergenceIsOwed
<1>1. IInv => DivergenceIsOwed
  BY DEF IInv, DivergenceHasCause, DivergenceIsOwed
<1> QED BY <1>1, IInvAlways, PTL

\* An uncontested label change ends in the mailbox as the user made it, however
\* often flush sends it.
THEOREM LastEditReachesAlways == Spec => []LastEditReaches
<1>1. IInv => LastEditReaches
  BY DEF IInv
<1> QED BY <1>1, IInvAlways, PTL
=============================================================================
