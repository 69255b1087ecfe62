-------------------------- MODULE SyncServiceProofs --------------------------
(***************************************************************************)
(* Theorems about SyncService and the mailbox it reads that hold for every *)
(* mailbox, every page size and every bound: facts about Gmail's pages and *)
(* their tokens, the busy slot that one chain of requests has at a time,   *)
(* and what the cache says of the mailbox.                                 *)
(***************************************************************************)
EXTENDS SyncService, FiniteSetTheorems, WellFoundedInduction, SequenceTheorems, TLAPS

-----------------------------------------------------------------------------
(* The mailbox and its page tokens.                                        *)

\* A non-empty set of message numbers has a smallest and a largest member.
LEMMA LeastMsg ==
    ASSUME NEW S, S \subseteq Nat, S # {}
    PROVE  \E p \in S : \A q \in S : p <= q
<1>1. PICK p \in S : \A q \in S : ~ (<<q, p>> \in OpToRel(<, Nat))
  BY NatLessThanWellFounded, WFMin
<1>2. \A q \in S : ~ (q < p)
  BY <1>1 DEF OpToRel
<1> QED BY <1>2

LEMMA GreatestUpTo ==
    ASSUME NEW n \in Nat, NEW S, S \subseteq 1 .. n, S # {}
    PROVE  \E p \in S : \A q \in S : q <= p
<1> DEFINE T == {n - m : m \in S}
<1>0. \A m \in S : m \in Nat /\ n - m \in Nat
  OBVIOUS
<1>1. T \subseteq Nat /\ T # {}
  BY <1>0
<1>2. PICK t \in T : \A u \in T : t <= u
  BY <1>1, LeastMsg
<1>3. PICK p \in S : t = n - p
  BY <1>2
<1>4. \A q \in S : n - p <= n - q
  BY <1>2, <1>3
<1> QED BY <1>3, <1>4

LEMMA GreatestMsg ==
    ASSUME NEW S, S \subseteq Msgs, S # {}
    PROVE  \E p \in S : \A q \in S : q <= p
BY GreatestUpTo, GmailAssumption DEF GmailAssumption, Msgs

\* nextPageToken is a token: a page that does not reach the end of its listing
\* is not empty, so it has a last message to resume from.
LEMMA NextTokenType ==
    ASSUME NEW S, S \subseteq Msgs, NEW size \in Nat \ {0}
    PROVE  NextToken(S, FirstPage(S, size)) \in Tokens
<1> DEFINE P == FirstPage(S, size)
<1>1. CASE P = S
  BY <1>1, GmailAssumption DEF GmailAssumption, NextToken, Newest, Tokens
<1>2. CASE P # S
  <2>1. S # {}
    BY <1>2 DEF FirstPage
  <2>2. PICK p \in S : \A q \in S : q <= p
    BY <2>1, GreatestMsg
  <2>3. \A n \in S : ~ (n > p)
    BY <2>2, GmailAssumption DEF GmailAssumption, Msgs
  <2>4. p \in P
    <3>1. {n \in S : n > p} = {}
      BY <2>3
    <3>2. Cardinality({n \in S : n > p}) < size
      BY <3>1, FS_EmptySet
    <3> QED BY <3>2, Zenon DEF FirstPage
  <2>5. P \subseteq Msgs /\ P \subseteq Nat
    <3>1. P \subseteq S
      BY Zenon DEF FirstPage
    <3>2. S \subseteq Nat
      BY GmailAssumption DEF GmailAssumption, Msgs
    <3> HIDE DEF P
    <3> QED BY <3>1, <3>2
  <2>6. \E r \in P : \A q \in P : r <= q
    BY <2>4, <2>5, LeastMsg
  <2>7. NextToken(S, P) \in P
    BY <1>2, <2>6 DEF NextToken
  <2> QED BY <2>5, <2>7 DEF Tokens, Msgs
<1> QED BY <1>1, <1>2

LEMMA LogType ==
    ASSUME MailTypeOK, NEW kind \in EventKinds, NEW m \in Msgs,
           NEW l \in Labels \cup {NoLabel}, Log(kind, m, l)
    PROVE  hist' \in Seq(Event)
BY DEF MailTypeOK, Log, Event

\* Whatever happens to the mailbox, it stays one.
LEMMA MailTypeStep == MailTypeOK /\ MailNext => MailTypeOK'
<1> SUFFICES ASSUME MailTypeOK, MailNext
             PROVE  MailTypeOK'
  OBVIOUS
<1>1. ASSUME NEW S \in SUBSET Labels, Arrive(S)
      PROVE  MailTypeOK'
  <2>1. arrived + 1 \in Msgs /\ arrived' \in 0 .. MaxMsg
    BY <1>1, GmailAssumption DEF GmailAssumption, Arrive, MailTypeOK, Msgs
  <2>2. hist' \in Seq(Event)
    BY <1>1, <2>1, LogType DEF Arrive, EventKinds
  <2> QED BY <1>1, <2>1, <2>2 DEF Arrive, MailTypeOK
<1>2. ASSUME NEW m \in Msgs, Delete(m)
      PROVE  MailTypeOK'
  <2>1. hist' \in Seq(Event)
    BY <1>2, LogType DEF Delete, EventKinds
  <2> QED BY <1>2, <2>1 DEF Delete, MailTypeOK
<1>3. ASSUME NEW m \in Msgs, NEW l \in Labels, Label(m, l) \/ Unlabel(m, l)
      PROVE  MailTypeOK'
  <2>1. hist' \in Seq(Event)
    BY <1>3, LogType DEF Label, Unlabel, EventKinds
  <2> QED BY <1>3, <2>1 DEF Label, Unlabel, MailTypeOK
<1>4. CASE ForgetHistory
  BY <1>4 DEF ForgetHistory, MailTypeOK
<1> QED BY <1>1, <1>2, <1>3, <1>4 DEF MailNext

-----------------------------------------------------------------------------
(* The history log.                                                        *)

\* The label set T is what message m carries in the mailbox, and m is still
\* there, up to the changes listed after position h of the log.
Agrees(m, T, h) ==
    IF m \in live
    THEN \A l \in Labels : \/ (l \in T) <=> (l \in tags[m])
                           \/ RelabelledIn(m, l, h + 1, Len(hist))
    ELSE Happened("messagesDeleted", m, h + 1, Len(hist))

\* m was delivered once and is no longer in the mailbox.
Gone(m) == m \notin live /\ m <= arrived

\* The mailbox and its log tell the same story: the log only names messages
\* that arrived, a deleted message stays away, and the last event on a label
\* of a message says whether the message carries it.
LogInv ==
    /\ \A m \in live : m <= arrived
    /\ \A k \in 1 .. Len(hist) :
          /\ hist[k].msg <= arrived
          /\ hist[k].kind = "messagesDeleted" => hist[k].msg \notin live
    /\ \A k \in 1 .. Len(hist), m \in Msgs, l \in Labels :
          IsLabelEvent(hist[k], m, l) /\ ~ RelabelledIn(m, l, k + 1, Len(hist)) =>
              ((hist[k].kind = "labelsAdded") <=> (l \in tags[m]))

\* A step of the program leaves everything that is said of the mailbox as it is.
LEMMA LogFixed ==
    ASSUME UNCHANGED mailVars
    PROVE  /\ \A m, i, j : TouchedIn(m, i, j)' <=> TouchedIn(m, i, j)
           /\ \A kind, m, i, j : Happened(kind, m, i, j)' <=> Happened(kind, m, i, j)
           /\ \A m, l, i, j : RelabelledIn(m, l, i, j)' <=> RelabelledIn(m, l, i, j)
           /\ \A m, T, h : Agrees(m, T, h)' <=> Agrees(m, T, h)
           /\ \A m : Gone(m)' <=> Gone(m)
           /\ LogInv' <=> LogInv
BY DEF mailVars, TouchedIn, Happened, RelabelledIn, IsLabelEvent, Agrees, Gone, LogInv

\* The four things that can happen to the mailbox, by the event they log.
Delivered(e) ==
    /\ e.kind = "messagesAdded" /\ e.msg = arrived + 1
    /\ live' = live \cup {arrived + 1} /\ arrived' = arrived + 1
    /\ \A m \in Msgs : m # arrived + 1 => tags'[m] = tags[m]
Removed(e) ==
    /\ e.kind = "messagesDeleted" /\ e.msg \in live
    /\ live' = live \ {e.msg} /\ tags' = tags /\ arrived' = arrived
Retagged(e) ==
    /\ e.kind \in {"labelsAdded", "labelsRemoved"} /\ e.msg \in live
    /\ live' = live /\ arrived' = arrived
    /\ \A m \in Msgs, l \in Labels :
          m # e.msg \/ l # e.label => ((l \in tags'[m]) <=> (l \in tags[m]))
    /\ (e.kind = "labelsAdded") <=> (e.label \in tags'[e.msg])

LEMMA MailStepCases ==
    ASSUME MailTypeOK, MailNext
    PROVE  \/ UNCHANGED <<live, tags, arrived, hist>>
           \/ \E e \in Event : /\ hist' = Append(hist, e)
                               /\ Delivered(e) \/ Removed(e) \/ Retagged(e)
<1>1. ASSUME NEW S \in SUBSET Labels, Arrive(S)
      PROVE  \E e \in Event : hist' = Append(hist, e) /\ Delivered(e)
  <2> DEFINE e == [kind |-> "messagesAdded", msg |-> arrived + 1, label |-> NoLabel]
  <2>1. e \in Event
    BY <1>1, GmailAssumption DEF GmailAssumption, Arrive, Event, EventKinds, Msgs, MailTypeOK
  <2>2. hist' = Append(hist, e) /\ Delivered(e)
    BY <1>1 DEF Arrive, Log, Delivered, MailTypeOK
  <2> QED BY <2>1, <2>2
<1>2. ASSUME NEW m \in Msgs, Delete(m)
      PROVE  \E e \in Event : hist' = Append(hist, e) /\ Removed(e)
  <2> DEFINE e == [kind |-> "messagesDeleted", msg |-> m, label |-> NoLabel]
  <2>1. e \in Event
    BY DEF Event, EventKinds
  <2>2. hist' = Append(hist, e) /\ Removed(e)
    BY <1>2 DEF Delete, Log, Removed
  <2> QED BY <2>1, <2>2
<1>3. ASSUME NEW m \in Msgs, NEW l \in Labels, Label(m, l)
      PROVE  \E e \in Event : hist' = Append(hist, e) /\ Retagged(e)
  <2> DEFINE e == [kind |-> "labelsAdded", msg |-> m, label |-> l]
  <2>1. e \in Event
    BY DEF Event, EventKinds
  <2>2. tags' = [tags EXCEPT ![m] = tags[m] \cup {l}] /\ tags \in [Msgs -> SUBSET Labels]
    BY <1>3 DEF Label, MailTypeOK
  <2>3. hist' = Append(hist, e) /\ Retagged(e)
    BY <1>3, <2>2 DEF Label, Log, Retagged
  <2> QED BY <2>1, <2>3
<1>4. ASSUME NEW m \in Msgs, NEW l \in Labels, Unlabel(m, l)
      PROVE  \E e \in Event : hist' = Append(hist, e) /\ Retagged(e)
  <2> DEFINE e == [kind |-> "labelsRemoved", msg |-> m, label |-> l]
  <2>1. e \in Event
    BY DEF Event, EventKinds
  <2>2. tags' = [tags EXCEPT ![m] = tags[m] \ {l}] /\ tags \in [Msgs -> SUBSET Labels]
    BY <1>4 DEF Unlabel, MailTypeOK
  <2>3. hist' = Append(hist, e) /\ Retagged(e)
    BY <1>4, <2>2 DEF Unlabel, Log, Retagged
  <2> QED BY <2>1, <2>3
<1>5. CASE ForgetHistory
  BY <1>5 DEF ForgetHistory
<1> QED BY <1>1, <1>2, <1>3, <1>4, <1>5 DEF MailNext

\* What one event at the end of the log can change, and that every window of
\* the log that reaches to its end shows the change.
Stable ==
    /\ Len(hist) \in Nat /\ Len(hist)' \in Nat /\ Len(hist) <= Len(hist)'
    /\ \A k \in 1 .. Len(hist) : k \in 1 .. Len(hist)' /\ hist'[k] = hist[k]
    /\ arrived \in Nat /\ arrived' \in Nat /\ arrived <= arrived'
    /\ \A m \in live' : m \in live \/ m = arrived + 1
    /\ \A m \in live' \ live, h \in Int : h <= Len(hist) =>
          Happened("messagesAdded", m, h + 1, Len(hist))'
    /\ \A m \in live \ live', h \in Int : h <= Len(hist) =>
          Happened("messagesDeleted", m, h + 1, Len(hist))'
    /\ \A m \in live, l \in Labels, h \in Int : h <= Len(hist) =>
          ((l \in tags'[m]) <=> (l \in tags[m])) \/ RelabelledIn(m, l, h + 1, Len(hist))'

LEMMA MailStable ==
    ASSUME MailTypeOK, LogInv, MailNext
    PROVE  Stable
<1>0. Len(hist) \in Nat /\ hist \in Seq(Event) /\ live \subseteq Msgs /\ arrived \in Nat
  BY GmailAssumption DEF GmailAssumption, MailTypeOK
<1>1. CASE UNCHANGED <<live, tags, arrived, hist>>
  BY <1>0, <1>1 DEF Stable
<1>2. ASSUME NEW e \in Event, hist' = Append(hist, e), Delivered(e) \/ Removed(e) \/ Retagged(e)
      PROVE  Stable
  <2>1. /\ Len(hist') = Len(hist) + 1
        /\ \A k \in 1 .. Len(hist) : k \in 1 .. Len(hist') /\ hist'[k] = hist[k]
        /\ hist'[Len(hist')] = e /\ Len(hist') \in 1 .. Len(hist')
    BY <1>0, <1>2
  <2>2. \A h \in Int : h <= Len(hist) => Len(hist') >= h + 1
    BY <1>0, <2>1
  <2>3. CASE Delivered(e)
    <3>1. \A m, h : m = e.msg /\ h \in Int /\ h <= Len(hist) =>
             Happened("messagesAdded", m, h + 1, Len(hist))'
      BY <2>1, <2>2, <2>3 DEF Delivered, Happened
    <3>2. \A m \in live : m # arrived + 1
      BY <1>0, GmailAssumption DEF GmailAssumption, LogInv, Msgs
    <3>3. \A m \in live : tags'[m] = tags[m]
      BY <1>0, <2>3, <3>2 DEF Delivered
    <3> QED BY <1>0, <2>1, <2>3, <3>1, <3>3 DEF Delivered, Stable
  <2>4. CASE Removed(e)
    <3>1. \A m, h : m = e.msg /\ h \in Int /\ h <= Len(hist) =>
             Happened("messagesDeleted", m, h + 1, Len(hist))'
      BY <2>1, <2>2, <2>4 DEF Removed, Happened
    <3> QED BY <1>0, <2>1, <2>4, <3>1 DEF Removed, Stable
  <2>5. CASE Retagged(e)
    <3>1. \A m \in live, l \in Labels :
             ((l \in tags'[m]) <=> (l \in tags[m])) \/ IsLabelEvent(e, m, l)
      BY <1>0, <2>5 DEF Retagged, IsLabelEvent
    <3>2. \A m, l, h : h \in Int /\ h <= Len(hist) /\ IsLabelEvent(e, m, l) =>
             RelabelledIn(m, l, h + 1, Len(hist))'
      BY <2>1, <2>2 DEF RelabelledIn
    <3>3. live' = live /\ arrived' = arrived
      BY <2>5 DEF Retagged
    <3>4. \A m \in live, l \in Labels, h \in Int : h <= Len(hist) =>
             ((l \in tags'[m]) <=> (l \in tags[m])) \/ RelabelledIn(m, l, h + 1, Len(hist))'
      BY <3>1, <3>2
    <3> QED BY <1>0, <2>1, <3>3, <3>4 DEF Stable
  <2> QED BY <1>2, <2>3, <2>4, <2>5
<1>3. CASE \E e \in Event : /\ hist' = Append(hist, e)
                            /\ Delivered(e) \/ Removed(e) \/ Retagged(e)
  BY <1>2, <1>3
<1>4. \/ UNCHANGED <<live, tags, arrived, hist>>
      \/ \E e \in Event : /\ hist' = Append(hist, e)
                          /\ Delivered(e) \/ Removed(e) \/ Retagged(e)
  BY MailStepCases
<1> QED BY <1>1, <1>3, <1>4

\* What a window that reaches to the end of the log shows, it shows for ever;
\* a window that ends before does not change.
LEMMA WindowsGrow ==
    ASSUME Stable
    PROVE  /\ \A kind, m, i : Happened(kind, m, i, Len(hist)) => Happened(kind, m, i, Len(hist))'
           /\ \A m, l, i : RelabelledIn(m, l, i, Len(hist)) => RelabelledIn(m, l, i, Len(hist))'
           /\ \A m, i, j : j \in Int /\ j <= Len(hist) => (TouchedIn(m, i, j)' <=> TouchedIn(m, i, j))
<1>1. \A kind, m, i : Happened(kind, m, i, Len(hist)) => Happened(kind, m, i, Len(hist))'
  BY DEF Stable, Happened
<1>2. \A m, l, i : RelabelledIn(m, l, i, Len(hist)) => RelabelledIn(m, l, i, Len(hist))'
  BY DEF Stable, RelabelledIn, IsLabelEvent
<1>3. \A m, i, j : j \in Int /\ j <= Len(hist) => (TouchedIn(m, i, j)' <=> TouchedIn(m, i, j))
  BY DEF Stable, TouchedIn
<1> QED BY <1>1, <1>2, <1>3

\* A message that is not in the mailbox comes back under another number only.
LEMMA GoneStays ==
    ASSUME MailTypeOK, Stable, NEW m \in Msgs, Gone(m)
    PROVE  Gone(m)'
BY GmailAssumption DEF GmailAssumption, MailTypeOK, Stable, Gone, Msgs

\* An answer stays right, up to the changes the log lists after it.
LEMMA AgreesGrows ==
    ASSUME MailTypeOK, LogInv, Stable, NEW m \in Msgs, NEW T, NEW h \in Int,
           h <= Len(hist), Agrees(m, T, h)
    PROVE  Agrees(m, T, h)'
<1>1. CASE m \in live /\ m \in live'
  <2>1. \A l \in Labels : \/ (l \in T) <=> (l \in tags[m])
                          \/ RelabelledIn(m, l, h + 1, Len(hist))
    BY <1>1 DEF Agrees
  <2>2. \A l \in Labels : \/ (l \in tags'[m]) <=> (l \in tags[m])
                          \/ RelabelledIn(m, l, h + 1, Len(hist))'
    BY <1>1 DEF Stable
  <2>3. \A l \in Labels : \/ (l \in T) <=> (l \in tags'[m])
                          \/ RelabelledIn(m, l, h + 1, Len(hist))'
    BY <2>1, <2>2, WindowsGrow
  <2> QED BY <1>1, <2>3 DEF Agrees
<1>2. CASE m \in live /\ m \notin live'
  <2>1. Happened("messagesDeleted", m, h + 1, Len(hist))'
    BY <1>2 DEF Stable
  <2> QED BY <1>2, <2>1 DEF Agrees
<1>3. CASE m \notin live
  <2>1. Happened("messagesDeleted", m, h + 1, Len(hist))
    BY <1>3 DEF Agrees
  <2>2. m <= arrived
    BY <2>1 DEF Happened, LogInv
  <2>3. Gone(m)'
    BY <1>3, <2>2, GoneStays DEF Gone
  <2> QED BY <2>1, <2>3, WindowsGrow DEF Agrees, Gone
<1> QED BY <1>1, <1>2, <1>3

LEMMA LogInvStep ==
    ASSUME MailTypeOK, LogInv, MailNext
    PROVE  LogInv'
<1>0. Len(hist) \in Nat /\ hist \in Seq(Event) /\ live \subseteq Msgs /\ arrived \in Nat
  BY GmailAssumption DEF GmailAssumption, MailTypeOK
<1>1. CASE UNCHANGED <<live, tags, arrived, hist>>
  BY <1>1 DEF LogInv, RelabelledIn, IsLabelEvent
<1>2. ASSUME NEW e \in Event, hist' = Append(hist, e), Delivered(e) \/ Removed(e) \/ Retagged(e)
      PROVE  LogInv'
  <2> DEFINE N == Len(hist)
  <2>1. /\ Len(hist') = N + 1
        /\ \A k \in 1 .. N : hist'[k] = hist[k]
        /\ hist'[N + 1] = e /\ 1 .. Len(hist') = (1 .. N) \cup {N + 1}
    BY <1>0, <1>2
  <2>2. arrived' \in Nat /\ e.msg <= arrived' /\ arrived <= arrived'
    BY <1>0, <1>2 DEF Delivered, Removed, Retagged, LogInv
  <2>3. \A m \in live' : m <= arrived'
    <3>1. \A m \in live' : m \in live \/ m = arrived'
      BY <1>2 DEF Delivered, Removed, Retagged
    <3>2. \A m \in live : m \in Nat
      BY <1>0 DEF Msgs
    <3>3. \A m \in live : m <= arrived
      BY DEF LogInv
    <3> QED BY <1>0, <2>2, <3>1, <3>2, <3>3
  <2>4. \A k \in 1 .. N : hist[k].msg \in Nat
    <3>1. \A k \in 1 .. N : hist[k] \in Event
      BY <1>0
    <3>2. \A x \in Event : x.msg \in Nat
      BY DEF Event, Msgs
    <3> QED BY <3>1, <3>2
  <2>5. \A k \in 1 .. Len(hist') : /\ hist'[k].msg <= arrived'
                                   /\ hist'[k].kind = "messagesDeleted" => hist'[k].msg \notin live'
    <3>1. \A k \in 1 .. N : hist[k].msg <= arrived'
      BY <1>0, <2>2, <2>4 DEF LogInv
    <3>2. \A k \in 1 .. N : hist[k].kind = "messagesDeleted" => hist[k].msg \notin live'
      <4>1. \A m \in live' : m \in live \/ m = arrived + 1
        BY <1>2 DEF Delivered, Removed, Retagged
      <4>2. \A k \in 1 .. N : hist[k].msg # arrived + 1
        BY <1>0, <2>4 DEF LogInv
      <4> QED BY <4>1, <4>2 DEF LogInv
    <3>3. e.kind = "messagesDeleted" => e.msg \notin live'
      BY <1>2 DEF Delivered, Removed, Retagged
    <3> QED BY <2>1, <2>2, <3>1, <3>2, <3>3
  <2>6. ASSUME NEW k \in 1 .. Len(hist'), NEW m \in Msgs, NEW l \in Labels,
               IsLabelEvent(hist'[k], m, l), ~ RelabelledIn(m, l, k + 1, Len(hist))'
        PROVE  (hist'[k].kind = "labelsAdded") <=> (l \in tags'[m])
    <3>1. CASE k = N + 1
      BY <1>2, <2>1, <2>6, <3>1 DEF IsLabelEvent, Delivered, Removed, Retagged
    <3>2. CASE k \in 1 .. N
      <4>1. ~ IsLabelEvent(e, m, l)
        BY <1>0, <2>1, <2>6, <3>2 DEF RelabelledIn
      <4>2. ~ RelabelledIn(m, l, k + 1, N)
        BY <1>0, <2>1, <2>6, <3>2 DEF RelabelledIn
      <4>3. IsLabelEvent(hist[k], m, l)
        BY <2>1, <2>6, <3>2
      <4>4. (hist[k].kind = "labelsAdded") <=> (l \in tags[m])
        BY <3>2, <4>2, <4>3 DEF LogInv
      <4>5. (l \in tags'[m]) <=> (l \in tags[m])
        <5>1. m <= arrived
          BY <3>2, <4>3 DEF LogInv, IsLabelEvent
        <5>2. m # arrived + 1
          BY <1>0, <5>1, GmailAssumption DEF GmailAssumption, Msgs
        <5> QED BY <1>2, <4>1, <5>2 DEF IsLabelEvent, Delivered, Removed, Retagged
      <4> QED BY <2>1, <3>2, <4>4, <4>5
    <3> QED BY <2>1, <3>1, <3>2
  <2> QED BY <2>3, <2>5, <2>6 DEF LogInv
<1>3. CASE \E e \in Event : /\ hist' = Append(hist, e)
                            /\ Delivered(e) \/ Removed(e) \/ Retagged(e)
  BY <1>2, <1>3
<1>4. \/ UNCHANGED <<live, tags, arrived, hist>>
      \/ \E e \in Event : /\ hist' = Append(hist, e)
                          /\ Delivered(e) \/ Removed(e) \/ Retagged(e)
  BY MailStepCases
<1> QED BY <1>1, <1>3, <1>4

LEMMA LogInvInit == MailInit => LogInv
BY DEF MailInit, LogInv

-----------------------------------------------------------------------------
(* Windows of the log.                                                     *)

\* A window is a window up to h and a window from h on.
LEMMA WindowSplit ==
    ASSUME MailTypeOK, NEW h \in Int
    PROVE  /\ \A kind, m, i : i \in Int /\ Happened(kind, m, i, Len(hist)) =>
                 Happened(kind, m, i, h) \/ Happened(kind, m, h + 1, Len(hist))
           /\ \A m, l, i : i \in Int /\ RelabelledIn(m, l, i, Len(hist)) =>
                 RelabelledIn(m, l, i, h) \/ RelabelledIn(m, l, h + 1, Len(hist))
           /\ \A m, i : i \in Int /\ TouchedIn(m, i, Len(hist)) =>
                 TouchedIn(m, i, h) \/ TouchedIn(m, h + 1, Len(hist))
<1>1. \A kind, m, i : i \in Int /\ Happened(kind, m, i, Len(hist)) =>
         Happened(kind, m, i, h) \/ Happened(kind, m, h + 1, Len(hist))
  BY DEF Happened
<1>2. \A m, l, i : i \in Int /\ RelabelledIn(m, l, i, Len(hist)) =>
         RelabelledIn(m, l, i, h) \/ RelabelledIn(m, l, h + 1, Len(hist))
  BY DEF RelabelledIn
<1>3. \A m, i : i \in Int /\ TouchedIn(m, i, Len(hist)) =>
         TouchedIn(m, i, h) \/ TouchedIn(m, h + 1, Len(hist))
  BY DEF TouchedIn
<1> QED BY <1>1, <1>2, <1>3

\* Every event touches its message, and a window keeps what it shows when it
\* is moved apart.
LEMMA WindowTouches ==
    /\ \A kind, m, i, j : Happened(kind, m, i, j) => TouchedIn(m, i, j)
    /\ \A m, l, i, j : RelabelledIn(m, l, i, j) => TouchedIn(m, i, j)
BY DEF Happened, RelabelledIn, TouchedIn, IsLabelEvent

LEMMA WindowWiden ==
    ASSUME MailTypeOK, NEW i \in Int, NEW h \in Int, i <= h
    PROVE  /\ \A kind, m, j : Happened(kind, m, h, j) => Happened(kind, m, i, j)
           /\ \A m, l, j : RelabelledIn(m, l, h, j) => RelabelledIn(m, l, i, j)
BY DEF Happened, RelabelledIn

\* An answer as of position h is one as of position g when no event between the
\* two touches the message; it always is when g is not after h.
LEMMA AgreesAdvance ==
    ASSUME MailTypeOK, NEW m, NEW T, NEW h \in Int, NEW g \in Int,
           Agrees(m, T, h), ~ TouchedIn(m, h + 1, g)
    PROVE  Agrees(m, T, g)
<1>1. /\ \A l : ~ RelabelledIn(m, l, h + 1, g)
      /\ \A kind : ~ Happened(kind, m, h + 1, g)
  BY WindowTouches
<1>2. /\ \A l : RelabelledIn(m, l, h + 1, Len(hist)) => RelabelledIn(m, l, g + 1, Len(hist))
      /\ \A kind : Happened(kind, m, h + 1, Len(hist)) => Happened(kind, m, g + 1, Len(hist))
  BY <1>1, WindowSplit
<1> QED BY <1>2 DEF Agrees

LEMMA AgreesWeaken ==
    ASSUME MailTypeOK, NEW m, NEW T, NEW h \in Int, NEW g \in Int, g <= h, Agrees(m, T, h)
    PROVE  Agrees(m, T, g)
<1>1. ~ TouchedIn(m, h + 1, g)
  BY DEF TouchedIn
<1> QED BY <1>1, AgreesAdvance

\* What Gmail says of a message now is right as of any position.
LEMMA AgreesNow ==
    ASSUME NEW m \in live, NEW h
    PROVE  Agrees(m, tags[m], h)
BY DEF Agrees

\* A window with a label event has a last one.
LEMMA LastLabelEvent ==
    ASSUME MailTypeOK, NEW m, NEW l, NEW i \in Int, NEW j \in Int, RelabelledIn(m, l, i, j)
    PROVE  \E k \in 1 .. Len(hist) : /\ k >= i /\ k <= j
                                    /\ IsLabelEvent(hist[k], m, l)
                                    /\ ~ RelabelledIn(m, l, k + 1, j)
<1> DEFINE K == {k \in 1 .. Len(hist) : k >= i /\ k <= j /\ IsLabelEvent(hist[k], m, l)}
<1>1. K \subseteq 1 .. Len(hist) /\ K # {} /\ Len(hist) \in Nat
  BY DEF RelabelledIn, MailTypeOK
<1>2. PICK k \in K : \A q \in K : q <= k
  <2> HIDE DEF K
  <2> QED BY <1>1, GreatestUpTo
<1>3. ~ RelabelledIn(m, l, k + 1, j)
  <2> SUFFICES ASSUME NEW q \in 1 .. Len(hist), q >= k + 1, q <= j, IsLabelEvent(hist[q], m, l)
               PROVE  FALSE
    BY DEF RelabelledIn
  <2>1. q \in K
    BY <1>2
  <2> QED BY <1>1, <1>2, <2>1
<1> QED BY <1>2, <1>3

\* When no later event concerns the label, the last event of the window tells
\* whether the message carries it.
LEMMA LastEventTells ==
    ASSUME MailTypeOK, LogInv, NEW m \in Msgs, NEW l \in Labels, NEW i \in Int, NEW j \in Int,
           RelabelledIn(m, l, i, j), ~ RelabelledIn(m, l, j + 1, Len(hist))
    PROVE  /\ LastAdds(m, l, i, j) <=> l \in tags[m]
           /\ l \in tags[m] => Happened("labelsAdded", m, i, j)
<1>1. ASSUME NEW k \in 1 .. Len(hist), k <= j, ~ RelabelledIn(m, l, k + 1, j)
      PROVE  ~ RelabelledIn(m, l, k + 1, Len(hist))
  BY <1>1, WindowSplit
<1>2. ASSUME NEW k \in 1 .. Len(hist), k <= j, IsLabelEvent(hist[k], m, l),
             ~ RelabelledIn(m, l, k + 1, j)
      PROVE  (hist[k].kind = "labelsAdded") <=> (l \in tags[m])
  BY <1>1, <1>2 DEF LogInv
<1>3. PICK k \in 1 .. Len(hist) : /\ k >= i /\ k <= j
                                  /\ IsLabelEvent(hist[k], m, l)
                                  /\ ~ RelabelledIn(m, l, k + 1, j)
  BY LastLabelEvent
<1>4. l \in tags[m] => LastAdds(m, l, i, j) /\ Happened("labelsAdded", m, i, j)
  BY <1>2, <1>3 DEF LastAdds, Happened, IsLabelEvent
<1>5. LastAdds(m, l, i, j) => l \in tags[m]
  BY <1>2 DEF LastAdds
<1> QED BY <1>4, <1>5

-----------------------------------------------------------------------------
(* One page of a listing.                                                  *)

\* A page is the newest part of its listing: a listed message that is newer
\* than one on the page is on the page.
LEMMA PageIsNewest ==
    ASSUME NEW S, S \subseteq Msgs, NEW size \in Nat,
           NEW p \in FirstPage(S, size), NEW m \in S, m >= p
    PROVE  m \in FirstPage(S, size)
<1> DEFINE Above(x) == {n \in S : n > x}
<1>1. p \in S /\ Cardinality(Above(p)) < size
  BY Zenon DEF FirstPage
<1>0. \A x \in S : x \in Nat
  BY DEF Msgs
<1>2. Above(m) \subseteq Above(p)
  <2>1. m \in Nat /\ p \in Nat
    BY <1>0, <1>1
  <2>2. \A n \in S : n > m => n > p
    BY <1>0, <2>1
  <2> QED BY <2>2, Zenon
<1>3. IsFiniteSet(Above(p)) /\ IsFiniteSet(Above(m))
  <2>1. IsFiniteSet(Msgs)
    BY FS_Interval, GmailAssumption DEF GmailAssumption, Msgs
  <2> QED BY <2>1, FS_Subset
<1>4. Cardinality(Above(m)) <= Cardinality(Above(p))
  BY <1>2, <1>3, FS_Subset
<1>5. Cardinality(Above(m)) \in Nat /\ Cardinality(Above(p)) \in Nat
  BY <1>3, FS_CardinalityType
<1>6. Cardinality(Above(m)) < size
  <2> HIDE DEF Above
  <2> QED BY <1>1, <1>4, <1>5
<1> QED BY <1>6, Zenon DEF FirstPage

\* The token that follows a page is empty exactly at the end of the listing,
\* and otherwise the oldest message of the page.
LEMMA NextTokenIsLast ==
    ASSUME NEW S, S \subseteq Msgs, NEW size \in Nat \ {0},
           NextToken(S, FirstPage(S, size)) # Newest
    PROVE  /\ FirstPage(S, size) # S
           /\ NextToken(S, FirstPage(S, size)) \in FirstPage(S, size)
<1> DEFINE P == FirstPage(S, size)
<1>1. P # S
  BY DEF NextToken
<1>2. P \subseteq S
  BY Zenon DEF FirstPage
<1>3. P # {}
  <2>1. S # {}
    BY <1>1, <1>2
  <2>2. PICK p \in S : \A q \in S : q <= p
    BY <2>1, GreatestMsg
  <2>3. \A n \in S : n \in Nat
    BY DEF Msgs
  <2>4. {n \in S : n > p} = {}
    BY <2>2, <2>3
  <2>5. Cardinality({n \in S : n > p}) < size
    BY <2>4, FS_EmptySet
  <2> QED BY <2>5, Zenon DEF FirstPage
<1>4. P \subseteq Nat
  <2>1. \A n \in S : n \in Nat
    BY DEF Msgs
  <2> HIDE DEF P
  <2> QED BY <1>2, <2>1
<1> HIDE DEF P
<1>5. \E r \in P : \A q \in P : r <= q
  BY <1>3, <1>4, LeastMsg
<1>6. NextToken(S, P) \in P
  BY <1>1, <1>5 DEF NextToken
<1> QED BY <1>1, <1>6 DEF P

\* What a walk has gone past after one more page: what it had gone past before,
\* and the page.
LEMMA PageCovers ==
    ASSUME MailTypeOK, NEW l \in Labels, NEW t \in Tokens, NEW size \in Nat \ {0},
           NEW m \in live, l \in tags[m],
           LET S    == Listing(l, t)
               P    == FirstPage(S, size)
               next == NextToken(S, P)
           IN  P = S \/ (next # Newest /\ m >= next)
    PROVE  m \in FirstPage(Listing(l, t), size) \/ (t # Newest /\ m >= t)
<1> DEFINE S == Listing(l, t)
           P == FirstPage(S, size)
<1>1. S \subseteq Msgs
  BY DEF MailTypeOK, Listing
<1>2. CASE m \notin S
  <2>1. ~ Older(t, m)
    BY <1>2 DEF Listing
  <2>2. m \in Nat /\ t \in Nat
    BY GmailAssumption DEF GmailAssumption, MailTypeOK, Msgs, Tokens
  <2> QED BY <2>1, <2>2 DEF Older
<1>3. CASE m \in S /\ P = S
  BY <1>3
<1>4. CASE m \in S /\ P # S
  <2> DEFINE next == NextToken(S, P)
  <2>1. next # Newest /\ m >= next
    BY <1>4
  <2>2. next \in P
    BY <1>1, <2>1, NextTokenIsLast
  <2>3. m \in P
    <3> HIDE DEF next, S
    <3> QED BY <1>1, <1>4, <2>1, <2>2, PageIsNewest
  <2> QED BY <2>3
<1> QED BY <1>2, <1>3, <1>4

-----------------------------------------------------------------------------
(* The busy slot.  Every action does one of four things to it.             *)

\* The slot changes hands in an orderly way: it is left alone, it is taken
\* when free, a chain moves on, or the chain gives it back.
SlotStep ==
    \/ UNCHANGED slotVars
    \/ ~ busy /\ \E c, s : s # "Idle" /\ Take(c, s)
    \/ \E c \in chains : \E d : Advance(c, d)
    \/ \E c \in chains : \E d : /\ busy' = TRUE /\ state' = "InitialSync"
                               /\ chains' = (chains \ {c}) \cup {d}
    \/ \E c \in chains : Release(c)
    \/ busy' = FALSE /\ state' = "Idle" /\ chains' = {}

\* OneChain is inductive: an orderly step preserves it, because a chain that
\* moves on or ends is the only one.
LEMMA OneChainStep == OneChain /\ SlotStep => OneChain'
<1> SUFFICES ASSUME OneChain, SlotStep
             PROVE  OneChain'
  OBVIOUS
<1>1. CASE UNCHANGED slotVars
  BY <1>1 DEF OneChain, slotVars
<1>2. CASE ~ busy /\ \E c, s : s # "Idle" /\ Take(c, s)
  <2>1. PICK c, s : s # "Idle" /\ Take(c, s)
    BY <1>2
  <2>2. chains = {}
    BY <1>2 DEF OneChain
  <2>3. chains' = {c} /\ busy' = TRUE /\ state' = s
    BY <2>1, <2>2 DEF Take
  <2> QED BY <2>1, <2>3 DEF OneChain
<1>3. CASE \E c \in chains : \E d : Advance(c, d)
  <2>1. PICK c, d : c \in chains /\ Advance(c, d)
    BY <1>3
  <2>2. chains = {c} /\ chains' = {d}
    BY <2>1 DEF OneChain, Advance
  <2> QED BY <2>1, <2>2 DEF OneChain, Advance
<1>4. CASE \E c \in chains : \E d : /\ busy' = TRUE /\ state' = "InitialSync"
                                     /\ chains' = (chains \ {c}) \cup {d}
  <2>1. PICK c, d : c \in chains /\ chains' = (chains \ {c}) \cup {d}
    BY <1>4
  <2>2. chains' = {d}
    BY <2>1 DEF OneChain
  <2> QED BY <1>4, <2>2 DEF OneChain
<1>5. CASE \E c \in chains : Release(c)
  <2>1. PICK c \in chains : Release(c)
    BY <1>5
  <2>2. chains' = {}
    BY <2>1 DEF OneChain, Release
  <2> QED BY <2>1, <2>2 DEF OneChain, Release
<1>6. CASE busy' = FALSE /\ state' = "Idle" /\ chains' = {}
  BY <1>6 DEF OneChain
<1> QED BY <1>1, <1>2, <1>3, <1>4, <1>5, <1>6 DEF SlotStep

\* Every handler is orderly.
LEMMA AnswerIsOrderly ==
    ASSUME NEW c \in chains, Answer(c)
    PROVE  SlotStep
<1>1. CASE ProfileReply(c)
  BY <1>1 DEF ProfileReply, SlotStep
<1>2. CASE LabelsReply(c)
  BY <1>2 DEF LabelsReply, SlotStep
<1>3. CASE HistoryTooOld(c)
  BY <1>3 DEF HistoryTooOld, SlotStep
<1>4. CASE HistoryReply(c)
  BY <1>4 DEF HistoryReply, SlotStep
<1>5. CASE ListReply(c)
  BY <1>5 DEF ListReply, SlotStep
<1>6. CASE ListFails(c)
  BY <1>6 DEF ListFails, SlotStep
<1>7. CASE SyncRequestFails(c)
  BY <1>7 DEF SyncRequestFails, SlotStep
<1>8. ASSUME NEW l \in Labels, NEW found, SeedListed(c, l, found)
      PROVE  SlotStep
  BY <1>8 DEF SeedListed, SlotStep
<1>9. CASE \E l \in Labels : SeedPageReply(c, l) \/ SeedPageFails(c, l)
  BY <1>8, <1>9 DEF SeedPageReply, SeedPageFails
<1>10. ASSUME NEW d, NEW gap, Answered(c, d, gap)
       PROVE  SlotStep
  BY <1>10 DEF Answered, SlotStep
<1>11. CASE \E m \in Msgs : GetReply(c, m) \/ GetNotFound(c, m) \/ GetFails(c, m)
  BY <1>10, <1>11 DEF GetReply, GetNotFound, GetFails
<1> QED BY <1>1, <1>2, <1>3, <1>4, <1>5, <1>6, <1>7, <1>9, <1>11 DEF Answer

LEMMA StartTopUpIsOrderly ==
    ASSUME NEW l, StartTopUp(l)
    PROVE  SlotStep
<1>1. CASE busy
  BY <1>1 DEF StartTopUp, SlotStep
<1>2. CASE ~ busy
  BY <1>2 DEF StartTopUp, SlotStep
<1> QED BY <1>1, <1>2

LEMMA HandlerIsOrderly == Handler => SlotStep
<1> SUFFICES ASSUME Handler
             PROVE  SlotStep
  OBVIOUS
<1>1. CASE RunOnce
  <2>1. ~ busy /\ \E c, s : s # "Idle" /\ Take(c, s)
    BY <1>1 DEF RunOnce
  <2> QED BY <2>1 DEF SlotStep
<1>2. CASE RunPostedStep
  BY <1>2 DEF RunPostedStep, SlotStep
<1>3. CASE RunPostedNext
  BY <1>3, StartTopUpIsOrderly DEF RunPostedNext, SlotStep
<1>4. CASE User
  <2>1. CASE \E l \in Labels : TopUpLabel(l) \/ CacheLabelComplete(l)
    BY <2>1, StartTopUpIsOrderly DEF TopUpLabel, CacheLabelComplete
  <2>2. CASE CancelCacheLabel \/ ResetBackgroundCrawlProgress
    BY <2>2 DEF CancelCacheLabel, ResetBackgroundCrawlProgress, SlotStep
  <2>3. CASE \E m \in Msgs : FetchBodyOnDemand(m)
    BY <2>3 DEF FetchBodyOnDemand, SlotStep
  <2> QED BY <1>4, <2>1, <2>2, <2>3 DEF User
<1>5. CASE \E c \in chains : Answer(c)
  BY <1>5, AnswerIsOrderly
<1>6. CASE \E l \in Labels : TickBackgroundCrawl(l)
  BY <1>6, StartTopUpIsOrderly DEF TickBackgroundCrawl
<1>7. CASE \E b \in bodyGets : Body(b)
  BY <1>7 DEF Body, BodyNotFound, BodyFails, StoreBody, SlotStep, slotVars
<1> QED BY <1>1, <1>2, <1>3, <1>4, <1>5, <1>6, <1>7 DEF Handler, RunPosted

LEMMA NextIsOrderly == [Next]_vars => SlotStep
<1>1. CASE UNCHANGED vars
  BY <1>1 DEF vars, slotVars, SlotStep
<1>2. CASE Mailbox
  BY <1>2 DEF Mailbox, SlotStep
<1>3. CASE \E b \in bodyGets : BodyAnswered(b)
  BY <1>3 DEF BodyAnswered, SlotStep
<1>4. CASE ~ MidHandler /\ Handler
  BY <1>4, HandlerIsOrderly
<1>5. CASE \E c \in chains : Finish(c)
  <2>1. PICK c \in chains : Finish(c)
    BY <1>5
  <2>2. CASE ApplyPage(c)
    BY <2>2 DEF ApplyPage, SlotStep
  <2>3. CASE Settle(c)
    BY <2>3 DEF Settle, SlotStep
  <2> QED BY <2>1, <2>2, <2>3 DEF Finish
<1>6. CASE Crash
  BY <1>6 DEF Crash, SlotStep
<1> QED BY <1>1, <1>2, <1>3, <1>4, <1>5, <1>6 DEF Next

\* SyncService's busy flag is a mutual exclusion between the callback chains
\* of runOnce, topUpLabel and topUpLabelStep, and public state() agrees with it.
THEOREM OneChainAlways == Spec => []OneChain
<1>1. Init => OneChain
  BY DEF Init, OneChain
<1>2. OneChain /\ [Next]_vars => OneChain'
  BY NextIsOrderly, OneChainStep
<1> QED BY <1>1, <1>2, PTL DEF Spec

-----------------------------------------------------------------------------
(* Types.  TypeOK alone is not inductive: a top-up chain must also carry a *)
(* label, or the walk it ends would post a continuation without one.       *)

Labelled(c) == (c.kind = "topup" \/ c.at = "list") => c.label \in Labels

DbOK ==
    /\ rows \subseteq Msgs /\ rowLabels \in [Msgs -> SUBSET Labels]
    /\ historyId \in Nat \cup {NoHistory}
    /\ pageToken \in [Labels -> Tokens]
    /\ exhausted \subseteq Labels /\ labelRows \subseteq Labels
SlotOK ==
    /\ busy \in BOOLEAN /\ state \in States /\ chains \subseteq Chain
    /\ \A c \in chains : Labelled(c)
WalkOK ==
    /\ posted \in Seq(Posted)
    /\ walkTarget \in Labels \cup {NoLabel} /\ walkCancel \in BOOLEAN
    /\ crawlWatch \subseteq Labels
    /\ topUpsOpen \in [Labels -> Int]
GapOK   == staleRows \subseteq Msgs /\ unfetched \subseteq Msgs /\ unseeded \subseteq Msgs
BodyOK  == bodyGets \subseteq BodyGet
BoundOK == faults \in Nat /\ crashes \in Nat /\ requests \in Nat

TypeInv == MailTypeOK /\ DbOK /\ SlotOK /\ WalkOK /\ GapOK /\ BodyOK /\ BoundOK

LEMMA TypeInvImpliesTypeOK == TypeInv => TypeOK
BY DEF TypeInv, TypeOK, DbOK, SlotOK, WalkOK, GapOK, BodyOK, BoundOK

\* A fresh chain is a chain.
LEMMA NewChainType ==
    ASSUME NEW kind \in {"initial", "incremental", "topup"}, NEW at \in Stages
    PROVE  NewChain(kind, at) \in Chain
<1>1. Newest \in Tokens
  BY GmailAssumption DEF GmailAssumption, Newest, Tokens
<1> QED BY <1>1 DEF NewChain, Chain, NoLabel

\* Setting a field of a chain to a value of its type leaves a chain.
LEMMA ChainUpdate ==
    ASSUME NEW c \in Chain
    PROVE  /\ \A x \in Stages : [c EXCEPT !.at = x] \in Chain
           /\ \A x \in Nat : /\ [c EXCEPT !.from = x] \in Chain
                            /\ [c EXCEPT !.upto = x] \in Chain
                            /\ [c EXCEPT !.hid = x] \in Chain
                            /\ [c EXCEPT !.pages = x] \in Chain
           /\ \A x \in SUBSET Labels : [c EXCEPT !.lists = x] \in Chain
           /\ \A x \in SUBSET Msgs : /\ [c EXCEPT !.ids = x] \in Chain
                                    /\ [c EXCEPT !.todo = x] \in Chain
                                    /\ [c EXCEPT !.got = x] \in Chain
           /\ \A x \in [Msgs -> SUBSET Labels] : [c EXCEPT !.snap = x] \in Chain
           /\ \A x \in Labels \cup {NoLabel} : [c EXCEPT !.label = x] \in Chain
           /\ \A x \in Tokens : [c EXCEPT !.next = x] \in Chain
           /\ \A x \in BOOLEAN : [c EXCEPT !.last = x] \in Chain
BY DEF Chain

\* What the slot operations keep of SlotOK.
LEMMA SlotTypes ==
    ASSUME SlotOK, NEW d \in Chain, Labelled(d)
    PROVE  /\ \A s \in States : Take(d, s) => SlotOK'
           /\ \A c \in chains : Advance(c, d) => SlotOK'
           /\ \A c \in chains : Release(c) => SlotOK'
BY DEF SlotOK, Take, Advance, Release, Labelled, States

LEMMA ReleaseType ==
    ASSUME SlotOK, NEW c \in chains, Release(c)
    PROVE  SlotOK'
BY DEF SlotOK, Release, Labelled, States

LEMMA StartTopUpType ==
    ASSUME SlotOK, WalkOK, NEW l \in Labels, StartTopUp(l)
    PROVE  SlotOK' /\ topUpsOpen' \in [Labels -> Int]
<1>1. CASE busy
  BY <1>1 DEF StartTopUp, SlotOK, WalkOK, slotVars, Labelled
<1>2. CASE ~ busy
  <2>1. ListChain(l, 0) \in Chain /\ Labelled(ListChain(l, 0))
    <3>1. NewChain("topup", "list") \in Chain
      BY NewChainType DEF Stages
    <3>2. [NewChain("topup", "list") EXCEPT !.label = l] \in Chain
      BY <3>1, ChainUpdate
    <3>3. ListChain(l, 0) \in Chain
      BY <3>2, ChainUpdate DEF ListChain
    <3>4. ListChain(l, 0).label = l
      BY DEF ListChain, NewChain
    <3> QED BY <3>3, <3>4 DEF Labelled
  <2>2. SlotOK'
    BY <1>2, <2>1, SlotTypes DEF StartTopUp, States
  <2> QED BY <1>2, <2>2 DEF StartTopUp, WalkOK
<1> QED BY <1>1, <1>2

\* The slots of topUpFinished keep the types of what they touch.
LEMMA EmitType ==
    ASSUME WalkOK, DbOK, NEW l \in Labels, NEW last \in BOOLEAN,
           NEW queue \in Seq(Posted), EmitTopUpFinished(l, last, queue)
    PROVE  WalkOK' /\ exhausted' \subseteq Labels
<1>1. [kind |-> "next", label |-> l, pages |-> 0] \in Posted
  BY DEF Posted
<1>2. Append(queue, [kind |-> "next", label |-> l, pages |-> 0]) \in Seq(Posted)
  BY <1>1, AppendProperties
<1>3. posted' \in Seq(Posted) /\ walkTarget' \in Labels \cup {NoLabel} /\ walkCancel' \in BOOLEAN
  BY <1>2 DEF EmitTopUpFinished, WalkOK
<1>4. topUpsOpen' \in [Labels -> Int] /\ crawlWatch' \subseteq Labels
  BY DEF EmitTopUpFinished, WalkOK
<1>5. exhausted' \subseteq Labels
  BY DEF EmitTopUpFinished, DbOK
<1> QED BY <1>3, <1>4, <1>5 DEF WalkOK

-----------------------------------------------------------------------------
(* Types, action by action.                                                *)

LEMMA RunOnceType == TypeInv /\ RunOnce => TypeInv'
<1> SUFFICES ASSUME TypeInv, RunOnce
             PROVE  TypeInv'
  OBVIOUS
<1>1. SlotOK'
  <2>1. CASE historyId = NoHistory
    <3>1. NewChain("initial", "profile") \in Chain /\ Labelled(NewChain("initial", "profile"))
      <4>1. NewChain("initial", "profile") \in Chain
        BY NewChainType DEF Stages
      <4> QED BY <4>1 DEF NewChain, Labelled
    <3> QED BY <2>1, <3>1, SlotTypes DEF RunOnce, TypeInv, States
  <2>2. CASE historyId # NoHistory
    <3> DEFINE d == [NewChain("incremental", "history") EXCEPT !.from = historyId]
    <3>1. historyId \in Nat
      BY <2>2 DEF TypeInv, DbOK
    <3>2. d \in Chain
      BY <3>1, NewChainType, ChainUpdate DEF Stages
    <3>3. Labelled(d)
      BY DEF NewChain, Labelled
    <3> QED BY <2>2, <3>2, <3>3, SlotTypes DEF RunOnce, TypeInv, States
  <2> QED BY <2>1, <2>2
<1> QED BY <1>1 DEF RunOnce, TypeInv, mailVars, dbVars, walkVars, gapVars, boundVars,
           MailTypeOK, DbOK, WalkOK, GapOK, BodyOK, BoundOK

\* The initial sync.

LEMMA ProfileReplyType ==
    ASSUME TypeInv, NEW c \in chains, ProfileReply(c)
    PROVE  TypeInv'
<1> DEFINE d == [c EXCEPT !.at = "labels", !.hid = Len(hist)]
<1>1. c \in Chain /\ Len(hist) \in Nat /\ Labelled(c)
  BY DEF TypeInv, SlotOK, MailTypeOK
<1>2. [c EXCEPT !.at = "labels"] \in Chain
  BY <1>1, ChainUpdate DEF Stages
<1>3. d \in Chain
  BY <1>1, <1>2, ChainUpdate
<1>4. Labelled(d)
  BY <1>1 DEF Labelled, Chain
<1>5. SlotOK'
  BY <1>3, <1>4, SlotTypes DEF ProfileReply, TypeInv
<1> QED BY <1>5 DEF ProfileReply, TypeInv, mailVars, dbVars, walkVars, gapVars, boundVars,
           MailTypeOK, DbOK, WalkOK, GapOK, BodyOK, BoundOK

LEMMA LabelsReplyType ==
    ASSUME TypeInv, NEW c \in chains, LabelsReply(c)
    PROVE  TypeInv'
<1> DEFINE d == [c EXCEPT !.at = "seed", !.lists = SeedLabels]
<1>1. c \in Chain /\ Labelled(c) /\ SeedLabels \in SUBSET Labels
  BY SyncAssumption DEF SyncAssumption, TypeInv, SlotOK
<1>2. [c EXCEPT !.at = "seed"] \in Chain
  BY <1>1, ChainUpdate DEF Stages
<1>3. d \in Chain
  BY <1>1, <1>2, ChainUpdate
<1>4. Labelled(d)
  BY <1>1 DEF Labelled, Chain
<1>5. SlotOK'
  BY <1>3, <1>4, SlotTypes DEF LabelsReply, TypeInv
<1> QED BY <1>5 DEF LabelsReply, TypeInv, mailVars, walkVars, gapVars, boundVars,
           MailTypeOK, DbOK, WalkOK, GapOK, BodyOK, BoundOK

LEMMA CommitSeedType ==
    ASSUME MailTypeOK, DbOK, GapOK, NEW c \in Chain, CommitSeed(c)
    PROVE  historyId' \in Nat /\ GapOK'
BY DEF CommitSeed, Chain, GapOK, MailTypeOK, DbOK

\* What one seed listing does to the chain.
LEMMA SeedListedType ==
    ASSUME TypeInv, NEW c \in chains, c.at = "seed", NEW l \in Labels,
           NEW found \in SUBSET Msgs, SeedListed(c, l, found)
    PROVE  SlotOK' /\ historyId' \in Nat \cup {NoHistory} /\ GapOK'
<1> DEFINE d == [c EXCEPT !.lists = @ \ {l}, !.ids = @ \cup found]
<1>1. c \in Chain /\ Labelled(c)
  BY DEF TypeInv, SlotOK
<1>2. c.lists \ {l} \in SUBSET Labels /\ c.ids \cup found \in SUBSET Msgs
  BY <1>1 DEF Chain
<1>3. [c EXCEPT !.lists = @ \ {l}] \in Chain
  BY <1>1, <1>2, ChainUpdate
<1>4. d = [[c EXCEPT !.lists = @ \ {l}] EXCEPT !.ids = c.ids \cup found]
  BY <1>1 DEF Chain
<1>5. d \in Chain /\ Labelled(d)
  <2>1. d \in Chain
    BY <1>2, <1>3, <1>4, ChainUpdate
  <2> QED BY <2>1, <1>1 DEF Labelled, Chain
<1> HIDE DEF d
<1>6. CASE d.lists # {} /\ Advance(c, d) /\ UNCHANGED <<historyId, gapVars>>
  BY <1>5, <1>6, SlotTypes DEF TypeInv, GapOK, gapVars, DbOK
<1>7. CASE CommitSeed(d) /\ Release(c)
  BY <1>5, <1>7, ReleaseType, CommitSeedType DEF TypeInv
<1>8. ASSUME NEW S \in SUBSET d.ids,
             Advance(c, [d EXCEPT !.at = "fetch", !.ids = S, !.todo = S]),
             UNCHANGED <<historyId, gapVars>>
      PROVE  SlotOK' /\ historyId' \in Nat \cup {NoHistory} /\ GapOK'
  <2> DEFINE e == [d EXCEPT !.at = "fetch", !.ids = S, !.todo = S]
  <2>1. S \in SUBSET Msgs
    BY <1>5 DEF Chain
  <2>2. [d EXCEPT !.at = "fetch"] \in Chain
    BY <1>5, ChainUpdate DEF Stages
  <2>3. [d EXCEPT !.at = "fetch", !.ids = S] \in Chain
    BY <2>1, <2>2, ChainUpdate
  <2>4. e \in Chain
    BY <2>1, <2>3, ChainUpdate
  <2>5. Labelled(e)
    BY <1>5 DEF Labelled, Chain
  <2> QED BY <1>8, <2>4, <2>5, SlotTypes DEF TypeInv, GapOK, gapVars, DbOK
<1> QED BY <1>6, <1>7, <1>8 DEF SeedListed, d

LEMMA SeedPageType ==
    ASSUME TypeInv, NEW c \in chains, NEW l \in Labels, SeedPageReply(c, l) \/ SeedPageFails(c, l)
    PROVE  TypeInv'
<1>1. FirstPage(Listing(l, Newest), InitialPerLabelCap) \in SUBSET Msgs
  <2>1. Listing(l, Newest) \subseteq Msgs
    BY DEF Listing, TypeInv, MailTypeOK
  <2> QED BY <2>1, Zenon DEF FirstPage
<1>2. SlotOK' /\ historyId' \in Nat \cup {NoHistory} /\ GapOK'
  BY <1>1, SeedListedType DEF SeedPageReply, SeedPageFails
<1>3. BoundOK'
  BY DEF SeedPageReply, SeedPageFails, Fault, boundVars, TypeInv, BoundOK
<1> QED BY <1>2, <1>3 DEF SeedPageReply, SeedPageFails, TypeInv, mailVars, walkVars,
           MailTypeOK, DbOK, WalkOK, BodyOK

\* The incremental sync.

LEMMA SyncRequestFailsType ==
    ASSUME TypeInv, NEW c \in chains, SyncRequestFails(c)
    PROVE  TypeInv'
<1>1. SlotOK'
  BY ReleaseType DEF SyncRequestFails, TypeInv
<1> QED BY <1>1 DEF SyncRequestFails, Fault, TypeInv, mailVars, dbVars, walkVars, gapVars,
           MailTypeOK, DbOK, WalkOK, GapOK, BodyOK, BoundOK

LEMMA HistoryTooOldType ==
    ASSUME TypeInv, NEW c \in chains, HistoryTooOld(c)
    PROVE  TypeInv'
<1>1. NewChain("initial", "profile") \in Chain
  BY NewChainType DEF Stages
<1>2. Labelled(NewChain("initial", "profile"))
  BY DEF Labelled, NewChain
<1>3. SlotOK'
  BY <1>1, <1>2 DEF HistoryTooOld, TypeInv, SlotOK, States
<1> QED BY <1>3 DEF HistoryTooOld, TypeInv, mailVars, walkVars, gapVars, boundVars,
           MailTypeOK, DbOK, WalkOK, GapOK, BodyOK, BoundOK

LEMMA HistoryReplyType ==
    ASSUME TypeInv, NEW c \in chains, HistoryReply(c)
    PROVE  TypeInv'
<1> DEFINE full == Len(hist)
           upto == IF full > c.from + HistoryPageSize THEN c.from + HistoryPageSize ELSE full
           cut  == {m \in Msgs : TouchedIn(m, upto + 1, full)}
           d    == [c EXCEPT !.at = "apply", !.upto = upto, !.hid = full]
<1>1. c \in Chain /\ Labelled(c)
  BY DEF TypeInv, SlotOK
<1>2. full \in Nat /\ upto \in Nat
  <2>1. c.from \in Nat /\ HistoryPageSize \in Nat
    BY <1>1, SyncAssumption DEF SyncAssumption, Chain
  <2>2. full \in Nat
    BY DEF TypeInv, MailTypeOK
  <2> QED BY <2>1, <2>2
<1>3. cut \subseteq Msgs
  OBVIOUS
<1> HIDE DEF full, upto, cut
<1>4. [c EXCEPT !.at = "apply"] \in Chain
  BY <1>1, ChainUpdate DEF Stages
<1>5. [c EXCEPT !.at = "apply", !.upto = upto] \in Chain
  BY <1>2, <1>4, ChainUpdate
<1>6. d \in Chain
  BY <1>2, <1>5, ChainUpdate
<1>7. Labelled(d)
  BY <1>1 DEF Labelled, Chain
<1> HIDE DEF d
<1>8. /\ Advance(c, d)
      /\ historyId' = full
      /\ staleRows' = staleRows \cup (cut \cap rows)
      /\ unfetched' = unfetched \cup (cut \ rows)
      /\ UNCHANGED <<mailVars, rows, rowLabels, pageToken, exhausted, labelRows>>
      /\ UNCHANGED <<walkVars, bodyGets, unseeded, topUpsOpen, boundVars>>
  BY DEF HistoryReply, full, upto, cut, d
<1>9. SlotOK'
  BY <1>6, <1>7, <1>8, SlotTypes DEF TypeInv
<1> QED BY <1>2, <1>3, <1>8, <1>9 DEF TypeInv, mailVars, walkVars, boundVars,
           MailTypeOK, DbOK, WalkOK, GapOK, BodyOK, BoundOK

LEMMA ApplyPageType ==
    ASSUME TypeInv, NEW c \in chains, ApplyPage(c)
    PROVE  TypeInv'
<1> DEFINE On(kind)  == {m \in Msgs : Happened(kind, m, c.from + 1, c.upto)}
           deleted   == On("messagesDeleted")
           kept      == rows \ deleted
           added     == (On("messagesAdded") \cup (On("labelsAdded") \ kept)) \ deleted
           d         == [c EXCEPT !.at = "fetch", !.ids = added, !.todo = added]
<1>1. c \in Chain /\ Labelled(c)
  BY DEF TypeInv, SlotOK
<1>2. rows' \subseteq Msgs
  BY DEF ApplyPage, TypeInv, DbOK
<1>3. rowLabels' \in [Msgs -> SUBSET Labels]
  <2>1. \A m \in Msgs : Relabelled(c, m) \subseteq Labels /\ rowLabels[m] \subseteq Labels
    BY DEF Relabelled, TypeInv, DbOK
  <2>2. rowLabels' = [m \in Msgs |-> IF m \in deleted THEN {}
                                     ELSE IF m \in kept \ added THEN Relabelled(c, m)
                                     ELSE rowLabels[m]]
    BY DEF ApplyPage
  <2> HIDE DEF added, kept, deleted
  <2> QED BY <2>1, <2>2
<1>4. added \in SUBSET Msgs
  OBVIOUS
<1>5. Release(c) \/ Advance(c, d)
  BY DEF ApplyPage
<1> HIDE DEF added
<1>6. [c EXCEPT !.at = "fetch"] \in Chain
  BY <1>1, ChainUpdate DEF Stages
<1>7. [c EXCEPT !.at = "fetch", !.ids = added] \in Chain
  BY <1>4, <1>6, ChainUpdate
<1>8. d \in Chain
  BY <1>4, <1>7, ChainUpdate
<1>9. Labelled(d)
  BY <1>1 DEF Labelled, Chain
<1>10. SlotOK'
  BY <1>5, <1>8, <1>9, SlotTypes, ReleaseType DEF TypeInv
<1>11. /\ UNCHANGED <<mailVars, historyId, pageToken, exhausted, labelRows>>
       /\ UNCHANGED <<walkVars, bodyGets, gapVars, topUpsOpen, boundVars>>
  BY DEF ApplyPage
<1> QED BY <1>2, <1>3, <1>10, <1>11 DEF TypeInv, mailVars, walkVars, gapVars, boundVars,
           MailTypeOK, DbOK, WalkOK, GapOK, BodyOK, BoundOK

\* fetchAndStoreMessages.

LEMMA AnsweredType ==
    ASSUME DbOK, GapOK, SlotOK, NEW c \in chains, NEW d \in Chain, Labelled(d),
           NEW gap \in SUBSET Msgs, Answered(c, d, gap)
    PROVE  /\ SlotOK' /\ GapOK'
           /\ rows' \subseteq Msgs /\ rowLabels' \in [Msgs -> SUBSET Labels]
<1>1. CASE d.todo # {}
  BY <1>1, SlotTypes DEF Answered, DbOK, GapOK
<1>2. CASE d.todo = {}
  <2>1. d.got \subseteq Msgs /\ d.snap \in [Msgs -> SUBSET Labels]
    BY DEF Chain
  <2>2. rows' \subseteq Msgs /\ rowLabels' \in [Msgs -> SUBSET Labels] /\ GapOK'
    BY <1>2, <2>1 DEF Answered, DbOK, GapOK
  <2>3. [d EXCEPT !.at = "settle"] \in Chain
    BY ChainUpdate DEF Stages
  <2>4. Labelled([d EXCEPT !.at = "settle"])
    BY DEF Labelled, Chain
  <2>5. SlotOK'
    BY <1>2, <2>3, <2>4, SlotTypes DEF Answered
  <2> QED BY <2>2, <2>5
<1> QED BY <1>1, <1>2

LEMMA GetType ==
    ASSUME TypeInv, NEW c \in chains, NEW m \in Msgs,
           GetReply(c, m) \/ GetNotFound(c, m) \/ GetFails(c, m)
    PROVE  TypeInv'
<1> DEFINE dropped == [c EXCEPT !.todo = @ \ {m}]
           stored  == [c EXCEPT !.todo = @ \ {m}, !.got = @ \cup {m},
                                !.snap = [@ EXCEPT ![m] = tags[m]]]
<1>1. c \in Chain /\ Labelled(c)
  BY DEF TypeInv, SlotOK
<1>2. /\ c.todo \ {m} \in SUBSET Msgs /\ c.got \cup {m} \in SUBSET Msgs
      /\ [c.snap EXCEPT ![m] = tags[m]] \in [Msgs -> SUBSET Labels]
  <2>1. tags[m] \in SUBSET Labels
    BY DEF TypeInv, MailTypeOK
  <2> QED BY <1>1, <2>1 DEF Chain
<1>3. dropped \in Chain /\ Labelled(dropped)
  <2>1. dropped \in Chain
    BY <1>1, <1>2, ChainUpdate
  <2> QED BY <1>1, <2>1 DEF Labelled, Chain
<1>4. stored \in Chain /\ Labelled(stored)
  <2>1. stored = [[dropped EXCEPT !.got = c.got \cup {m}]
                           EXCEPT !.snap = [c.snap EXCEPT ![m] = tags[m]]]
    BY <1>1 DEF Chain
  <2>2. [dropped EXCEPT !.got = c.got \cup {m}] \in Chain
    BY <1>2, <1>3, ChainUpdate
  <2>3. stored \in Chain
    BY <1>2, <2>1, <2>2, ChainUpdate
  <2> QED BY <1>1, <2>3 DEF Labelled, Chain
<1> HIDE DEF dropped, stored
<1>5. \/ Answered(c, stored, {})
      \/ Answered(c, dropped, {})
      \/ Answered(c, dropped, {m})
  BY DEF GetReply, GetNotFound, GetFails, dropped, stored
<1>6. /\ SlotOK' /\ GapOK'
      /\ rows' \subseteq Msgs /\ rowLabels' \in [Msgs -> SUBSET Labels]
  BY <1>3, <1>4, <1>5, AnsweredType DEF TypeInv
<1>7. BoundOK'
  BY DEF GetReply, GetNotFound, GetFails, Fault, boundVars, TypeInv, BoundOK
<1>8. /\ UNCHANGED <<mailVars, historyId, pageToken, exhausted, labelRows>>
      /\ UNCHANGED <<walkVars, bodyGets, topUpsOpen>>
  BY DEF GetReply, GetNotFound, GetFails
<1> QED BY <1>6, <1>7, <1>8 DEF TypeInv, mailVars, walkVars, MailTypeOK, DbOK, WalkOK, BodyOK

LEMMA SettleType ==
    ASSUME TypeInv, NEW c \in chains, Settle(c)
    PROVE  TypeInv'
<1>1. c \in Chain /\ Labelled(c)
  BY DEF TypeInv, SlotOK
<1>2. SlotOK'
  BY ReleaseType DEF Settle, TypeInv
<1>3. UNCHANGED <<mailVars, rows, rowLabels, labelRows, bodyGets, boundVars>>
  BY DEF Settle
<1>4. CASE CommitSeed(c) /\ UNCHANGED <<pageToken, exhausted, walkVars, topUpsOpen>>
  <2>1. historyId' \in Nat /\ GapOK'
    BY <1>1, <1>4, CommitSeedType DEF TypeInv
  <2> QED BY <1>2, <1>3, <1>4, <2>1 DEF TypeInv, mailVars, walkVars, boundVars,
             MailTypeOK, DbOK, WalkOK, BodyOK, BoundOK
<1>5. CASE UNCHANGED <<historyId, pageToken, exhausted, walkVars, topUpsOpen, gapVars>>
  BY <1>2, <1>3, <1>5 DEF TypeInv, mailVars, walkVars, gapVars, boundVars,
     MailTypeOK, DbOK, WalkOK, GapOK, BodyOK, BoundOK
<1>6. CASE /\ c.kind = "topup"
           /\ pageToken' = [pageToken EXCEPT ![c.label] = c.next]
           /\ EmitTopUpFinished(c.label, c.last, posted)
           /\ UNCHANGED <<historyId, gapVars>>
  <2>1. c.label \in Labels /\ c.last \in BOOLEAN /\ c.next \in Tokens /\ posted \in Seq(Posted)
    BY <1>1, <1>6 DEF Labelled, Chain, TypeInv, WalkOK
  <2>2. WalkOK' /\ exhausted' \subseteq Labels
    BY <1>6, <2>1, EmitType DEF TypeInv
  <2>3. pageToken' \in [Labels -> Tokens]
    BY <1>6, <2>1 DEF TypeInv, DbOK
  <2> QED BY <1>2, <1>3, <1>6, <2>2, <2>3 DEF TypeInv, mailVars, gapVars, boundVars,
             MailTypeOK, DbOK, GapOK, BodyOK, BoundOK
<1> QED BY <1>4, <1>5, <1>6 DEF Settle

\* Top-ups.

LEMMA ListReplyType ==
    ASSUME TypeInv, NEW c \in chains, ListReply(c)
    PROVE  TypeInv'
<1> DEFINE S       == Listing(c.label, pageToken[c.label])
           P       == FirstPage(S, PageSize)
           next    == NextToken(S, P)
           missing == P \ rows
           last    == P = S
           step    == [kind |-> "step", label |-> c.label, pages |-> c.pages + 1]
           d       == [c EXCEPT !.at = "fetch", !.ids = missing, !.todo = missing,
                                !.next = next, !.last = last]
<1>1. c \in Chain /\ Labelled(c) /\ c.label \in Labels /\ c.pages \in Nat
  BY DEF TypeInv, SlotOK, ListReply, Labelled, Chain
<1>2. S \subseteq Msgs
  BY DEF Listing, TypeInv, MailTypeOK
<1>3. P \subseteq Msgs
  BY <1>2, Zenon DEF FirstPage
<1>4. next \in Tokens /\ missing \in SUBSET Msgs /\ last \in BOOLEAN
  <2>1. PageSize \in Nat \ {0}
    BY SyncAssumption DEF SyncAssumption
  <2>2. next \in Tokens
    BY <1>2, <2>1, NextTokenType
  <2> HIDE DEF P, S, next
  <2> QED BY <1>3, <2>2
<1>5. \/ /\ pageToken' = [pageToken EXCEPT ![c.label] = next]
         /\ Release(c)
         /\ EmitTopUpFinished(c.label, last, posted)
      \/ /\ pageToken' = [pageToken EXCEPT ![c.label] = next]
         /\ Release(c)
         /\ posted' = Append(posted, step)
         /\ UNCHANGED <<walkTarget, walkCancel, crawlWatch, exhausted, topUpsOpen>>
      \/ /\ Advance(c, d)
         /\ UNCHANGED <<pageToken, exhausted, walkVars, topUpsOpen>>
  BY DEF ListReply
<1>6. /\ UNCHANGED <<mailVars, rows, rowLabels, historyId, labelRows>>
      /\ UNCHANGED <<bodyGets, gapVars, boundVars>>
  BY DEF ListReply
<1> HIDE DEF S, P, next, missing, last
<1>7. d \in Chain
  <2>1. [c EXCEPT !.at = "fetch"] \in Chain
    BY <1>1, ChainUpdate DEF Stages
  <2>2. [c EXCEPT !.at = "fetch", !.ids = missing] \in Chain
    BY <1>4, <2>1, ChainUpdate
  <2>3. [c EXCEPT !.at = "fetch", !.ids = missing, !.todo = missing] \in Chain
    BY <1>4, <2>2, ChainUpdate
  <2>4. [c EXCEPT !.at = "fetch", !.ids = missing, !.todo = missing, !.next = next] \in Chain
    BY <1>4, <2>3, ChainUpdate
  <2> QED BY <1>4, <2>4, ChainUpdate
<1>8. Labelled(d)
  BY <1>1 DEF Labelled, Chain
<1> HIDE DEF d
<1>9. SlotOK'
  BY <1>5, <1>7, <1>8, SlotTypes, ReleaseType DEF TypeInv
<1>10. step \in Posted /\ Append(posted, step) \in Seq(Posted)
  <2>1. step \in Posted
    BY <1>1 DEF Posted
  <2> QED BY <2>1, AppendProperties DEF TypeInv, WalkOK
<1> HIDE DEF step
<1>11. WalkOK' /\ exhausted' \subseteq Labels
  <2>1. CASE EmitTopUpFinished(c.label, last, posted)
    BY <1>1, <1>4, <2>1, EmitType DEF TypeInv, WalkOK
  <2>2. CASE /\ posted' = Append(posted, step)
             /\ UNCHANGED <<walkTarget, walkCancel, crawlWatch, exhausted, topUpsOpen>>
    BY <1>10, <2>2 DEF TypeInv, WalkOK, DbOK
  <2>3. CASE UNCHANGED <<pageToken, exhausted, walkVars, topUpsOpen>>
    BY <2>3 DEF TypeInv, WalkOK, DbOK, walkVars
  <2> QED BY <1>5, <2>1, <2>2, <2>3
<1>12. pageToken' \in [Labels -> Tokens]
  BY <1>4, <1>5 DEF TypeInv, DbOK
<1> QED BY <1>6, <1>9, <1>11, <1>12 DEF TypeInv, mailVars, gapVars, boundVars,
           MailTypeOK, DbOK, GapOK, BodyOK, BoundOK

LEMMA ListFailsType ==
    ASSUME TypeInv, NEW c \in chains, ListFails(c)
    PROVE  TypeInv'
<1>1. c.label \in Labels /\ Newest \in Tokens
  BY GmailAssumption DEF GmailAssumption, TypeInv, SlotOK, ListFails, Labelled, Newest, Tokens
<1>2. SlotOK'
  BY ReleaseType DEF ListFails, TypeInv
<1>3. WalkOK' /\ exhausted' \subseteq Labels
  BY <1>1, EmitType DEF ListFails, TypeInv, WalkOK
<1>4. pageToken' \in [Labels -> Tokens]
  BY <1>1 DEF ListFails, TypeInv, DbOK
<1> QED BY <1>2, <1>3, <1>4 DEF ListFails, Fault, TypeInv, mailVars, gapVars,
           MailTypeOK, DbOK, GapOK, BodyOK, BoundOK

LEMMA RunPostedStepType == TypeInv /\ RunPostedStep => TypeInv'
<1> SUFFICES ASSUME TypeInv, RunPostedStep
             PROVE  TypeInv'
  OBVIOUS
<1> DEFINE p == Head(posted)
           d == ListChain(p.label, p.pages)
<1>1. p \in Posted /\ Tail(posted) \in Seq(Posted)
  BY HeadTailProperties DEF RunPostedStep, TypeInv, WalkOK
<1>2. p.label \in Labels /\ p.pages \in Nat
  BY <1>1 DEF Posted
<1>3. \/ busy /\ EmitTopUpFinished(p.label, FALSE, Tail(posted)) /\ UNCHANGED slotVars
      \/ /\ Take(d, "TopUp") /\ posted' = Tail(posted)
         /\ UNCHANGED <<walkTarget, walkCancel, crawlWatch, exhausted, topUpsOpen>>
  BY DEF RunPostedStep
<1>4. /\ UNCHANGED <<mailVars, rows, rowLabels, historyId, pageToken, labelRows>>
      /\ UNCHANGED <<bodyGets, gapVars, boundVars>>
  BY DEF RunPostedStep
<1> HIDE DEF p
<1>5. d \in Chain /\ Labelled(d)
  <2>1. NewChain("topup", "list") \in Chain
    BY NewChainType DEF Stages
  <2>2. [NewChain("topup", "list") EXCEPT !.label = p.label] \in Chain
    BY <1>2, <2>1, ChainUpdate
  <2>3. d \in Chain
    BY <1>2, <2>2, ChainUpdate DEF ListChain
  <2>4. d.label = p.label
    BY DEF ListChain, NewChain
  <2> QED BY <1>2, <2>3, <2>4 DEF Labelled
<1> HIDE DEF d
<1>6. SlotOK'
  <2>1. CASE UNCHANGED slotVars
    BY <2>1 DEF TypeInv, SlotOK, slotVars, Labelled
  <2>2. CASE Take(d, "TopUp")
    BY <1>5, <2>2, SlotTypes DEF TypeInv, States
  <2> QED BY <1>3, <2>1, <2>2
<1>7. WalkOK' /\ exhausted' \subseteq Labels
  <2>1. CASE EmitTopUpFinished(p.label, FALSE, Tail(posted))
    BY <1>1, <1>2, <2>1, EmitType DEF TypeInv
  <2>2. CASE /\ posted' = Tail(posted)
             /\ UNCHANGED <<walkTarget, walkCancel, crawlWatch, exhausted, topUpsOpen>>
    BY <1>1, <2>2 DEF TypeInv, WalkOK, DbOK
  <2> QED BY <1>3, <2>1, <2>2
<1> QED BY <1>4, <1>6, <1>7 DEF TypeInv, mailVars, gapVars, boundVars,
           MailTypeOK, DbOK, GapOK, BodyOK, BoundOK

LEMMA RunPostedNextType == TypeInv /\ RunPostedNext => TypeInv'
<1> SUFFICES ASSUME TypeInv, RunPostedNext
             PROVE  TypeInv'
  OBVIOUS
<1>1. Head(posted) \in Posted /\ Tail(posted) \in Seq(Posted)
  BY HeadTailProperties DEF RunPostedNext, TypeInv, WalkOK
<1>2. Head(posted).label \in Labels
  BY <1>1 DEF Posted
<1>3. SlotOK' /\ topUpsOpen' \in [Labels -> Int]
  <2>1. CASE UNCHANGED <<slotVars, topUpsOpen>>
    BY <2>1 DEF TypeInv, SlotOK, WalkOK, slotVars, Labelled
  <2>2. CASE StartTopUp(Head(posted).label)
    BY <1>2, <2>2, StartTopUpType DEF TypeInv
  <2> QED BY <2>1, <2>2 DEF RunPostedNext
<1> QED BY <1>1, <1>3 DEF RunPostedNext, TypeInv, mailVars, dbVars, gapVars, boundVars,
           MailTypeOK, DbOK, WalkOK, GapOK, BodyOK, BoundOK

LEMMA TopUpRequestType ==
    ASSUME TypeInv, NEW l \in Labels,
           TopUpLabel(l) \/ CacheLabelComplete(l) \/ TickBackgroundCrawl(l)
    PROVE  TypeInv'
<1>1. SlotOK' /\ topUpsOpen' \in [Labels -> Int]
  BY StartTopUpType DEF TopUpLabel, CacheLabelComplete, TickBackgroundCrawl, TypeInv
<1>2. CASE TopUpLabel(l)
  BY <1>1, <1>2 DEF TopUpLabel, Request, TypeInv, mailVars, dbVars, walkVars, gapVars,
     MailTypeOK, DbOK, WalkOK, GapOK, BodyOK, BoundOK
<1>3. CASE CacheLabelComplete(l)
  <2>1. WalkOK'
    BY <1>1, <1>3 DEF CacheLabelComplete, TypeInv, WalkOK
  <2>2. BoundOK'
    BY <1>3 DEF CacheLabelComplete, Request, TypeInv, BoundOK
  <2> QED BY <1>1, <1>3, <2>1, <2>2 DEF CacheLabelComplete, TypeInv, mailVars, dbVars, gapVars,
             MailTypeOK, DbOK, GapOK, BodyOK
<1>4. CASE TickBackgroundCrawl(l)
  BY <1>1, <1>4 DEF TickBackgroundCrawl, TypeInv, mailVars, dbVars, gapVars, boundVars,
     MailTypeOK, DbOK, WalkOK, GapOK, BodyOK, BoundOK
<1> QED BY <1>2, <1>3, <1>4

LEMMA WalkRequestType ==
    ASSUME TypeInv, CancelCacheLabel \/ ResetBackgroundCrawlProgress
    PROVE  TypeInv'
<1>1. CASE CancelCacheLabel
  BY <1>1 DEF CancelCacheLabel, Request, TypeInv, mailVars, dbVars, slotVars, gapVars,
     MailTypeOK, DbOK, SlotOK, WalkOK, GapOK, BodyOK, BoundOK, Labelled
<1>2. CASE ResetBackgroundCrawlProgress
  BY <1>2 DEF ResetBackgroundCrawlProgress, Request, TypeInv, mailVars, slotVars, walkVars,
     gapVars, MailTypeOK, DbOK, SlotOK, WalkOK, GapOK, BodyOK, BoundOK, Labelled
<1> QED BY <1>1, <1>2

\* fetchBodyOnDemand.

LEMMA FetchBodyType ==
    ASSUME TypeInv, NEW m \in Msgs, FetchBodyOnDemand(m)
    PROVE  TypeInv'
<1>1. [msg |-> m, answered |-> FALSE, labels |-> {}, seen |-> 0] \in BodyGet
  BY DEF BodyGet
<1>2. BodyOK'
  BY <1>1 DEF FetchBodyOnDemand, TypeInv, BodyOK
<1>3. BoundOK'
  BY DEF FetchBodyOnDemand, Request, TypeInv, BoundOK
<1> QED BY <1>2, <1>3 DEF FetchBodyOnDemand, TypeInv, mailVars, dbVars, slotVars, walkVars,
           gapVars, MailTypeOK, DbOK, SlotOK, WalkOK, GapOK, Labelled

LEMMA BodyAnsweredType ==
    ASSUME TypeInv, NEW b \in bodyGets, BodyAnswered(b)
    PROVE  TypeInv'
<1> DEFINE e == [b EXCEPT !.answered = TRUE, !.labels = tags[b.msg], !.seen = Len(hist)]
<1>1. b \in BodyGet /\ Len(hist) \in Nat
  BY DEF TypeInv, BodyOK, MailTypeOK
<1>2. tags[b.msg] \in SUBSET Labels
  BY <1>1 DEF BodyGet, TypeInv, MailTypeOK
<1>3. e \in BodyGet
  <2>1. [b EXCEPT !.answered = TRUE] \in BodyGet
    BY <1>1 DEF BodyGet
  <2>2. [b EXCEPT !.answered = TRUE, !.labels = tags[b.msg]] \in BodyGet
    BY <1>2, <2>1 DEF BodyGet
  <2> QED BY <1>1, <2>2 DEF BodyGet
<1> HIDE DEF e
<1>4. /\ bodyGets' = (bodyGets \ {b}) \cup {e}
      /\ UNCHANGED <<mailVars, dbVars, slotVars, walkVars, gapVars, topUpsOpen, boundVars>>
  BY DEF BodyAnswered, e
<1> QED BY <1>3, <1>4 DEF TypeInv, mailVars, dbVars, slotVars, walkVars, gapVars, boundVars,
           MailTypeOK, DbOK, SlotOK, WalkOK, GapOK, BodyOK, BoundOK, Labelled

LEMMA BodyType ==
    ASSUME TypeInv, NEW b \in bodyGets, Body(b)
    PROVE  TypeInv'
<1>1. CASE BodyNotFound(b)
  BY <1>1 DEF BodyNotFound, TypeInv, mailVars, dbVars, slotVars, walkVars, gapVars, boundVars,
     MailTypeOK, DbOK, SlotOK, WalkOK, GapOK, BodyOK, BoundOK, Labelled
<1>2. CASE BodyFails(b)
  BY <1>2 DEF BodyFails, Fault, TypeInv, mailVars, dbVars, slotVars, walkVars, gapVars,
     MailTypeOK, DbOK, SlotOK, WalkOK, GapOK, BodyOK, BoundOK, Labelled
<1>3. CASE StoreBody(b)
  <2>1. b.msg \in Msgs /\ b.labels \subseteq Labels
    BY DEF TypeInv, BodyOK, BodyGet
  <2>2. rows' \subseteq Msgs /\ rowLabels' \in [Msgs -> SUBSET Labels] /\ GapOK' /\ BodyOK'
    BY <1>3, <2>1 DEF StoreBody, TypeInv, DbOK, GapOK, BodyOK
  <2> QED BY <1>3, <2>2 DEF StoreBody, TypeInv, mailVars, slotVars, walkVars, boundVars,
             MailTypeOK, DbOK, SlotOK, WalkOK, BoundOK, Labelled
<1> QED BY <1>1, <1>2, <1>3 DEF Body

LEMMA CrashType == TypeInv /\ Crash => TypeInv'
<1> SUFFICES ASSUME TypeInv, Crash
             PROVE  TypeInv'
  OBVIOUS
<1>1. GapOK'
  BY DEF Crash, TypeInv, GapOK, DbOK, AllOwed, Owed, SlotOK, Chain
<1>2. WalkOK'
  <2>1. posted' \in Seq(Posted)
    BY EmptySeq DEF Crash
  <2>2. topUpsOpen' \in [Labels -> Int]
    BY DEF Crash
  <2>3. walkTarget' = NoLabel /\ walkCancel' = FALSE /\ crawlWatch' = {}
    BY DEF Crash
  <2> QED BY <2>1, <2>2, <2>3 DEF WalkOK
<1>3. SlotOK' /\ BodyOK'
  BY DEF Crash, SlotOK, States, BodyOK
<1>5. BoundOK'
  BY DEF Crash, TypeInv, BoundOK
<1>4. MailTypeOK' /\ DbOK'
  BY DEF Crash, TypeInv, mailVars, dbVars, MailTypeOK, DbOK
<1> QED BY <1>1, <1>2, <1>3, <1>4, <1>5 DEF TypeInv

LEMMA TypeInit == Init => TypeInv
<1> SUFFICES ASSUME Init
             PROVE  TypeInv
  OBVIOUS
<1>1. MailTypeOK
  BY GmailAssumption DEF GmailAssumption, Init, MailInit, MailTypeOK, Msgs, Event
<1>2. pageToken \in [Labels -> Tokens]
  BY GmailAssumption DEF GmailAssumption, Init, Newest, Tokens
<1>3. DbOK
  BY <1>2 DEF Init, DbOK
<1>4. SlotOK /\ BodyOK
  BY DEF Init, SlotOK, States, BodyOK
<1>5. WalkOK
  <2>1. posted \in Seq(Posted)
    BY EmptySeq DEF Init
  <2>2. topUpsOpen \in [Labels -> Int]
    BY DEF Init
  <2>3. walkTarget = NoLabel /\ walkCancel = FALSE /\ crawlWatch = {}
    BY DEF Init
  <2> QED BY <2>1, <2>2, <2>3 DEF WalkOK
<1>6. GapOK /\ BoundOK
  BY DEF Init, GapOK, BoundOK
<1> QED BY <1>1, <1>3, <1>4, <1>5, <1>6 DEF TypeInv

LEMMA HandlerType == TypeInv /\ Handler => TypeInv'
<1> SUFFICES ASSUME TypeInv, Handler
             PROVE  TypeInv'
  OBVIOUS
<1>1. CASE RunOnce \/ RunPosted
  BY <1>1, RunOnceType, RunPostedStepType, RunPostedNextType DEF RunPosted
<1>2. CASE User
  BY <1>2, TopUpRequestType, WalkRequestType, FetchBodyType DEF User
<1>3. ASSUME NEW c \in chains, Answer(c)
      PROVE  TypeInv'
  <2>1. CASE \/ ProfileReply(c) \/ LabelsReply(c) \/ HistoryTooOld(c) \/ HistoryReply(c)
             \/ ListReply(c) \/ ListFails(c) \/ SyncRequestFails(c)
    BY <2>1, ProfileReplyType, LabelsReplyType, HistoryTooOldType, HistoryReplyType,
       ListReplyType, ListFailsType, SyncRequestFailsType
  <2>2. CASE \E l \in Labels : SeedPageReply(c, l) \/ SeedPageFails(c, l)
    BY <2>2, SeedPageType
  <2>3. CASE \E m \in Msgs : GetReply(c, m) \/ GetNotFound(c, m) \/ GetFails(c, m)
    BY <2>3, GetType
  <2> QED BY <1>3, <2>1, <2>2, <2>3 DEF Answer
<1>4. CASE \E l \in Labels : TickBackgroundCrawl(l)
  BY <1>4, TopUpRequestType
<1>5. CASE \E b \in bodyGets : Body(b)
  BY <1>5, BodyType
<1> QED BY <1>1, <1>2, <1>3, <1>4, <1>5 DEF Handler

LEMMA TypeStep == TypeInv /\ [Next]_vars => TypeInv'
<1> SUFFICES ASSUME TypeInv, [Next]_vars
             PROVE  TypeInv'
  OBVIOUS
<1>1. CASE UNCHANGED vars
  BY <1>1 DEF vars, TypeInv, mailVars, dbVars, slotVars, walkVars, gapVars, boundVars,
     MailTypeOK, DbOK, SlotOK, WalkOK, GapOK, BodyOK, BoundOK, Labelled
<1>2. CASE Mailbox
  BY <1>2, MailTypeStep DEF Mailbox, TypeInv, dbVars, slotVars, walkVars, gapVars, boundVars,
     DbOK, SlotOK, WalkOK, GapOK, BodyOK, BoundOK, Labelled
<1>3. CASE \E b \in bodyGets : BodyAnswered(b)
  BY <1>3, BodyAnsweredType
<1>4. CASE ~ MidHandler /\ Handler
  BY <1>4, HandlerType
<1>5. CASE \E c \in chains : Finish(c)
  BY <1>5, ApplyPageType, SettleType DEF Finish
<1>6. CASE Crash
  BY <1>6, CrashType
<1> QED BY <1>1, <1>2, <1>3, <1>4, <1>5, <1>6 DEF Next

\* Every variable keeps its type, and every top-up chain carries the label it
\* walks, so that topUpFinished never posts a continuation without a label.
THEOREM TypeInvAlways == Spec => []TypeInv
BY TypeInit, TypeStep, PTL DEF Spec

\* Type correctness of SyncService.
THEOREM TypeOKAlways == Spec => []TypeOK
BY TypeInvAlways, TypeInvImpliesTypeOK, PTL
-----------------------------------------------------------------------------
(* The cache and the mailbox.                                              *)
(*                                                                         *)
(* The argument has one idea.  Agrees(m, T, h) says that T is the label    *)
(* set of message m up to the changes the log lists after position h.  It  *)
(* is stable: whatever the mailbox does is logged.  Every label set the    *)
(* program holds agrees as of some position: a row as of the recorded      *)
(* history id, a row under a page that is being applied as of the page's   *)
(* start, an answer of a chain as of the id the chain will record, a body  *)
(* fetched on demand as of the moment Gmail answered it.  A handler moves  *)
(* a label set from one of these places to the next.                       *)

\* What the running incremental sync still has to bring.
Outstanding(c) ==
    IF c.kind # "incremental" THEN {}
    ELSE IF c.at = "apply" THEN Owed(c)
    ELSE IF c.at = "fetch" THEN c.todo \cup c.got
    ELSE {}

Pending == UNION {Outstanding(c) : c \in chains}

\* The history id the answers of a chain are as recent as.
Base(c) == IF c.kind = "initial" THEN c.hid ELSE historyId

\* Which stages a chain can be in, and what its fields mean there.
Shape(c) ==
    /\ c.at \in {"profile", "labels", "seed"} => c.kind = "initial"
    /\ c.at = "history" => c.kind = "incremental" /\ c.from = historyId
    /\ c.at = "apply" => /\ c.kind = "incremental"
                         /\ c.from <= c.upto /\ c.upto <= historyId
    /\ c.at = "list" => c.kind = "topup"
    /\ c.kind = "initial" => historyId = NoHistory /\ c.hid <= Len(hist)
    /\ c.kind = "incremental" => historyId # NoHistory
    /\ c.at \notin {"fetch", "settle"} => c.todo = {} /\ c.got = {}
    /\ c.at \in {"fetch", "settle"} => c.todo \cup c.got \subseteq c.ids
    /\ c.at = "settle" => /\ c.todo = {} /\ c.got \subseteq rows
                          /\ \A m \in c.got : rowLabels[m] = c.snap[m]
    /\ \A m \in c.ids : m <= arrived

\* The answers of a chain.
SnapInv(c) == \A m \in c.got : Agrees(m, c.snap[m], Base(c))

\* Between the commit of the history id and the page it came with, the rows
\* are as of the page's start, and no message outside the known gaps is
\* touched by what the page leaves out.
ApplyInv(c) ==
    c.at = "apply" =>
        /\ \A m \in rows \ staleRows : /\ Agrees(m, rowLabels[m], c.from)
                                       /\ ~ TouchedIn(m, c.upto + 1, historyId)
        /\ \A m \in live \ (rows \cup unfetched) :
              /\ ~ TouchedIn(m, c.upto + 1, historyId)
              /\ m \in unseeded \/ Happened("messagesAdded", m, c.from + 1, Len(hist))
              /\ \A l \in Labels : Walked(m, l) =>
                    \/ Happened("messagesAdded", m, c.from + 1, Len(hist))
                    \/ RelabelledIn(m, l, c.from + 1, Len(hist))

\* The page of a fetching incremental sync has taken the dead rows away.
FetchInv(c) ==
    c.kind = "incremental" /\ c.at = "fetch" =>
        \A m \in rows \ (staleRows \cup live) :
            Happened("messagesDeleted", m, historyId + 1, Len(hist))

\* No id an initial sync set out to fetch gets lost.
SeedInv(c) ==
    c.kind = "initial" /\ c.at \in {"fetch", "settle"} =>
        \A m \in c.ids : m \in c.todo \cup c.got \cup rows \cup unfetched \/ Gone(m)

\* Nor one of the page of a top-up, or of the pages before it.
TopUpInv(c) ==
    c.kind = "topup" /\ c.at \in {"fetch", "settle"} =>
        \A m \in live \ (rows \cup unfetched \cup c.todo \cup c.got) :
            c.label \in tags[m] /\ (c.last \/ (c.next # Newest /\ m >= c.next)) =>
                News(m, c.label)

ChainInv(c) ==
    Shape(c) /\ SnapInv(c) /\ ApplyInv(c) /\ FetchInv(c) /\ SeedInv(c) /\ TopUpInv(c)

RowsInv == \A m \in rows \ (staleRows \cup Pending) : Agrees(m, rowLabels[m], historyId)

CoverInv ==
    historyId # NoHistory =>
        \A m \in live \ (rows \cup unfetched \cup unseeded \cup Pending) :
            Happened("messagesAdded", m, historyId + 1, Len(hist))

WalkInv ==
    \A m \in live \ (rows \cup unfetched \cup Pending), l \in Labels :
        Walked(m, l) => News(m, l)

DbInv == LogInv /\ historyId <= Len(hist) /\ RowsInv /\ CoverInv /\ WalkInv

BodyInv ==
    \A b \in bodyGets : b.answered =>
        b.seen <= Len(hist) /\ Agrees(b.msg, b.labels, b.seen)

CacheInv == DbInv /\ BodyInv /\ \A c \in chains : ChainInv(c)

-----------------------------------------------------------------------------
(* Bookkeeping.                                                            *)

LEMMA PendingOf ==
    ASSUME NEW c, chains = {c}
    PROVE  Pending = Outstanding(c)
BY DEF Pending

LEMMA PendingNone == chains = {} => Pending = {}
BY DEF Pending

LEMMA OnlyChain ==
    ASSUME OneChain, NEW c \in chains
    PROVE  chains = {c}
BY DEF OneChain

\* The chain an orderly handler leaves behind.
LEMMA SlotAfter ==
    ASSUME OneChain
    PROVE  /\ \A c, d : c \in chains /\ Advance(c, d) => chains' = {d}
           /\ \A c : c \in chains /\ Release(c) => chains' = {}
           /\ \A d, s : ~ busy /\ Take(d, s) => chains' = {d}
BY DEF OneChain, Advance, Release, Take

\* What the running chain has yet to bring is part of what it owes.
LEMMA PendingIsOwed ==
    ASSUME \A c \in chains : Shape(c)
    PROVE  Pending \subseteq AllOwed
<1>1. \A c \in chains : Outstanding(c) \subseteq Owed(c)
  BY DEF Outstanding, Shape, Owed
<1> QED BY <1>1 DEF Pending, AllOwed

LEMMA CacheTypes ==
    ASSUME TypeInv
    PROVE  /\ historyId \in Int /\ Len(hist) \in Nat
           /\ historyId # NoHistory => historyId \in Nat
           /\ rows \subseteq Msgs /\ live \subseteq Msgs
           /\ \A m \in Msgs : m \in Nat
BY DEF TypeInv, DbOK, MailTypeOK, NoHistory, Msgs

\* What is news of a message stays news, and whatever the mailbox does is.
LEMMA NewsGrows ==
    ASSUME TypeInv, Stable, historyId' = historyId, historyId <= Len(hist)
    PROVE  /\ \A m \in live, l \in Labels : News(m, l) => News(m, l)'
           /\ \A m \in live' \ live, l \in Labels : News(m, l)'
           /\ \A m \in live, l \in Labels :
                 ((l \in tags'[m]) <=> (l \in tags[m])) \/ News(m, l)'
<1>1. PICK base : /\ base = IF historyId = NoHistory THEN 0 ELSE historyId
                  /\ base \in Int /\ base <= Len(hist)
  BY CacheTypes DEF NoHistory
<1>2. /\ \A m, l : News(m, l) <=> \/ Happened("messagesAdded", m, base + 1, Len(hist))
                                  \/ RelabelledIn(m, l, base + 1, Len(hist))
      /\ \A m, l : News(m, l)' <=> \/ Happened("messagesAdded", m, base + 1, Len(hist))'
                                   \/ RelabelledIn(m, l, base + 1, Len(hist))'
  BY <1>1 DEF News
<1>3. /\ \A m \in live' \ live : Happened("messagesAdded", m, base + 1, Len(hist))'
      /\ \A m \in live, l \in Labels :
            ((l \in tags'[m]) <=> (l \in tags[m])) \/ RelabelledIn(m, l, base + 1, Len(hist))'
  BY <1>1 DEF Stable
<1>4. \A m, l : News(m, l) => News(m, l)'
  BY <1>2, WindowsGrow
<1>5. \A m \in live' \ live, l \in Labels : News(m, l)'
  BY <1>2, <1>3
<1>6. \A m \in live, l \in Labels : ((l \in tags'[m]) <=> (l \in tags[m])) \/ News(m, l)'
  BY <1>2, <1>3
<1> QED BY <1>4, <1>5, <1>6

-----------------------------------------------------------------------------
(* The mailbox changes: whatever it does is logged.                        *)

LEMMA MailboxCache ==
    ASSUME TypeInv, CacheInv, Mailbox
    PROVE  CacheInv'
<1>1. /\ MailTypeOK /\ LogInv /\ MailNext
      /\ UNCHANGED <<dbVars, slotVars, walkVars, bodyGets, gapVars, topUpsOpen, boundVars>>
      /\ historyId \in Int /\ historyId <= Len(hist) /\ Len(hist) \in Nat
  BY CacheTypes DEF Mailbox, TypeInv, CacheInv, DbInv
<1>2. Stable /\ LogInv' /\ MailTypeOK'
  BY <1>1, MailStable, LogInvStep, MailTypeStep
<1>3. /\ UNCHANGED <<rows, rowLabels, historyId, pageToken, exhausted>>
      /\ UNCHANGED <<chains, bodyGets, staleRows, unfetched, unseeded>>
  BY <1>1 DEF dbVars, slotVars, gapVars
<1>4. \A c \in chains : c \in Chain /\ ChainInv(c)
  BY DEF TypeInv, SlotOK, CacheInv
<1>5. Pending' = Pending
  <2>1. ASSUME NEW c \in chains
        PROVE  Outstanding(c)' = Outstanding(c)
    <3>1. c.upto \in Int /\ (c.at = "apply" => c.upto <= Len(hist))
      BY <1>1, <1>4 DEF Chain, ChainInv, Shape
    <3>2. c.at = "apply" => Owed(c)' = Owed(c)
      BY <1>2, <3>1, WindowsGrow DEF Owed
    <3> QED BY <3>2 DEF Outstanding
  <2> QED BY <1>3, <2>1 DEF Pending
<1>6. /\ \A m \in Msgs : \A T, h : h \in Int /\ h <= Len(hist) /\ Agrees(m, T, h) => Agrees(m, T, h)'
      /\ \A m \in Msgs : Gone(m) => Gone(m)'
      /\ \A m \in live' \ live : m = arrived + 1
  BY <1>1, <1>2, AgreesGrows, GoneStays DEF Stable
<1>7. \A m \in live' \ live : \A i, j : j \in Int /\ j <= Len(hist) => ~ TouchedIn(m, i, j)'
  <2>1. \A m \in live' \ live : \A i, j : ~ TouchedIn(m, i, j)
    BY <1>1, <1>2, <1>6 DEF Stable, TouchedIn, LogInv
  <2> QED BY <1>2, <2>1, WindowsGrow
<1>8. /\ rows \subseteq Msgs /\ live' \subseteq Msgs /\ live \subseteq Msgs
      /\ arrived <= arrived' /\ arrived \in Nat /\ arrived' \in Nat
      /\ Len(hist) <= Len(hist)' /\ Len(hist)' \in Nat
      /\ \A m \in Msgs : m \in Nat
  BY <1>2, CacheTypes DEF MailTypeOK, Stable
<1>9. DbInv'
  <2>1. RowsInv'
    BY <1>1, <1>3, <1>5, <1>6, <1>8 DEF RowsInv, CacheInv, DbInv
  <2>2. CoverInv'
    <3> SUFFICES ASSUME historyId # NoHistory, NEW m \in live',
                        m \notin rows \cup unfetched \cup unseeded \cup Pending
                 PROVE  Happened("messagesAdded", m, historyId + 1, Len(hist))'
      BY <1>3, <1>5 DEF CoverInv
    <3>1. CASE m \in live
      BY <1>2, <1>3, <3>1, WindowsGrow DEF CacheInv, DbInv, CoverInv
    <3>2. CASE m \notin live
      BY <1>1, <1>2, <1>3, <3>2 DEF Stable
    <3> QED BY <3>1, <3>2
  <2>3. WalkInv'
    <3> SUFFICES ASSUME NEW m \in live', NEW l \in Labels, Walked(m, l)',
                        m \notin rows \cup unfetched \cup Pending
                 PROVE  News(m, l)'
      BY <1>3, <1>5 DEF WalkInv
    <3>1. CASE m \in live /\ l \in tags[m]
      <4>1. Walked(m, l)
        BY <1>3, <3>1 DEF Walked
      <4> QED BY <1>1, <1>2, <1>3, <3>1, <4>1, NewsGrows DEF CacheInv, DbInv, WalkInv
    <3>2. CASE m \in live /\ l \notin tags[m]
      BY <1>1, <1>2, <1>3, <3>2, NewsGrows DEF Walked
    <3>3. CASE m \notin live
      BY <1>1, <1>2, <1>3, <3>3, NewsGrows
    <3> QED BY <3>1, <3>2, <3>3
  <2>4. historyId' <= Len(hist)'
    BY <1>1, <1>3, <1>8
  <2> QED BY <1>2, <2>1, <2>2, <2>3, <2>4 DEF DbInv
<1>10. BodyInv'
  <2> SUFFICES ASSUME NEW b \in bodyGets, b.answered
               PROVE  b.seen <= Len(hist)' /\ Agrees(b.msg, b.labels, b.seen)'
    BY <1>3 DEF BodyInv
  <2>1. b.seen \in Nat /\ b.msg \in Msgs
    BY DEF TypeInv, BodyOK, BodyGet
  <2>2. b.seen <= Len(hist) /\ Agrees(b.msg, b.labels, b.seen)
    BY DEF CacheInv, BodyInv
  <2> QED BY <1>6, <1>8, <2>1, <2>2
<1>11. ASSUME NEW c \in chains
       PROVE  ChainInv(c)'
  <2>1. /\ c.hid \in Nat /\ c.upto \in Nat /\ c.from \in Nat
        /\ c.got \subseteq Msgs /\ c.ids \subseteq Msgs /\ c.label \in Labels \cup {NoLabel}
        /\ Shape(c) /\ SnapInv(c) /\ ApplyInv(c) /\ FetchInv(c) /\ SeedInv(c) /\ TopUpInv(c)
    BY <1>4 DEF Chain, ChainInv
  <2>2. Shape(c)'
    BY <1>3, <1>8, <2>1 DEF Shape
  <2>3. SnapInv(c)'
    <3>1. Base(c)' = Base(c) /\ (c.got # {} => Base(c) \in Int /\ Base(c) <= Len(hist))
      BY <1>1, <1>3, <2>1 DEF Base, Shape
    <3> QED BY <1>6, <2>1, <3>1 DEF SnapInv
  <2>4. ApplyInv(c)'
    <3> SUFFICES ASSUME c.at = "apply"
                 PROVE  ApplyInv(c)'
      BY DEF ApplyInv
    <3>1. c.from <= Len(hist) /\ c.upto <= historyId
      BY <1>1, <2>1 DEF Shape
    <3>2. ASSUME NEW m \in rows \ staleRows
          PROVE  Agrees(m, rowLabels[m], c.from)' /\ ~ TouchedIn(m, c.upto + 1, historyId)'
      <4>1. Agrees(m, rowLabels[m], c.from)'
        BY <1>3, <1>6, <1>8, <2>1, <3>1 DEF ApplyInv
      <4>2. ~ TouchedIn(m, c.upto + 1, historyId)'
        BY <1>1, <1>2, <1>3, <2>1, WindowsGrow DEF ApplyInv
      <4> QED BY <4>1, <4>2
    <3>3. ASSUME NEW m \in live' \ (rows \cup unfetched)
          PROVE  /\ ~ TouchedIn(m, c.upto + 1, historyId)'
                 /\ m \in unseeded \/ Happened("messagesAdded", m, c.from + 1, Len(hist))'
                 /\ \A l \in Labels : Walked(m, l)' =>
                       \/ Happened("messagesAdded", m, c.from + 1, Len(hist))'
                       \/ RelabelledIn(m, l, c.from + 1, Len(hist))'
      <4>1. CASE m \notin live
        BY <1>1, <1>2, <1>3, <1>7, <2>1, <3>1, <4>1 DEF Stable
      <4>2. CASE m \in live
        <5>1. ~ TouchedIn(m, c.upto + 1, historyId)'
          BY <1>1, <1>2, <1>3, <2>1, <4>2, WindowsGrow DEF ApplyInv
        <5>2. m \in unseeded \/ Happened("messagesAdded", m, c.from + 1, Len(hist))'
          BY <1>2, <2>1, <4>2, WindowsGrow DEF ApplyInv
        <5>3. ASSUME NEW l \in Labels, Walked(m, l)'
              PROVE  \/ Happened("messagesAdded", m, c.from + 1, Len(hist))'
                     \/ RelabelledIn(m, l, c.from + 1, Len(hist))'
          <6>1. CASE l \in tags[m]
            <7>1. Walked(m, l)
              BY <1>3, <5>3, <6>1 DEF Walked
            <7> QED BY <1>2, <2>1, <4>2, <7>1, WindowsGrow DEF ApplyInv
          <6>2. CASE l \notin tags[m]
            <7>1. l \in tags'[m]
              BY <5>3 DEF Walked
            <7> QED BY <1>2, <2>1, <3>1, <4>2, <6>2, <7>1 DEF Stable
          <6> QED BY <6>1, <6>2
        <5> QED BY <5>1, <5>2, <5>3
      <4> QED BY <4>1, <4>2
    <3> QED BY <1>3, <3>2, <3>3 DEF ApplyInv
  <2>5. FetchInv(c)'
    <3> SUFFICES ASSUME c.kind = "incremental", c.at = "fetch",
                        NEW m \in rows \ (staleRows \cup live')
                 PROVE  Happened("messagesDeleted", m, historyId + 1, Len(hist))'
      BY <1>3 DEF FetchInv
    <3>1. CASE m \in live
      BY <1>1, <1>2, <1>3, <3>1 DEF Stable
    <3>2. CASE m \notin live
      BY <1>2, <1>3, <2>1, <3>2, WindowsGrow DEF FetchInv
    <3> QED BY <3>1, <3>2
  <2>6. SeedInv(c)'
    BY <1>3, <1>6, <2>1 DEF SeedInv
  <2>7. TopUpInv(c)'
    <3> SUFFICES ASSUME c.kind = "topup", c.at \in {"fetch", "settle"}, NEW m \in live',
                        m \notin rows \cup unfetched \cup c.todo \cup c.got,
                        c.label \in tags'[m], c.last \/ (c.next # Newest /\ m >= c.next)
                 PROVE  News(m, c.label)'
      BY <1>3 DEF TopUpInv
    <3>1. c.label \in Labels
      BY DEF TypeInv, SlotOK, Labelled
    <3>2. CASE m \in live /\ c.label \in tags[m]
      BY <1>1, <1>2, <1>3, <2>1, <3>1, <3>2, NewsGrows DEF TopUpInv
    <3>3. CASE m \in live /\ c.label \notin tags[m]
      BY <1>1, <1>2, <1>3, <3>1, <3>3, NewsGrows
    <3>4. CASE m \notin live
      BY <1>1, <1>2, <1>3, <3>1, <3>4, NewsGrows
    <3> QED BY <3>2, <3>3, <3>4
  <2> QED BY <2>2, <2>3, <2>4, <2>5, <2>6, <2>7 DEF ChainInv
<1> QED BY <1>3, <1>9, <1>10, <1>11 DEF CacheInv

-----------------------------------------------------------------------------
(* Steps of the program that leave the rows alone.                         *)

\* The mailbox, the rows, the history id and the gaps stay, and no walk has
\* gone past more.
Quiet ==
    /\ UNCHANGED <<mailVars, rows, rowLabels, historyId, gapVars>>
    /\ \A m \in Msgs, l \in Labels : Walked(m, l)' => Walked(m, l)

LEMMA WalkedLess ==
    ASSUME UNCHANGED mailVars, exhausted' \subseteq exhausted,
           \A l \in Labels : pageToken'[l] = pageToken[l] \/ pageToken'[l] = Newest
    PROVE  \A m \in Msgs, l \in Labels : Walked(m, l)' => Walked(m, l)
BY DEF Walked, mailVars

\* A chain that has not started to fetch has nothing to answer for.
LEMMA FreshChain ==
    ASSUME NEW d, Shape(d)', d.at \in {"profile", "labels", "seed", "history", "list"}
    PROVE  ChainInv(d)' /\ Outstanding(d) = {}
<1>1. d.got = {} /\ d.at \notin {"apply", "fetch", "settle"}
  BY DEF Shape
<1> QED BY <1>1 DEF ChainInv, SnapInv, ApplyInv, FetchInv, SeedInv, TopUpInv, Outstanding

LEMMA ChainStays ==
    ASSUME TypeInv, Quiet, NEW c, ChainInv(c)
    PROVE  ChainInv(c)'
<1>1. /\ UNCHANGED mailVars /\ UNCHANGED <<rows, rowLabels, historyId, staleRows, unfetched, unseeded>>
      /\ UNCHANGED <<live, tags, arrived, hist>> /\ live \subseteq Msgs
      /\ \A m \in Msgs, l \in Labels : Walked(m, l)' => Walked(m, l)
  BY CacheTypes DEF Quiet, gapVars, mailVars
<1>2. Shape(c)'
  BY <1>1 DEF ChainInv, Shape
<1>3. SnapInv(c)'
  BY <1>1, LogFixed DEF ChainInv, SnapInv, Base
<1>4. ApplyInv(c)'
  BY <1>1, LogFixed DEF ChainInv, ApplyInv
<1>5. FetchInv(c)' /\ SeedInv(c)'
  BY <1>1, LogFixed DEF ChainInv, FetchInv, SeedInv
<1>6. TopUpInv(c)'
  BY <1>1, LogFixed DEF ChainInv, TopUpInv, News
<1> QED BY <1>2, <1>3, <1>4, <1>5, <1>6 DEF ChainInv

LEMMA DbStays ==
    ASSUME TypeInv, Quiet, DbInv, Pending \subseteq Pending'
    PROVE  DbInv'
<1>1. /\ UNCHANGED mailVars /\ UNCHANGED <<rows, rowLabels, historyId, staleRows, unfetched, unseeded>>
      /\ UNCHANGED <<live, tags, arrived, hist>> /\ live \subseteq Msgs
      /\ \A m \in Msgs, l \in Labels : Walked(m, l)' => Walked(m, l)
  BY CacheTypes DEF Quiet, gapVars, mailVars
<1>2. RowsInv' /\ CoverInv'
  BY <1>1, LogFixed DEF DbInv, RowsInv, CoverInv
<1>3. WalkInv'
  BY <1>1, LogFixed DEF DbInv, WalkInv, News
<1> QED BY <1>1, <1>2, <1>3, LogFixed DEF DbInv

LEMMA BodiesStay ==
    ASSUME UNCHANGED mailVars, bodyGets' \subseteq bodyGets, BodyInv
    PROVE  BodyInv'
<1>1. hist' = hist
  BY DEF mailVars
<1> QED BY <1>1, LogFixed DEF BodyInv

\* The chain stays, or it had nothing to bring and what follows has not
\* started to fetch.
LEMMA QuietStep ==
    ASSUME TypeInv, CacheInv, Quiet, bodyGets' \subseteq bodyGets,
           \/ chains' = chains
           \/ Pending = {} /\ \A d \in chains' : ChainInv(d)'
    PROVE  CacheInv'
<1>1. DbInv /\ BodyInv /\ \A c \in chains : ChainInv(c)
  BY DEF CacheInv
<1>2. Pending \subseteq Pending'
  <2>1. CASE chains' = chains
    <3>1. \A c : Outstanding(c)' = Outstanding(c)
      BY LogFixed DEF Quiet, Outstanding, Owed
    <3> QED BY <2>1, <3>1 DEF Pending
  <2> QED BY <2>1
<1>3. DbInv' /\ BodyInv'
  BY <1>1, <1>2, DbStays, BodiesStay DEF Quiet
<1>4. \A d \in chains' : ChainInv(d)'
  BY <1>1, ChainStays
<1> QED BY <1>3, <1>4 DEF CacheInv

\* Every stage but applying and fetching has nothing outstanding.
LEMMA NothingPending ==
    ASSUME OneChain
    PROVE  /\ ~ busy => Pending = {}
           /\ \A c \in chains : c.at \notin {"apply", "fetch"} => Pending = {}
<1>1. ~ busy => Pending = {}
  BY PendingNone DEF OneChain
<1>2. ASSUME NEW c \in chains, c.at \notin {"apply", "fetch"}
      PROVE  Pending = {}
  BY <1>2, OnlyChain, PendingOf DEF Outstanding
<1> QED BY <1>1, <1>2

\* Starting a top-up, or finding the slot taken.
LEMMA StartTopUpCache ==
    ASSUME OneChain, NEW l, StartTopUp(l)
    PROVE  \/ chains' = chains
           \/ Pending = {} /\ \A d \in chains' : ChainInv(d)'
<1>1. CASE busy
  BY <1>1 DEF StartTopUp, slotVars
<1>2. CASE ~ busy
  <2>1. PICK d : d = ListChain(l, 0)
    OBVIOUS
  <2>2. chains' = {d}
    BY <1>2, <2>1, SlotAfter DEF StartTopUp
  <2>3. d.at = "list" /\ d.kind = "topup" /\ d.ids = {} /\ d.todo = {} /\ d.got = {}
    BY <2>1 DEF ListChain, NewChain
  <2>4. Shape(d)'
    BY <2>3 DEF Shape
  <2> QED BY <1>2, <2>2, <2>3, <2>4, FreshChain, NothingPending
<1> QED BY <1>1, <1>2

-----------------------------------------------------------------------------
(* The quiet handlers.                                                     *)

LEMMA RunOnceCache ==
    ASSUME TypeInv, OneChain, CacheInv, RunOnce
    PROVE  CacheInv'
<1>1. Quiet /\ bodyGets' = bodyGets
  BY WalkedLess DEF RunOnce, Quiet, dbVars
<1>2. PICK d : /\ chains' = {d}
               /\ d = IF historyId = NoHistory THEN NewChain("initial", "profile")
                      ELSE [NewChain("incremental", "history") EXCEPT !.from = historyId]
  BY SlotAfter DEF RunOnce
<1>3. /\ d.ids = {} /\ d.todo = {} /\ d.got = {} /\ d.hid = 0
      /\ IF historyId = NoHistory THEN d.at = "profile" /\ d.kind = "initial"
         ELSE d.at = "history" /\ d.kind = "incremental" /\ d.from = historyId
  BY <1>2 DEF NewChain
<1>4. Shape(d)'
  BY <1>1, <1>3, CacheTypes DEF Shape, Quiet, mailVars
<1>5. ChainInv(d)'
  BY <1>3, <1>4, FreshChain
<1>6. Pending = {}
  BY NothingPending DEF RunOnce
<1> QED BY <1>1, <1>2, <1>5, <1>6, QuietStep

LEMMA ProfileReplyCache ==
    ASSUME TypeInv, OneChain, CacheInv, NEW c \in chains, ProfileReply(c) \/ LabelsReply(c)
    PROVE  CacheInv'
<1>1. Quiet /\ bodyGets' = bodyGets
  BY WalkedLess DEF ProfileReply, LabelsReply, Quiet, dbVars
<1>2. c \in Chain /\ Shape(c) /\ c.at \in {"profile", "labels"}
  BY DEF TypeInv, SlotOK, CacheInv, ChainInv, ProfileReply, LabelsReply
<1>3. PICK d : /\ chains' = {d}
               /\ \/ d = [c EXCEPT !.at = "labels", !.hid = Len(hist)]
                  \/ d = [c EXCEPT !.at = "seed", !.lists = SeedLabels]
  BY SlotAfter DEF ProfileReply, LabelsReply
<1>4. /\ d.at \in {"labels", "seed"} /\ d.kind = c.kind /\ d.hid \in {c.hid, Len(hist)}
      /\ d.ids = c.ids /\ d.todo = c.todo /\ d.got = c.got
  BY <1>2, <1>3 DEF Chain
<1>5. Shape(d)'
  BY <1>1, <1>2, <1>4, CacheTypes DEF Shape, Quiet, mailVars
<1>6. ChainInv(d)'
  BY <1>4, <1>5, FreshChain
<1>7. Pending = {}
  BY <1>2, NothingPending
<1> QED BY <1>1, <1>3, <1>6, <1>7, QuietStep

LEMMA SyncRequestFailsCache ==
    ASSUME TypeInv, OneChain, CacheInv, NEW c \in chains, SyncRequestFails(c)
    PROVE  CacheInv'
<1>1. Quiet /\ bodyGets' = bodyGets
  BY WalkedLess DEF SyncRequestFails, Quiet, dbVars
<1>2. chains' = {} /\ Pending = {}
  BY SlotAfter, NothingPending DEF SyncRequestFails
<1> QED BY <1>1, <1>2, QuietStep

LEMMA ListFailsCache ==
    ASSUME TypeInv, OneChain, CacheInv, NEW c \in chains, ListFails(c)
    PROVE  CacheInv'
<1>1. exhausted' = exhausted
  BY DEF ListFails, EmitTopUpFinished
<1>2. \A l \in Labels : pageToken'[l] = pageToken[l] \/ pageToken'[l] = Newest
  BY DEF ListFails, TypeInv, DbOK
<1>3. Quiet /\ bodyGets' = bodyGets
  BY <1>1, <1>2, WalkedLess DEF ListFails, Quiet
<1>4. chains' = {} /\ Pending = {}
  BY SlotAfter, NothingPending DEF ListFails
<1> QED BY <1>3, <1>4, QuietStep

LEMMA RunPostedCache ==
    ASSUME TypeInv, OneChain, CacheInv, RunPosted
    PROVE  CacheInv'
<1>1. Quiet /\ bodyGets' = bodyGets
  <2>1. exhausted' = exhausted /\ UNCHANGED <<mailVars, rows, rowLabels, historyId, gapVars>>
        /\ UNCHANGED <<pageToken, bodyGets>>
    BY DEF RunPosted, RunPostedStep, RunPostedNext, EmitTopUpFinished, dbVars
  <2> QED BY <2>1, WalkedLess DEF Quiet
<1>2. CASE RunPostedStep /\ busy
  <2>1. chains' = chains
    BY <1>2 DEF RunPostedStep, slotVars
  <2> QED BY <1>1, <2>1, QuietStep
<1>3. CASE RunPostedStep /\ ~ busy
  <2>1. PICK d : d = ListChain(Head(posted).label, Head(posted).pages) /\ chains' = {d}
    BY <1>3, SlotAfter DEF RunPostedStep
  <2>2. d.at = "list" /\ d.kind = "topup" /\ d.ids = {} /\ d.todo = {} /\ d.got = {}
    BY <2>1 DEF ListChain, NewChain
  <2>3. Shape(d)'
    BY <2>2 DEF Shape
  <2> QED BY <1>1, <1>3, <2>1, <2>2, <2>3, FreshChain, NothingPending, QuietStep
<1>4. CASE RunPostedNext
  <2>1. chains' = chains \/ StartTopUp(Head(posted).label)
    BY <1>4 DEF RunPostedNext, slotVars
  <2> QED BY <1>1, <2>1, StartTopUpCache, QuietStep
<1> QED BY <1>2, <1>3, <1>4 DEF RunPosted

LEMMA TopUpRequestCache ==
    ASSUME TypeInv, OneChain, CacheInv, NEW l \in Labels,
           TopUpLabel(l) \/ CacheLabelComplete(l) \/ TickBackgroundCrawl(l)
    PROVE  CacheInv'
<1>1. Quiet /\ bodyGets' = bodyGets
  BY WalkedLess DEF TopUpLabel, CacheLabelComplete, TickBackgroundCrawl, Quiet, dbVars
<1>2. StartTopUp(l)
  BY DEF TopUpLabel, CacheLabelComplete, TickBackgroundCrawl
<1> QED BY <1>1, <1>2, StartTopUpCache, QuietStep

LEMMA WalkRequestCache ==
    ASSUME TypeInv, CacheInv, CancelCacheLabel \/ ResetBackgroundCrawlProgress
    PROVE  CacheInv'
<1>1. /\ exhausted' \subseteq exhausted /\ chains' = chains
      /\ UNCHANGED <<mailVars, rows, rowLabels, historyId, gapVars, pageToken, bodyGets>>
  BY DEF CancelCacheLabel, ResetBackgroundCrawlProgress, dbVars, slotVars
<1>2. Quiet
  BY <1>1, WalkedLess DEF Quiet
<1> QED BY <1>1, <1>2, QuietStep

-----------------------------------------------------------------------------
(* fetchBodyOnDemand.                                                      *)

LEMMA FetchBodyCache ==
    ASSUME TypeInv, CacheInv, NEW m \in Msgs, FetchBodyOnDemand(m)
    PROVE  CacheInv'
<1>1. Quiet /\ chains' = chains
  BY WalkedLess DEF FetchBodyOnDemand, Quiet, dbVars, slotVars
<1>2. BodyInv'
  <2>1. \A b \in bodyGets' : b.answered => b \in bodyGets
    BY DEF FetchBodyOnDemand
  <2>2. hist' = hist /\ UNCHANGED mailVars
    BY <1>1 DEF Quiet, mailVars
  <2> QED BY <2>1, <2>2, LogFixed DEF CacheInv, BodyInv
<1>3. Pending' = Pending
  <2>1. \A c : Outstanding(c)' = Outstanding(c)
    BY <1>1, LogFixed DEF Quiet, Outstanding, Owed
  <2> QED BY <1>1, <2>1 DEF Pending
<1> QED BY <1>1, <1>2, <1>3, DbStays, ChainStays DEF CacheInv

\* Gmail answers with the message as it is now.
LEMMA BodyAnsweredCache ==
    ASSUME TypeInv, CacheInv, NEW b \in bodyGets, BodyAnswered(b)
    PROVE  CacheInv'
<1>1. Quiet /\ chains' = chains /\ UNCHANGED mailVars /\ hist' = hist
  BY WalkedLess DEF BodyAnswered, Quiet, dbVars, slotVars, mailVars
<1>2. BodyInv'
  <2>1. PICK e : e = [b EXCEPT !.answered = TRUE, !.labels = tags[b.msg], !.seen = Len(hist)]
    OBVIOUS
  <2>2. bodyGets' = (bodyGets \ {b}) \cup {e}
    BY <2>1 DEF BodyAnswered
  <2>3. e.msg = b.msg /\ e.labels = tags[b.msg] /\ e.seen = Len(hist) /\ b.msg \in live
    BY <2>1 DEF BodyAnswered, TypeInv, BodyOK, BodyGet
  <2>4. e.seen <= Len(hist) /\ Agrees(e.msg, e.labels, e.seen)
    BY <2>3, AgreesNow, CacheTypes
  <2>5. \A x \in bodyGets' : x.answered => x.seen <= Len(hist) /\ Agrees(x.msg, x.labels, x.seen)
    BY <2>2, <2>4 DEF CacheInv, BodyInv
  <2> QED BY <1>1, <2>5, LogFixed DEF BodyInv
<1>3. Pending' = Pending
  <2>1. \A c : Outstanding(c)' = Outstanding(c)
    BY <1>1, LogFixed DEF Quiet, Outstanding, Owed
  <2> QED BY <1>1, <2>1 DEF Pending
<1> QED BY <1>1, <1>2, <1>3, DbStays, ChainStays DEF CacheInv

LEMMA BodyDroppedCache ==
    ASSUME TypeInv, CacheInv, NEW b \in bodyGets, BodyNotFound(b) \/ BodyFails(b)
    PROVE  CacheInv'
<1>1. Quiet /\ chains' = chains /\ bodyGets' \subseteq bodyGets
  BY WalkedLess DEF BodyNotFound, BodyFails, Quiet, dbVars, slotVars
<1> QED BY <1>1, QuietStep

\* The answer is stored whenever it arrives; unless the history id has passed
\* an event on the message in between, it is as recent as the other rows.
LEMMA StoreBodyCache ==
    ASSUME TypeInv, CacheInv, ~ MidHandler, NEW b \in bodyGets, StoreBody(b)
    PROVE  CacheInv'
<1> DEFINE m == b.msg
<1>1. /\ b.answered /\ m \in Msgs /\ b.seen \in Nat /\ b.seen <= Len(hist)
      /\ Agrees(m, b.labels, b.seen) /\ MailTypeOK /\ rowLabels \in [Msgs -> SUBSET Labels]
      /\ historyId \in Int
  BY CacheTypes DEF TypeInv, BodyOK, BodyGet, DbOK, CacheInv, BodyInv, StoreBody
<1>2. /\ UNCHANGED mailVars /\ UNCHANGED <<live, tags, arrived, hist>>
      /\ UNCHANGED <<historyId, pageToken, exhausted, chains>>
      /\ bodyGets' \subseteq bodyGets
      /\ rows' = rows \cup {m} /\ rowLabels' = [rowLabels EXCEPT ![m] = b.labels]
      /\ staleRows' = IF Late(b) THEN staleRows \cup {m} ELSE staleRows \ {m}
      /\ unfetched' = unfetched \ {m} /\ unseeded' = unseeded \ {m}
  BY DEF StoreBody, slotVars, mailVars
<1>3. ~ Late(b) => Agrees(m, b.labels, historyId)
  <2>1. CASE historyId = NoHistory
    BY <1>1, <2>1, AgreesWeaken DEF NoHistory
  <2>2. CASE historyId # NoHistory
    BY <1>1, <2>2, AgreesAdvance DEF Late
  <2> QED BY <2>1, <2>2
<1>4. rowLabels'[m] = b.labels /\ \A n \in Msgs : n # m => rowLabels'[n] = rowLabels[n]
  BY <1>1, <1>2
<1>5. rows \subseteq Msgs /\ live \subseteq Msgs
  BY CacheTypes
<1> HIDE DEF m
<1>6. Pending' = Pending
  <2>1. \A c : Outstanding(c)' = Outstanding(c)
    BY <1>2, LogFixed DEF Outstanding, Owed
  <2> QED BY <1>2, <2>1 DEF Pending
<1>7. DbInv'
  <2>1. RowsInv'
    <3> SUFFICES ASSUME NEW n \in rows', n \notin staleRows' \cup Pending
                 PROVE  Agrees(n, rowLabels'[n], historyId)
      BY <1>2, <1>6, LogFixed DEF RowsInv
    <3>1. CASE n = m
      BY <1>2, <1>3, <1>4, <3>1
    <3>2. CASE n # m
      BY <1>2, <1>4, <1>5, <3>2 DEF CacheInv, DbInv, RowsInv
    <3> QED BY <3>1, <3>2
  <2>2. CoverInv'
    BY <1>2, <1>6, LogFixed DEF CacheInv, DbInv, CoverInv
  <2>3. WalkInv'
    BY <1>2, <1>6, LogFixed DEF CacheInv, DbInv, WalkInv, News, Walked
  <2> QED BY <1>2, <2>1, <2>2, <2>3, LogFixed DEF CacheInv, DbInv
<1>8. ASSUME NEW c \in chains
      PROVE  ChainInv(c)'
  <2>1. c.at \notin {"apply", "settle"} /\ ChainInv(c)
    BY DEF MidHandler, CacheInv
  <2>2. Shape(c)' /\ ApplyInv(c)'
    BY <1>2, <2>1 DEF ChainInv, Shape, ApplyInv
  <2>3. SnapInv(c)'
    BY <1>2, <2>1, LogFixed DEF ChainInv, SnapInv, Base
  <2>4. FetchInv(c)'
    <3>1. ~ Late(b) /\ m \notin live => Happened("messagesDeleted", m, historyId + 1, Len(hist))
      BY <1>3 DEF Agrees
    <3> QED BY <1>2, <2>1, <3>1, LogFixed DEF ChainInv, FetchInv
  <2>5. SeedInv(c)'
    BY <1>2, <2>1, LogFixed DEF ChainInv, SeedInv
  <2>6. TopUpInv(c)'
    BY <1>2, <2>1, LogFixed DEF ChainInv, TopUpInv, News
  <2> QED BY <2>2, <2>3, <2>4, <2>5, <2>6 DEF ChainInv
<1>9. BodyInv'
  BY <1>2, BodiesStay DEF CacheInv
<1> QED BY <1>2, <1>7, <1>8, <1>9 DEF CacheInv

-----------------------------------------------------------------------------
(* The process dies: what the chain owed is a known gap from now on.       *)

LEMMA CrashCache ==
    ASSUME TypeInv, CacheInv, Crash
    PROVE  CacheInv'
<1>1. /\ UNCHANGED mailVars /\ UNCHANGED <<live, tags, arrived, hist>>
      /\ UNCHANGED <<rows, rowLabels, historyId, pageToken, exhausted, unseeded>>
      /\ chains' = {} /\ bodyGets' = {}
      /\ staleRows' = staleRows \cup (AllOwed \cap rows)
      /\ unfetched' = unfetched \cup (AllOwed \ rows)
  BY DEF Crash, mailVars, dbVars
<1>2. Pending \subseteq AllOwed
  BY PendingIsOwed DEF CacheInv, ChainInv
<1>3. RowsInv'
  BY <1>1, <1>2, LogFixed DEF CacheInv, DbInv, RowsInv
<1>4. CoverInv'
  BY <1>1, <1>2, LogFixed DEF CacheInv, DbInv, CoverInv
<1>5. WalkInv'
  BY <1>1, <1>2, LogFixed DEF CacheInv, DbInv, WalkInv, News, Walked
<1>6. DbInv'
  BY <1>1, <1>3, <1>4, <1>5, LogFixed DEF CacheInv, DbInv
<1> QED BY <1>1, <1>6 DEF CacheInv, BodyInv

-----------------------------------------------------------------------------
(* The incremental sync.                                                   *)

\* The recorded id is thrown away: nothing is promised of the history before
\* the next initial sync, so everything that was right stays right.
LEMMA HistoryTooOldCache ==
    ASSUME TypeInv, OneChain, CacheInv, NEW c \in chains, HistoryTooOld(c)
    PROVE  CacheInv'
<1>1. /\ UNCHANGED mailVars /\ UNCHANGED <<live, tags, arrived, hist>>
      /\ UNCHANGED <<rows, rowLabels, pageToken, exhausted, staleRows, unfetched, unseeded>>
      /\ UNCHANGED bodyGets /\ historyId' = NoHistory /\ c.at = "history"
  BY DEF HistoryTooOld, mailVars, gapVars
<1>2. PICK d : d = NewChain("initial", "profile")
  OBVIOUS
<1>3. chains' = {d} /\ Pending = {}
  BY <1>1, <1>2, OnlyChain, NothingPending DEF HistoryTooOld
<1>4. historyId \in Nat /\ MailTypeOK /\ Len(hist) \in Nat
  BY <1>1, CacheTypes DEF TypeInv, CacheInv, ChainInv, Shape
<1>5. ChainInv(d)' /\ Outstanding(d) = {}
  <2>1. /\ d.at = "profile" /\ d.kind = "initial" /\ d.hid = 0
        /\ d.ids = {} /\ d.todo = {} /\ d.got = {}
    BY <1>2 DEF NewChain
  <2>2. Shape(d)'
    BY <1>1, <1>4, <2>1 DEF Shape
  <2> QED BY <2>1, <2>2, FreshChain
<1>6. Pending' = {}
  <2>1. Outstanding(d)' = {}
    BY <1>2 DEF Outstanding, NewChain
  <2> QED BY <1>3, <2>1 DEF Pending
<1>7. RowsInv'
  <2>1. \A m, T : Agrees(m, T, historyId) => Agrees(m, T, NoHistory)
    BY <1>4, AgreesWeaken DEF NoHistory
  <2> QED BY <1>1, <1>3, <2>1, LogFixed DEF CacheInv, DbInv, RowsInv
<1>8. WalkInv'
  <2>1. \A m, l : News(m, l) => News(m, l)'
    <3>1. /\ \A m : Happened("messagesAdded", m, historyId + 1, Len(hist)) =>
                       Happened("messagesAdded", m, 0 + 1, Len(hist))
          /\ \A m, l : RelabelledIn(m, l, historyId + 1, Len(hist)) =>
                       RelabelledIn(m, l, 0 + 1, Len(hist))
      BY <1>4, WindowWiden
    <3> QED BY <1>1, <1>4, <3>1, LogFixed DEF News, NoHistory
  <2> QED BY <1>1, <1>3, <1>6, <2>1 DEF CacheInv, DbInv, WalkInv, Walked
<1>9. CoverInv'
  BY <1>1 DEF CoverInv
<1>10. DbInv'
  BY <1>1, <1>4, <1>7, <1>8, <1>9, LogFixed DEF CacheInv, DbInv, NoHistory
<1>11. BodyInv'
  BY <1>1, BodiesStay DEF CacheInv
<1> QED BY <1>3, <1>5, <1>10, <1>11 DEF CacheInv

\* The commit of the history id.  A row or a message is on the page, behind
\* it, or untouched since the old id.
LEMMA HistoryReplyCache ==
    ASSUME TypeInv, OneChain, CacheInv, NEW c \in chains, HistoryReply(c)
    PROVE  CacheInv'
<1>1. PICK full, upto, cut :
        /\ full = Len(hist)
        /\ upto = IF full > c.from + HistoryPageSize THEN c.from + HistoryPageSize ELSE full
        /\ cut = {m \in Msgs : TouchedIn(m, upto + 1, full)}
        /\ historyId' = full
        /\ staleRows' = staleRows \cup (cut \cap rows)
        /\ unfetched' = unfetched \cup (cut \ rows)
        /\ Advance(c, [c EXCEPT !.at = "apply", !.upto = upto, !.hid = full])
  BY DEF HistoryReply
<1>2. /\ UNCHANGED mailVars /\ UNCHANGED <<live, tags, arrived, hist>>
      /\ UNCHANGED <<rows, rowLabels, pageToken, exhausted, unseeded, bodyGets>>
      /\ c.at = "history"
  BY DEF HistoryReply, mailVars
<1>3. /\ c \in Chain /\ Shape(c) /\ c.kind = "incremental" /\ c.from = historyId
      /\ historyId \in Nat /\ historyId <= full /\ full \in Nat /\ MailTypeOK
      /\ rows \subseteq Msgs /\ live \subseteq Msgs
  BY <1>1, <1>2, CacheTypes DEF TypeInv, SlotOK, CacheInv, DbInv, ChainInv, Shape
<1>4. upto \in Nat /\ historyId <= upto /\ upto <= full
  BY <1>1, <1>3, SyncAssumption DEF SyncAssumption
<1>5. PICK d : d = [c EXCEPT !.at = "apply", !.upto = upto, !.hid = full]
  OBVIOUS
<1>6. /\ chains' = {d} /\ Pending = {}
      /\ d.at = "apply" /\ d.kind = "incremental" /\ d.from = historyId /\ d.upto = upto
      /\ d.ids = c.ids /\ d.todo = {} /\ d.got = {}
  BY <1>1, <1>2, <1>3, <1>5, SlotAfter, NothingPending DEF Chain, Shape
<1>7. Pending' = {m \in Msgs : TouchedIn(m, historyId + 1, upto)}
  <2>1. Outstanding(d)' = {m \in Msgs : TouchedIn(m, historyId + 1, upto)}
    BY <1>2, <1>6, LogFixed DEF Outstanding, Owed
  <2> QED BY <1>6, <2>1 DEF Pending
<1>8. ASSUME NEW m \in Msgs, m \notin Pending', m \notin cut
      PROVE  /\ ~ TouchedIn(m, historyId + 1, Len(hist))
             /\ \A kind : ~ Happened(kind, m, historyId + 1, Len(hist))
             /\ \A l : ~ RelabelledIn(m, l, historyId + 1, Len(hist))
  <2>1. ~ TouchedIn(m, historyId + 1, upto) /\ ~ TouchedIn(m, upto + 1, Len(hist))
    BY <1>1, <1>7, <1>8
  <2>2. ~ TouchedIn(m, historyId + 1, Len(hist))
    BY <1>3, <1>4, <2>1, WindowSplit
  <2> QED BY <2>2, WindowTouches
<1>9. RowsInv'
  <2> SUFFICES ASSUME NEW m \in rows, m \notin staleRows' \cup Pending'
               PROVE  Agrees(m, rowLabels[m], full)
    BY <1>1, <1>2, LogFixed DEF RowsInv
  <2>1. m \in Msgs /\ m \notin cut /\ m \notin staleRows
    BY <1>1, <1>3
  <2>2. Agrees(m, rowLabels[m], historyId)
    BY <1>6, <2>1 DEF CacheInv, DbInv, RowsInv
  <2>3. ~ TouchedIn(m, historyId + 1, full)
    BY <1>1, <1>8, <2>1
  <2> QED BY <1>3, <2>2, <2>3, AgreesAdvance
<1>10. CoverInv'
  <2> SUFFICES ASSUME NEW m \in live, m \notin rows \cup unfetched' \cup unseeded \cup Pending'
               PROVE  FALSE
    BY <1>2 DEF CoverInv
  <2>1. m \in Msgs /\ m \notin cut /\ m \notin unfetched
    BY <1>1, <1>3
  <2>2. Happened("messagesAdded", m, historyId + 1, Len(hist))
    BY <1>3, <1>6, <2>1 DEF CacheInv, DbInv, CoverInv, NoHistory
  <2> QED BY <1>8, <2>1, <2>2
<1>11. WalkInv'
  <2> SUFFICES ASSUME NEW m \in live, NEW l \in Labels, Walked(m, l),
                      m \notin rows \cup unfetched' \cup Pending'
               PROVE  FALSE
    BY <1>2 DEF WalkInv, Walked
  <2>1. m \in Msgs /\ m \notin cut /\ m \notin unfetched
    BY <1>1, <1>3
  <2>2. News(m, l)
    BY <1>6, <2>1 DEF CacheInv, DbInv, WalkInv
  <2> QED BY <1>3, <1>8, <2>1, <2>2 DEF News, NoHistory
<1>12. ChainInv(d)'
  <2>1. Shape(d)'
    BY <1>1, <1>2, <1>3, <1>4, <1>6 DEF Shape, NoHistory
  <2>2. ApplyInv(d)'
    <3>1. \A m \in rows \ staleRows' : /\ Agrees(m, rowLabels[m], historyId)
                                       /\ ~ TouchedIn(m, upto + 1, full)
      BY <1>1, <1>3, <1>6 DEF CacheInv, DbInv, RowsInv
    <3>2. ASSUME NEW m \in live \ (rows \cup unfetched')
          PROVE  /\ ~ TouchedIn(m, upto + 1, full)
                 /\ m \in unseeded \/ Happened("messagesAdded", m, historyId + 1, Len(hist))
                 /\ \A l \in Labels : Walked(m, l) =>
                       \/ Happened("messagesAdded", m, historyId + 1, Len(hist))
                       \/ RelabelledIn(m, l, historyId + 1, Len(hist))
      <4>1. m \in Msgs /\ m \notin cut /\ m \notin unfetched
        BY <1>1, <1>3
      <4>2. ~ TouchedIn(m, upto + 1, full)
        BY <1>1, <4>1
      <4>3. m \in unseeded \/ Happened("messagesAdded", m, historyId + 1, Len(hist))
        BY <1>3, <1>6, <4>1 DEF CacheInv, DbInv, CoverInv, NoHistory
      <4>4. \A l \in Labels : Walked(m, l) => News(m, l)
        BY <1>6, <4>1 DEF CacheInv, DbInv, WalkInv
      <4> QED BY <1>3, <4>2, <4>3, <4>4 DEF News, NoHistory
    <3> QED BY <1>1, <1>2, <1>6, <3>1, <3>2, LogFixed DEF ApplyInv, Walked
  <2> QED BY <1>6, <2>1, <2>2 DEF ChainInv, SnapInv, FetchInv, SeedInv, TopUpInv
<1>13. DbInv'
  BY <1>1, <1>2, <1>3, <1>9, <1>10, <1>11, LogFixed DEF CacheInv, DbInv
<1>14. BodyInv'
  BY <1>2, BodiesStay DEF CacheInv
<1> QED BY <1>6, <1>12, <1>13, <1>14 DEF CacheInv

\* The label deltas of a page, applied to labels as of its start, give labels
\* as of its end, and nothing of the rest of the log up to the committed id
\* concerns the row.
LEMMA RelabelledIsCurrent ==
    ASSUME TypeInv, CacheInv, NEW c \in chains, c.at = "apply", NEW m \in live, m \in rows,
           m \notin staleRows
    PROVE  Agrees(m, Relabelled(c, m), historyId)
<1>1. /\ c.from \in Int /\ c.upto \in Int /\ historyId \in Int /\ m \in Msgs
      /\ MailTypeOK /\ LogInv
      /\ Agrees(m, rowLabels[m], c.from) /\ ~ TouchedIn(m, c.upto + 1, historyId)
  BY CacheTypes DEF TypeInv, SlotOK, Chain, CacheInv, DbInv, ChainInv, ApplyInv
<1> SUFFICES ASSUME NEW l \in Labels, ~ RelabelledIn(m, l, historyId + 1, Len(hist))
             PROVE  (l \in Relabelled(c, m)) <=> (l \in tags[m])
  BY DEF Agrees
<1>2. ~ RelabelledIn(m, l, c.upto + 1, Len(hist))
  BY <1>1, WindowSplit, WindowTouches
<1>3. CASE RelabelledIn(m, l, c.from + 1, c.upto)
  <2>1. LastAdds(m, l, c.from + 1, c.upto) <=> l \in tags[m]
    BY <1>1, <1>2, <1>3, LastEventTells
  <2> QED BY <1>3, <2>1 DEF Relabelled
<1>4. CASE ~ RelabelledIn(m, l, c.from + 1, c.upto)
  <2>1. ~ LastAdds(m, l, c.from + 1, c.upto)
    BY <1>4 DEF LastAdds, RelabelledIn
  <2>2. ~ RelabelledIn(m, l, c.from + 1, Len(hist))
    BY <1>1, <1>2, <1>4, WindowSplit
  <2>3. (l \in rowLabels[m]) <=> (l \in tags[m])
    BY <1>1, <2>2 DEF Agrees
  <2> QED BY <1>4, <2>1, <2>3 DEF Relabelled
<1> QED BY <1>3, <1>4

LEMMA ApplyPageCache ==
    ASSUME TypeInv, OneChain, CacheInv, NEW c \in chains, ApplyPage(c)
    PROVE  CacheInv'
<1> DEFINE On(kind) == {m \in Msgs : Happened(kind, m, c.from + 1, c.upto)}
<1>1. PICK deleted, kept, added :
        /\ deleted = On("messagesDeleted")
        /\ kept = rows \ deleted
        /\ added = (On("messagesAdded") \cup (On("labelsAdded") \ kept)) \ deleted
        /\ rows' = kept
        /\ rowLabels' = [m \in Msgs |-> IF m \in deleted THEN {}
                                        ELSE IF m \in kept \ added THEN Relabelled(c, m)
                                        ELSE rowLabels[m]]
        /\ IF added = {} THEN Release(c)
           ELSE Advance(c, [c EXCEPT !.at = "fetch", !.ids = added, !.todo = added])
  BY DEF ApplyPage
<1>2. /\ UNCHANGED mailVars /\ UNCHANGED <<live, tags, arrived, hist>>
      /\ UNCHANGED <<historyId, pageToken, exhausted, staleRows, unfetched, unseeded, bodyGets>>
      /\ c.at = "apply"
  BY DEF ApplyPage, mailVars, gapVars
<1>3. /\ c \in Chain /\ Shape(c) /\ ApplyInv(c) /\ c.kind = "incremental" /\ c.got = {}
      /\ c.from \in Nat /\ c.upto \in Nat /\ historyId \in Nat /\ historyId <= Len(hist)
      /\ Len(hist) \in Nat /\ MailTypeOK /\ LogInv /\ rows \subseteq Msgs /\ live \subseteq Msgs
  BY <1>2, CacheTypes DEF TypeInv, SlotOK, Chain, CacheInv, DbInv, ChainInv, Shape
<1>4. \A m \in deleted : m \notin live
  BY <1>1, <1>3 DEF Happened, LogInv
<1>5. /\ \A m \in live : m \notin kept => m \notin rows
      /\ kept \subseteq rows /\ added \subseteq Msgs
      /\ \A m \in live : Happened("messagesAdded", m, c.from + 1, c.upto) => m \in added
      /\ \A m \in live \ kept : Happened("labelsAdded", m, c.from + 1, c.upto) => m \in added
  BY <1>1, <1>3, <1>4
<1>6. \A m \in added : m <= arrived
  BY <1>1, <1>3 DEF Happened, LogInv
<1> HIDE DEF On
<1>7. Pending' = added
  <2>1. CASE added = {}
    <3>1. chains' = {}
      BY <1>1, <2>1, SlotAfter
    <3> QED BY <2>1, <3>1 DEF Pending
  <2>2. CASE added # {}
    <3>1. PICK d : d = [c EXCEPT !.at = "fetch", !.ids = added, !.todo = added]
      OBVIOUS
    <3>2. chains' = {d}
      BY <1>1, <2>2, <3>1, SlotAfter
    <3>3. d.kind = "incremental" /\ d.at = "fetch" /\ d.todo = added /\ d.got = {}
      BY <1>3, <3>1 DEF Chain
    <3> QED BY <3>2, <3>3 DEF Pending, Outstanding
  <2> QED BY <2>1, <2>2
<1>8. \* A dead row the page did not take away died after the commit.
      ASSUME NEW m \in kept, m \notin staleRows, m \notin live
      PROVE  Happened("messagesDeleted", m, historyId + 1, Len(hist))
  <2>1. /\ Agrees(m, rowLabels[m], c.from) /\ ~ TouchedIn(m, c.upto + 1, historyId)
        /\ m \in Msgs /\ m \notin deleted
    BY <1>1, <1>2, <1>3, <1>5, <1>8 DEF ApplyInv
  <2>2. Happened("messagesDeleted", m, c.from + 1, Len(hist))
    BY <1>8, <2>1 DEF Agrees
  <2>3. ~ Happened("messagesDeleted", m, c.from + 1, c.upto)
    BY <1>1, <2>1 DEF On
  <2>4. Happened("messagesDeleted", m, c.upto + 1, Len(hist))
    BY <1>3, <2>2, <2>3, WindowSplit
  <2> QED BY <1>3, <2>1, <2>4, WindowSplit, WindowTouches
<1>9. \* A message without a row that the page does not bring arrived after it.
      ASSUME NEW m \in live, m \notin kept \cup unfetched \cup added,
             Happened("messagesAdded", m, c.from + 1, Len(hist))
      PROVE  Happened("messagesAdded", m, historyId + 1, Len(hist))
  <2>1. ~ TouchedIn(m, c.upto + 1, historyId)
    BY <1>2, <1>3, <1>5, <1>9 DEF ApplyInv
  <2>2. Happened("messagesAdded", m, c.upto + 1, Len(hist))
    BY <1>3, <1>5, <1>9, WindowSplit
  <2> QED BY <1>3, <2>1, <2>2, WindowSplit, WindowTouches
<1>10. RowsInv'
  <2> SUFFICES ASSUME NEW m \in kept, m \notin staleRows \cup added
               PROVE  Agrees(m, rowLabels'[m], historyId)
    BY <1>1, <1>2, <1>7, LogFixed DEF RowsInv
  <2>1. m \in Msgs /\ m \in rows /\ rowLabels'[m] = Relabelled(c, m)
    BY <1>1, <1>3
  <2>2. CASE m \in live
    BY <1>2, <2>1, <2>2, RelabelledIsCurrent
  <2>3. CASE m \notin live
    BY <1>8, <2>3 DEF Agrees
  <2> QED BY <2>2, <2>3
<1>11. CoverInv'
  <2> SUFFICES ASSUME NEW m \in live, m \notin kept \cup unfetched \cup unseeded \cup added
               PROVE  Happened("messagesAdded", m, historyId + 1, Len(hist))
    BY <1>1, <1>2, <1>7, LogFixed DEF CoverInv
  <2>1. Happened("messagesAdded", m, c.from + 1, Len(hist))
    BY <1>2, <1>3, <1>5 DEF ApplyInv
  <2> QED BY <1>9, <2>1
<1>12. WalkInv'
  <2> SUFFICES ASSUME NEW m \in live, NEW l \in Labels, Walked(m, l),
                      m \notin kept \cup unfetched \cup added
               PROVE  News(m, l)
    BY <1>1, <1>2, <1>7, LogFixed DEF WalkInv, Walked, News
  <2>1. /\ \/ Happened("messagesAdded", m, c.from + 1, Len(hist))
           \/ RelabelledIn(m, l, c.from + 1, Len(hist))
        /\ ~ TouchedIn(m, c.upto + 1, historyId)
        /\ m \in Msgs
    BY <1>2, <1>3, <1>5 DEF ApplyInv
  <2>2. CASE Happened("messagesAdded", m, c.from + 1, Len(hist))
    BY <1>3, <1>9, <2>2 DEF News, NoHistory
  <2>3. CASE RelabelledIn(m, l, c.upto + 1, Len(hist))
    <3>1. RelabelledIn(m, l, historyId + 1, Len(hist))
      BY <1>3, <2>1, <2>3, WindowSplit, WindowTouches
    <3> QED BY <1>3, <3>1 DEF News, NoHistory
  <2>4. CASE /\ RelabelledIn(m, l, c.from + 1, c.upto)
             /\ ~ RelabelledIn(m, l, c.upto + 1, Len(hist))
    <3>1. l \in tags[m]
      BY DEF Walked
    <3>2. Happened("labelsAdded", m, c.from + 1, c.upto)
      BY <1>3, <2>1, <2>4, <3>1, LastEventTells
    <3> QED BY <1>5, <3>2
  <2> QED BY <1>3, <2>1, <2>2, <2>3, <2>4, WindowSplit
<1>13. ASSUME NEW d \in chains'
       PROVE  ChainInv(d)'
  <2>1. d = [c EXCEPT !.at = "fetch", !.ids = added, !.todo = added]
    BY <1>1, <1>13, SlotAfter
  <2>2. /\ d.kind = "incremental" /\ d.at = "fetch" /\ d.todo = added /\ d.got = {}
        /\ d.ids = added
    BY <1>3, <2>1 DEF Chain
  <2>3. Shape(d)'
    BY <1>2, <1>3, <1>6, <2>2 DEF Shape, NoHistory
  <2>4. FetchInv(d)'
    BY <1>1, <1>2, <1>8, LogFixed DEF FetchInv
  <2> QED BY <2>2, <2>3, <2>4 DEF ChainInv, SnapInv, ApplyInv, SeedInv, TopUpInv
<1>14. DbInv'
  BY <1>2, <1>3, <1>10, <1>11, <1>12, LogFixed DEF DbInv
<1>15. BodyInv'
  BY <1>2, BodiesStay DEF CacheInv
<1> QED BY <1>13, <1>14, <1>15 DEF CacheInv

-----------------------------------------------------------------------------
(* The initial sync.                                                       *)

\* What the commit of an initial sync vouches for: the rows it stored are as
\* recent as the id it records, and every message it did not list is either
\* newer than that id or written down as a gap.
LEMMA CommitSeedCache ==
    ASSUME TypeInv, LogInv, NEW d, CommitSeed(d),
           UNCHANGED mailVars, UNCHANGED <<rows, rowLabels, pageToken, exhausted>>,
           chains' = {}, d.hid \in Nat, d.hid <= Len(hist),
           \A m \in d.got : Agrees(m, rowLabels[m], d.hid),
           \A m \in d.ids : m \in rows \cup unfetched \/ Gone(m)
    PROVE  DbInv'
<1>1. PICK unlisted :
        /\ unlisted = {m \in live \ (rows \cup d.ids) :
                          ~ Happened("messagesAdded", m, d.hid + 1, Len(hist))}
        /\ historyId' = d.hid
        /\ staleRows' = (staleRows \cup rows) \ d.got
        /\ unseeded' = unlisted
        /\ unfetched' = unfetched \cup {m \in unlisted : \E l \in Labels : Walked(m, l)}
  BY DEF CommitSeed
<1>2. UNCHANGED <<live, tags, arrived, hist>> /\ Pending' = {}
  BY PendingNone DEF mailVars, Pending
<1>3. RowsInv'
  BY <1>1, <1>2, LogFixed DEF RowsInv
<1>4. ASSUME NEW m \in live, m \notin rows \cup unfetched, m \notin unlisted
      PROVE  Happened("messagesAdded", m, d.hid + 1, Len(hist))
  BY <1>1, <1>4 DEF Gone
<1>5. CoverInv'
  BY <1>1, <1>2, <1>4, LogFixed DEF CoverInv
<1>6. WalkInv'
  <2> SUFFICES ASSUME NEW m \in live, NEW l \in Labels, Walked(m, l), m \notin rows \cup unfetched'
               PROVE  Happened("messagesAdded", m, d.hid + 1, Len(hist))
    BY <1>1, <1>2, LogFixed DEF WalkInv, Walked, News, NoHistory
  <2>1. m \notin unlisted /\ m \notin unfetched
    BY <1>1
  <2> QED BY <1>4, <2>1
<1> QED BY <1>1, <1>2, <1>3, <1>5, <1>6, LogFixed DEF DbInv

\* Seed listings only name messages of the mailbox.
LEMMA SeedListedCache ==
    ASSUME TypeInv, OneChain, CacheInv, NEW c \in chains, c.at = "seed", NEW l \in Labels,
           NEW found \in SUBSET live, SeedListed(c, l, found),
           UNCHANGED <<mailVars, rows, rowLabels, pageToken, exhausted, bodyGets>>
    PROVE  CacheInv'
<1>1. PICK d : d = [c EXCEPT !.lists = @ \ {l}, !.ids = @ \cup found]
  OBVIOUS
<1>2. /\ c \in Chain /\ Shape(c) /\ c.kind = "initial" /\ historyId = NoHistory
      /\ c.hid \in Nat /\ c.hid <= Len(hist) /\ c.todo = {} /\ c.got = {}
      /\ Pending = {} /\ LogInv /\ BodyInv
      /\ UNCHANGED mailVars /\ UNCHANGED <<live, tags, arrived, hist>>
  BY NothingPending DEF TypeInv, SlotOK, Chain, CacheInv, DbInv, ChainInv, Shape, mailVars
<1>3. /\ d.at = "seed" /\ d.kind = "initial" /\ d.hid = c.hid /\ d.todo = {} /\ d.got = {}
      /\ d.ids = c.ids \cup found
  BY <1>1, <1>2 DEF Chain
<1>4. \A m \in d.ids : m <= arrived
  BY <1>2, <1>3 DEF Shape, LogInv
<1>5. CASE d.lists # {} /\ Advance(c, d) /\ UNCHANGED <<historyId, gapVars>>
  <2>1. Quiet /\ chains' = {d}
    BY <1>5, SlotAfter, WalkedLess DEF Quiet
  <2>2. Shape(d)'
    BY <1>2, <1>3, <1>4, <1>5 DEF Shape
  <2> QED BY <1>2, <1>3, <2>1, <2>2, FreshChain, QuietStep
<1>6. CASE d.ids = {} /\ CommitSeed(d) /\ Release(c)
  <2>1. chains' = {}
    BY <1>6, SlotAfter
  <2>2. DbInv'
    BY <1>2, <1>3, <1>6, <2>1, CommitSeedCache
  <2> QED BY <1>2, <2>1, <2>2, BodiesStay DEF CacheInv
<1>7. ASSUME NEW S \in SUBSET d.ids,
             Advance(c, [d EXCEPT !.at = "fetch", !.ids = S, !.todo = S]),
             UNCHANGED <<historyId, gapVars>>
      PROVE  CacheInv'
  <2>1. PICK e : e = [d EXCEPT !.at = "fetch", !.ids = S, !.todo = S]
    OBVIOUS
  <2>2. Quiet /\ chains' = {e}
    BY <1>7, <2>1, SlotAfter, WalkedLess DEF Quiet
  <2>3. /\ e.at = "fetch" /\ e.kind = "initial" /\ e.hid = c.hid
        /\ e.ids = S /\ e.todo = S /\ e.got = {}
    BY <1>1, <1>2, <1>3, <2>1 DEF Chain
  <2>4. Shape(e)'
    BY <1>2, <1>4, <1>7, <2>3 DEF Shape
  <2>5. ChainInv(e)'
    BY <2>3, <2>4 DEF ChainInv, SnapInv, ApplyInv, FetchInv, SeedInv, TopUpInv
  <2> QED BY <1>2, <2>2, <2>5, QuietStep
<1> QED BY <1>1, <1>5, <1>6, <1>7 DEF SeedListed

LEMMA SeedPageCache ==
    ASSUME TypeInv, OneChain, CacheInv, NEW c \in chains, NEW l \in Labels,
           SeedPageReply(c, l) \/ SeedPageFails(c, l)
    PROVE  CacheInv'
<1>1. /\ c.at = "seed"
      /\ UNCHANGED <<mailVars, rows, rowLabels, pageToken, exhausted, bodyGets>>
  BY DEF SeedPageReply, SeedPageFails
<1>2. FirstPage(Listing(l, Newest), InitialPerLabelCap) \in SUBSET live
  <2>1. Listing(l, Newest) \subseteq live
    BY DEF Listing
  <2> QED BY <2>1, Zenon DEF FirstPage
<1> QED BY <1>1, <1>2, SeedListedCache DEF SeedPageReply, SeedPageFails

-----------------------------------------------------------------------------
(* fetchAndStoreMessages.                                                  *)

\* One answer: the id is stored, was not found, or becomes a gap.
LEMMA AnsweredCache ==
    ASSUME TypeInv, OneChain, CacheInv, NEW c \in chains, c.at = "fetch",
           NEW m \in c.todo, NEW d, NEW gap \in SUBSET {m}, Answered(c, d, gap),
           d.at = "fetch", d.kind = c.kind, d.hid = c.hid, d.ids = c.ids, d.label = c.label,
           d.next = c.next, d.last = c.last, d \in Chain,
           d.todo = c.todo \ {m}, d.got = c.got \/ d.got = c.got \cup {m},
           m \in d.got \/ m \in gap \/ m \notin live,
           \A n \in d.got : Agrees(n, d.snap[n], Base(c)),
           UNCHANGED <<mailVars, historyId, pageToken, exhausted, bodyGets>>
    PROVE  CacheInv'
<1>1. /\ Shape(c) /\ FetchInv(c) /\ SeedInv(c) /\ TopUpInv(c) /\ DbInv /\ BodyInv
      /\ UNCHANGED mailVars /\ UNCHANGED <<live, tags, arrived, hist>>
      /\ rows \subseteq Msgs /\ live \subseteq Msgs /\ c.ids \subseteq Msgs /\ MailTypeOK
      /\ historyId \in Int /\ (historyId # NoHistory => historyId \in Nat) /\ c.hid \in Nat
  BY CacheTypes DEF TypeInv, SlotOK, Chain, CacheInv, ChainInv, mailVars
<1>2. m \in c.ids /\ (m \notin live => Gone(m))
  BY <1>1 DEF Shape, Gone
<1>3. chains = {c} /\ Pending = IF c.kind = "incremental" THEN c.todo \cup c.got ELSE {}
  BY OnlyChain, PendingOf DEF Outstanding
<1>4. /\ \A n \in rows : n # m /\ n \notin staleRows \cup d.todo \cup d.got
                            => n \notin staleRows \cup Pending
      /\ \A n \in Pending : n = m \/ n \in d.todo \cup d.got
  BY <1>3
<1>5. \* A row that is no longer waited for, because its message is gone.
      ASSUME m \in rows, m \notin staleRows, m \notin d.got, m \notin gap, m \in Pending
      PROVE  Agrees(m, rowLabels[m], historyId)
  BY <1>1, <1>3, <1>5 DEF FetchInv, Agrees
<1>6. CASE d.todo # {}
  <2>1. /\ chains' = {d} /\ UNCHANGED <<rows, rowLabels, unseeded>>
        /\ staleRows' = staleRows \cup (gap \cap rows)
        /\ unfetched' = unfetched \cup (gap \ rows)
    BY <1>6, SlotAfter DEF Answered
  <2>2. Pending' = IF c.kind = "incremental" THEN d.todo \cup d.got ELSE {}
    BY <2>1 DEF Pending, Outstanding
  <2>3. RowsInv'
    <3> SUFFICES ASSUME NEW n \in rows, n \notin staleRows' \cup Pending'
                 PROVE  Agrees(n, rowLabels[n], historyId)
      BY <2>1, LogFixed DEF RowsInv
    <3>1. CASE n \in Pending
      <4>1. n = m /\ m \notin d.got /\ m \notin gap
        BY <1>3, <1>4, <2>1, <2>2, <3>1
      <4> QED BY <1>5, <2>1, <3>1, <4>1
    <3>2. CASE n \notin Pending
      BY <1>1, <2>1, <3>2 DEF DbInv, RowsInv
    <3> QED BY <3>1, <3>2
  <2>4. \A n \in live : n \notin rows \cup unfetched' \cup Pending' => n \notin rows \cup unfetched \cup Pending
    BY <1>3, <1>4, <2>1, <2>2
  <2>5. CoverInv' /\ WalkInv'
    <3>1. CoverInv'
      BY <1>1, <2>1, <2>4, LogFixed DEF DbInv, CoverInv
    <3>2. WalkInv'
      BY <1>1, <2>1, <2>4, LogFixed DEF DbInv, WalkInv, Walked, News
    <3> QED BY <3>1, <3>2
  <2>6. Shape(d)' /\ SnapInv(d)'
    <3>1. Shape(d)'
      BY <1>1, <1>2, <2>1 DEF Shape
    <3>2. SnapInv(d)'
      BY <2>1, LogFixed DEF SnapInv, Base
    <3> QED BY <3>1, <3>2
  <2>7. FetchInv(d)'
    BY <1>1, <2>1, LogFixed DEF FetchInv
  <2>8. SeedInv(d)'
    BY <1>1, <1>2, <2>1, LogFixed DEF SeedInv
  <2>9. TopUpInv(d)'
    BY <1>1, <2>1, LogFixed DEF TopUpInv, News
  <2>10. ChainInv(d)'
    BY <2>6, <2>7, <2>8, <2>9 DEF ChainInv, ApplyInv
  <2>11. DbInv' /\ BodyInv'
    BY <1>1, <2>3, <2>5, LogFixed, BodiesStay DEF DbInv
  <2> QED BY <2>1, <2>10, <2>11 DEF CacheInv
<1>7. CASE d.todo = {}
  <2>1. PICK e : e = [d EXCEPT !.at = "settle"]
    OBVIOUS
  <2>2. /\ chains' = {e} /\ rows' = rows \cup d.got
        /\ rowLabels' = [n \in Msgs |-> IF n \in d.got THEN d.snap[n] ELSE rowLabels[n]]
        /\ staleRows' = (staleRows \cup (gap \cap rows)) \ d.got
        /\ unfetched' = (unfetched \cup (gap \ rows)) \ d.got
        /\ unseeded' = unseeded \ d.got
    BY <1>7, <2>1, SlotAfter DEF Answered
  <2>3. /\ e.at = "settle" /\ e.kind = c.kind /\ e.hid = c.hid /\ e.ids = c.ids
        /\ e.label = c.label /\ e.next = c.next /\ e.last = c.last
        /\ e.todo = {} /\ e.got = d.got /\ e.snap = d.snap
    BY <1>7, <2>1 DEF Chain
  <2>4. Pending' = {}
    BY <2>2, <2>3 DEF Pending, Outstanding
  <2>5. c.todo = {m} /\ d.got \subseteq Msgs
    BY <1>7 DEF Chain
  <2>6. RowsInv'
    <3> SUFFICES ASSUME NEW n \in rows', n \notin staleRows'
                 PROVE  Agrees(n, rowLabels'[n], historyId)
      BY <2>4, LogFixed DEF RowsInv
    <3>1. CASE n \in d.got
      <4>1. rowLabels'[n] = d.snap[n] /\ Agrees(n, d.snap[n], Base(c))
        BY <2>2, <2>5, <3>1
      <4>2. Base(c) \in Int /\ historyId <= Base(c)
        BY <1>1 DEF Base, Shape, NoHistory
      <4> QED BY <1>1, <4>1, <4>2, AgreesWeaken
    <3>2. CASE n \notin d.got
      <4>1. n \in rows /\ n \notin staleRows /\ n \notin gap /\ rowLabels'[n] = rowLabels[n]
        BY <1>1, <2>2, <3>2
      <4>2. CASE n \in Pending
        BY <1>3, <1>5, <2>5, <3>2, <4>1, <4>2
      <4>3. CASE n \notin Pending
        BY <1>1, <4>1, <4>3 DEF DbInv, RowsInv
      <4> QED BY <4>2, <4>3
    <3> QED BY <3>1, <3>2
  <2>7. \A n \in live : n \notin rows' \cup unfetched' =>
            n \notin rows \cup unfetched \cup Pending /\ n \notin d.got /\ n # m
    BY <1>3, <2>2, <2>5
  <2>8. CoverInv'
    BY <1>1, <2>2, <2>4, <2>7, LogFixed DEF DbInv, CoverInv
  <2>9. WalkInv'
    BY <1>1, <2>2, <2>4, <2>7, LogFixed DEF DbInv, WalkInv, Walked, News
  <2>10. Shape(e)'
    <3>1. \A n \in d.got : rowLabels'[n] = e.snap[n]
      BY <2>2, <2>3, <2>5
    <3> QED BY <1>1, <1>2, <2>2, <2>3, <3>1 DEF Shape
  <2>11. SnapInv(e)'
    BY <2>3, LogFixed DEF SnapInv, Base
  <2>12. SeedInv(e)'
    BY <1>1, <1>2, <2>2, <2>3, <2>5, LogFixed DEF SeedInv
  <2>13. TopUpInv(e)'
    BY <1>1, <2>2, <2>3, <2>5, <2>7, LogFixed DEF TopUpInv, News
  <2>14. ChainInv(e)'
    BY <2>3, <2>10, <2>11, <2>12, <2>13 DEF ChainInv, ApplyInv, FetchInv
  <2>15. DbInv' /\ BodyInv'
    BY <1>1, <2>6, <2>8, <2>9, LogFixed, BodiesStay DEF DbInv
  <2> QED BY <2>2, <2>14, <2>15 DEF CacheInv
<1> QED BY <1>6, <1>7

LEMMA GetCache ==
    ASSUME TypeInv, OneChain, CacheInv, NEW c \in chains, NEW m \in Msgs,
           GetReply(c, m) \/ GetNotFound(c, m) \/ GetFails(c, m)
    PROVE  CacheInv'
<1>1. /\ c.at = "fetch" /\ m \in c.todo /\ c \in Chain /\ SnapInv(c)
      /\ UNCHANGED <<mailVars, historyId, pageToken, exhausted, bodyGets>>
  BY DEF GetReply, GetNotFound, GetFails, TypeInv, SlotOK, CacheInv, ChainInv
<1>2. CASE GetReply(c, m)
  <2>1. PICK d : d = [c EXCEPT !.todo = @ \ {m}, !.got = @ \cup {m},
                               !.snap = [@ EXCEPT ![m] = tags[m]]]
    OBVIOUS
  <2>2. Answered(c, d, {}) /\ m \in live
    BY <1>2, <2>1 DEF GetReply
  <2>3. /\ d.at = "fetch" /\ d.kind = c.kind /\ d.hid = c.hid /\ d.ids = c.ids
        /\ d.label = c.label /\ d.next = c.next /\ d.last = c.last
        /\ d.todo = c.todo \ {m} /\ d.got = c.got \cup {m}
        /\ d.snap = [c.snap EXCEPT ![m] = tags[m]] /\ c.snap \in [Msgs -> SUBSET Labels]
    BY <1>1, <2>1 DEF Chain
  <2>4. d \in Chain
    <3>1. tags[m] \in SUBSET Labels
      BY DEF TypeInv, MailTypeOK
    <3> QED BY <1>1, <2>1, <3>1 DEF Chain
  <2>5. \A n \in d.got : Agrees(n, d.snap[n], Base(c))
    <3>1. d.snap[m] = tags[m] /\ \A n \in Msgs : n # m => d.snap[n] = c.snap[n]
      BY <2>3
    <3>2. c.got \subseteq Msgs
      BY <1>1 DEF Chain
    <3> QED BY <1>1, <2>2, <2>3, <3>1, <3>2, AgreesNow DEF SnapInv
  <2> QED BY <1>1, <2>2, <2>3, <2>4, <2>5, AnsweredCache
<1>3. CASE GetNotFound(c, m) \/ GetFails(c, m)
  <2>1. PICK d : d = [c EXCEPT !.todo = @ \ {m}]
    OBVIOUS
  <2>2. PICK gap \in SUBSET {m} : Answered(c, d, gap) /\ (m \in gap \/ m \notin live)
    BY <1>3, <2>1 DEF GetNotFound, GetFails
  <2>3. /\ d.at = "fetch" /\ d.kind = c.kind /\ d.hid = c.hid /\ d.ids = c.ids
        /\ d.label = c.label /\ d.next = c.next /\ d.last = c.last
        /\ d.todo = c.todo \ {m} /\ d.got = c.got /\ d.snap = c.snap
    BY <1>1, <2>1 DEF Chain
  <2>4. d \in Chain
    BY <1>1, <2>1 DEF Chain
  <2>5. \A n \in d.got : Agrees(n, d.snap[n], Base(c))
    BY <1>1, <2>3 DEF SnapInv
  <2> QED BY <1>1, <2>2, <2>3, <2>4, <2>5, AnsweredCache
<1> QED BY <1>2, <1>3

-----------------------------------------------------------------------------
(* The cursor of a label moves past one more page.                         *)

\* Whether or not the walk is over, what it has gone past afterwards is what it
\* had gone past before and what `covers' names.
LEMMA WalkedMore ==
    ASSUME TypeInv, NEW l \in Labels, NEW next \in Tokens, NEW last \in BOOLEAN,
           UNCHANGED mailVars, pageToken' = [pageToken EXCEPT ![l] = next],
           exhausted' = exhausted \/ (last /\ exhausted' = exhausted \cup {l})
    PROVE  \A m \in Msgs, k \in Labels : Walked(m, k)' =>
              \/ Walked(m, k)
              \/ k = l /\ l \in tags[m] /\ (last \/ (next # Newest /\ m >= next))
<1>1. tags' = tags /\ pageToken \in [Labels -> Tokens]
  BY DEF mailVars, TypeInv, DbOK
<1>2. pageToken'[l] = next /\ \A k \in Labels : k # l => pageToken'[k] = pageToken[k]
  BY <1>1
<1> QED BY <1>1, <1>2 DEF Walked

\* The bodies of the page are stored; then the cursor moves, or the initial
\* sync commits, or the incremental sync is over.
LEMMA SettleCache ==
    ASSUME TypeInv, OneChain, CacheInv, NEW c \in chains, Settle(c)
    PROVE  CacheInv'
<1>1. /\ c.at = "settle" /\ c \in Chain /\ Shape(c) /\ SnapInv(c) /\ SeedInv(c) /\ TopUpInv(c)
      /\ UNCHANGED mailVars /\ UNCHANGED <<rows, rowLabels, bodyGets>>
      /\ LogInv /\ BodyInv /\ DbInv /\ c.hid \in Nat /\ live \subseteq Msgs
      /\ c.next \in Tokens /\ c.last \in BOOLEAN
  BY CacheTypes DEF Settle, TypeInv, SlotOK, Chain, CacheInv, ChainInv, DbInv
<1>2. chains' = {} /\ Pending = {}
  BY <1>1, SlotAfter, NothingPending DEF Settle
<1>3. DbInv'
  <2>1. CASE /\ c.kind = "initial" /\ CommitSeed(c)
             /\ UNCHANGED <<pageToken, exhausted>>
    <3>1. \A m \in c.got : Agrees(m, rowLabels[m], c.hid)
      BY <1>1, <2>1 DEF SnapInv, Shape, Base
    <3>2. \A m \in c.ids : m \in rows \cup unfetched \/ Gone(m)
      BY <1>1, <2>1 DEF SeedInv, Shape
    <3> QED BY <1>1, <1>2, <2>1, <3>1, <3>2, CommitSeedCache DEF Shape
  <2>2. CASE UNCHANGED <<historyId, pageToken, exhausted, gapVars>>
    BY <1>1, <1>2, <2>2, DbStays, WalkedLess DEF Quiet
  <2>3. CASE /\ c.kind = "topup" /\ UNCHANGED <<historyId, gapVars>>
             /\ pageToken' = [pageToken EXCEPT ![c.label] = c.next]
             /\ EmitTopUpFinished(c.label, c.last, posted)
    <3>1. c.label \in Labels
      BY <2>3 DEF TypeInv, SlotOK, Labelled
    <3>2. exhausted' = exhausted \/ (c.last /\ exhausted' = exhausted \cup {c.label})
      BY <2>3 DEF EmitTopUpFinished
    <3>3. UNCHANGED <<live, tags, hist, historyId, staleRows, unfetched, unseeded>> /\ Pending' = {}
      BY <1>1, <1>2, <2>3 DEF mailVars, gapVars, Pending
    <3>4. RowsInv' /\ CoverInv'
      BY <1>1, <1>2, <3>3, LogFixed DEF DbInv, RowsInv, CoverInv
    <3>5. WalkInv'
      <4> SUFFICES ASSUME NEW m \in live, NEW l \in Labels, Walked(m, l)',
                          m \notin rows \cup unfetched
                   PROVE  News(m, l)
        BY <1>1, <3>3, LogFixed DEF WalkInv, News
      <4>1. CASE Walked(m, l)
        BY <1>1, <1>2, <4>1 DEF DbInv, WalkInv
      <4>2. CASE ~ Walked(m, l)
        <5>1. /\ l = c.label /\ c.label \in tags[m]
              /\ c.last \/ (c.next # Newest /\ m >= c.next)
          BY <1>1, <2>3, <3>1, <3>2, <4>2, WalkedMore
        <5>2. m \notin c.todo \cup c.got
          BY <1>1 DEF Shape
        <5> QED BY <1>1, <2>3, <5>1, <5>2 DEF TopUpInv
      <4> QED BY <4>1, <4>2
    <3> QED BY <1>1, <3>3, <3>4, <3>5, LogFixed DEF DbInv
  <2> QED BY <2>1, <2>2, <2>3 DEF Settle
<1> QED BY <1>1, <1>2, <1>3, BodiesStay DEF CacheInv

\* A page that is cached already moves the cursor at once; the others wait for
\* their bodies.
LEMMA ListReplyCache ==
    ASSUME TypeInv, OneChain, CacheInv, NEW c \in chains, ListReply(c)
    PROVE  CacheInv'
<1>1. PICK l, S, P, next, missing, last :
        /\ l = c.label /\ S = Listing(l, pageToken[l]) /\ P = FirstPage(S, PageSize)
        /\ next = NextToken(S, P) /\ missing = P \ rows
        /\ last \in BOOLEAN /\ (last <=> P = S)
        /\ \/ /\ missing = {} /\ pageToken' = [pageToken EXCEPT ![l] = next] /\ Release(c)
              /\ exhausted' = exhausted \/ (last /\ exhausted' = exhausted \cup {l})
           \/ /\ missing # {}
              /\ \E d : /\ Advance(c, d)
                        /\ d.at = "fetch" /\ d.kind = c.kind /\ d.ids = missing
                        /\ d.todo = missing /\ d.got = c.got /\ d.label = l
                        /\ d.next = next /\ (d.last <=> last)
              /\ UNCHANGED <<pageToken, exhausted>>
  <2> DEFINE l       == c.label
             S       == Listing(l, pageToken[l])
             P       == FirstPage(S, PageSize)
             next    == NextToken(S, P)
             missing == P \ rows
             d       == [c EXCEPT !.at = "fetch", !.ids = missing, !.todo = missing,
                                  !.next = next, !.last = (P = S)]
  <2>1. PICK last \in BOOLEAN : last <=> P = S
    OBVIOUS
  <2>2. \/ /\ missing = {} /\ pageToken' = [pageToken EXCEPT ![l] = next] /\ Release(c)
           /\ exhausted' = exhausted \/ (P = S /\ exhausted' = exhausted \cup {l})
        \/ /\ missing # {}
           /\ Advance(c, d)
           /\ UNCHANGED <<pageToken, exhausted>>
    BY DEF ListReply, EmitTopUpFinished
  <2>3. /\ d.at = "fetch" /\ d.kind = c.kind /\ d.ids = missing
        /\ d.todo = missing /\ d.got = c.got /\ d.label = l
        /\ d.next = next /\ (d.last <=> P = S)
    BY DEF TypeInv, SlotOK, Chain
  <2>4. /\ l = c.label /\ S = Listing(l, pageToken[l]) /\ P = FirstPage(S, PageSize)
        /\ next = NextToken(S, P) /\ missing = P \ rows
    OBVIOUS
  <2> HIDE DEF l, S, P, next, missing, d
  <2> QED BY <2>1, <2>2, <2>3, <2>4
<1>2. /\ c.at = "list" /\ c \in Chain /\ Shape(c) /\ l \in Labels /\ pageToken[l] \in Tokens
      /\ UNCHANGED mailVars /\ UNCHANGED <<live, tags, arrived, hist>>
      /\ UNCHANGED <<rows, rowLabels, historyId, bodyGets, gapVars>>
      /\ DbInv /\ BodyInv /\ MailTypeOK /\ live \subseteq Msgs
      /\ PageSize \in Nat \ {0}
  BY <1>1, CacheTypes, SyncAssumption
     DEF SyncAssumption, ListReply, TypeInv, SlotOK, Labelled, DbOK, CacheInv, ChainInv, mailVars
<1>3. S \subseteq live /\ P \subseteq S
  <2>1. S \subseteq live
    BY <1>1 DEF Listing
  <2> QED BY <1>1, <2>1, Zenon DEF FirstPage
<1>4. next \in Tokens
  BY <1>1, <1>2, <1>3, NextTokenType
<1>5. Pending = {}
  BY <1>2, NothingPending
<1>6. ASSUME NEW m \in live, l \in tags[m], last \/ (next # Newest /\ m >= next)
      PROVE  m \in P \/ Walked(m, l)
  <2>1. m \in FirstPage(Listing(l, pageToken[l]), PageSize) \/ (pageToken[l] # Newest /\ m >= pageToken[l])
    <3>1. P = S \/ (next # Newest /\ m >= next)
      BY <1>1, <1>6
    <3> QED BY <1>1, <1>2, <1>6, <3>1, PageCovers
  <2> QED BY <1>1, <1>6, <2>1 DEF Walked
<1>7. CASE missing = {}
  <2>1. chains' = {} /\ pageToken' = [pageToken EXCEPT ![l] = next]
    BY <1>1, <1>7, SlotAfter
  <2>2. exhausted' = exhausted \/ (last /\ exhausted' = exhausted \cup {l})
    BY <1>1, <1>7
  <2>3. UNCHANGED <<staleRows, unfetched, unseeded>> /\ Pending' = {}
    BY <1>2, <2>1 DEF gapVars, Pending
  <2>4. RowsInv' /\ CoverInv'
    BY <1>2, <1>5, <2>3, LogFixed DEF DbInv, RowsInv, CoverInv
  <2>5. WalkInv'
    <3> SUFFICES ASSUME NEW m \in live, NEW k \in Labels, Walked(m, k)',
                        m \notin rows \cup unfetched
                 PROVE  News(m, k)
      BY <1>2, <2>3, LogFixed DEF WalkInv, News
    <3>1. Walked(m, k)
      <4>1. ~ Walked(m, k) => k = l /\ l \in tags[m] /\ (last \/ (next # Newest /\ m >= next))
        BY <1>2, <1>4, <2>1, <2>2, WalkedMore
      <4>2. m \notin P
        BY <1>1, <1>7
      <4> QED BY <1>6, <4>1, <4>2
    <3> QED BY <1>2, <1>5, <3>1 DEF DbInv, WalkInv
  <2>6. DbInv'
    BY <1>2, <2>4, <2>5, LogFixed DEF DbInv
  <2> QED BY <1>2, <2>1, <2>6, BodiesStay DEF CacheInv
<1>8. CASE missing # {}
  <2>1. PICK d : /\ Advance(c, d) /\ UNCHANGED <<pageToken, exhausted>>
                 /\ d.at = "fetch" /\ d.kind = c.kind /\ d.ids = missing
                 /\ d.todo = missing /\ d.got = c.got /\ d.label = l
                 /\ d.next = next /\ (d.last <=> last)
    BY <1>1, <1>8
  <2>2. chains' = {d} /\ Quiet
    BY <1>1, <1>2, <2>1, SlotAfter, WalkedLess DEF Quiet
  <2>3. d.kind = "topup" /\ d.got = {}
    BY <1>2, <2>1 DEF Shape
  <2>4. Shape(d)'
    BY <1>1, <1>2, <1>3, <2>1, <2>3 DEF Shape, DbInv, LogInv
  <2>5. TopUpInv(d)'
    <3> SUFFICES ASSUME NEW m \in live, m \notin rows \cup unfetched \cup missing,
                        l \in tags[m], last \/ (next # Newest /\ m >= next)
                 PROVE  News(m, l)
      BY <1>2, <2>1, <2>3, LogFixed DEF TopUpInv, News, gapVars
    <3>1. Walked(m, l)
      BY <1>1, <1>6
    <3> QED BY <1>2, <1>5, <3>1 DEF DbInv, WalkInv
  <2>6. ChainInv(d)'
    BY <2>1, <2>3, <2>4, <2>5 DEF ChainInv, SnapInv, ApplyInv, FetchInv, SeedInv
  <2> QED BY <1>2, <1>5, <2>2, <2>6, QuietStep
<1> QED BY <1>7, <1>8

-----------------------------------------------------------------------------
(* The invariant.                                                          *)

LEMMA CacheInit == Init => CacheInv
<1> SUFFICES ASSUME Init
             PROVE  CacheInv
  OBVIOUS
<1>1. /\ rows = {} /\ historyId = NoHistory /\ chains = {} /\ bodyGets = {}
      /\ exhausted = {} /\ \A l \in Labels : pageToken[l] = Newest
  BY DEF Init
<1>2. LogInv /\ historyId <= Len(hist)
  BY <1>1, LogInvInit DEF Init, MailInit, NoHistory
<1>3. RowsInv /\ CoverInv
  BY <1>1 DEF RowsInv, CoverInv
<1>4. WalkInv
  BY <1>1 DEF WalkInv, Walked
<1> QED BY <1>1, <1>2, <1>3, <1>4 DEF CacheInv, DbInv, BodyInv

LEMMA HandlerCache ==
    ASSUME TypeInv, OneChain, CacheInv, ~ MidHandler, Handler
    PROVE  CacheInv'
<1>1. CASE RunOnce \/ RunPosted
  BY <1>1, RunOnceCache, RunPostedCache
<1>2. CASE User
  BY <1>2, TopUpRequestCache, WalkRequestCache, FetchBodyCache DEF User
<1>3. ASSUME NEW c \in chains, Answer(c)
      PROVE  CacheInv'
  <2>1. CASE ProfileReply(c) \/ LabelsReply(c) \/ HistoryTooOld(c) \/ HistoryReply(c)
    BY <2>1, ProfileReplyCache, HistoryTooOldCache, HistoryReplyCache
  <2>2. CASE ListReply(c) \/ ListFails(c) \/ SyncRequestFails(c)
    BY <2>2, ListReplyCache, ListFailsCache, SyncRequestFailsCache
  <2>3. CASE \E l \in Labels : SeedPageReply(c, l) \/ SeedPageFails(c, l)
    BY <2>3, SeedPageCache
  <2>4. CASE \E m \in Msgs : GetReply(c, m) \/ GetNotFound(c, m) \/ GetFails(c, m)
    BY <2>4, GetCache
  <2> QED BY <1>3, <2>1, <2>2, <2>3, <2>4 DEF Answer
<1>4. CASE \E l \in Labels : TickBackgroundCrawl(l)
  BY <1>4, TopUpRequestCache
<1>5. CASE \E b \in bodyGets : Body(b)
  BY <1>5, BodyDroppedCache, StoreBodyCache DEF Body
<1> QED BY <1>1, <1>2, <1>3, <1>4, <1>5 DEF Handler

LEMMA CacheStep == TypeInv /\ OneChain /\ CacheInv /\ [Next]_vars => CacheInv'
<1> SUFFICES ASSUME TypeInv, OneChain, CacheInv, [Next]_vars
             PROVE  CacheInv'
  OBVIOUS
<1>1. CASE UNCHANGED vars
  <2>1. Quiet /\ bodyGets' = bodyGets /\ chains' = chains
    BY <1>1, WalkedLess DEF vars, Quiet, dbVars, slotVars
  <2> QED BY <2>1, QuietStep
<1>2. CASE Mailbox
  BY <1>2, MailboxCache
<1>3. CASE \E b \in bodyGets : BodyAnswered(b)
  BY <1>3, BodyAnsweredCache
<1>4. CASE ~ MidHandler /\ Handler
  BY <1>4, HandlerCache
<1>5. CASE \E c \in chains : Finish(c)
  BY <1>5, ApplyPageCache, SettleCache DEF Finish
<1>6. CASE Crash
  BY <1>6, CrashCache
<1> QED BY <1>1, <1>2, <1>3, <1>4, <1>5, <1>6 DEF Next

\* Whatever label set the program holds is the mailbox's, up to what the log
\* tells after the position it was read at; and no message is lost between the
\* places that are to bring it.
THEOREM CacheInvAlways == Spec => []CacheInv
BY CacheInit, CacheStep, TypeInvAlways, OneChainAlways, PTL DEF Spec

\* A row of the cache carries the labels of its message, and no row outlives
\* its message, up to what a later incremental sync will be told of.
THEOREM CachedRowsCurrentAlways == Spec => []CachedRowsCurrent
<1>1. TypeInv /\ CacheInv => CachedRowsCurrent
  <2> SUFFICES ASSUME TypeInv, CacheInv, NEW m \in rows \ (staleRows \cup AllOwed)
               PROVE  RowIsCurrent(m)
    BY DEF CachedRowsCurrent
  <2>1. m \notin Pending
    BY PendingIsOwed DEF CacheInv, ChainInv
  <2>2. Agrees(m, rowLabels[m], historyId)
    BY <2>1 DEF CacheInv, DbInv, RowsInv
  <2> QED BY <2>2 DEF Agrees, RowIsCurrent
<1> QED BY <1>1, CacheInvAlways, TypeInvAlways, PTL

\* Once the recorded history id has passed the arrival of a message, the
\* message is cached, being fetched, or in a known gap.
THEOREM NoSilentGapAlways == Spec => []NoSilentGap
<1>1. CacheInv => NoSilentGap
  BY PendingIsOwed DEF CacheInv, ChainInv, DbInv, CoverInv, NoSilentGap
<1> QED BY <1>1, CacheInvAlways, PTL

\* What the cursor of a label has gone past, and a label marked exhausted, is
\* cached.
THEOREM WalkedIsCachedAlways == Spec => []WalkedIsCached
<1>1. CacheInv => WalkedIsCached
  BY PendingIsOwed DEF CacheInv, ChainInv, DbInv, WalkInv, WalkedIsCached
<1> QED BY <1>1, CacheInvAlways, PTL

-----------------------------------------------------------------------------
(* The walk of cacheLabelComplete.                                         *)

\* The end of the walk of l, reported by topUpFinished.
WalkEnds(l) == walkTarget = l /\ walkTarget' # l /\ ~ walkCancel

LEMMA EmitEnds ==
    ASSUME NEW l, NEW k, NEW last \in BOOLEAN, NEW queue,
           EmitTopUpFinished(k, last, queue), WalkEnds(l)
    PROVE  k = l /\ last
BY DEF EmitTopUpFinished, WalkEnds

\* Only the last page of the label ends its walk with success.
LEMMA WalkEndsAtLastPage ==
    ASSUME TypeInv, [Next]_vars, NEW l \in Labels, WalkEnds(l), crashes' = crashes
    PROVE  \E c \in chains :
              \/ Settle(c) /\ c.kind = "topup" /\ c.label = l /\ c.last
              \/ /\ ListReply(c) /\ c.label = l
                 /\ LET S == Listing(l, pageToken[l])
                        P == FirstPage(S, PageSize)
                    IN  P = S /\ P \subseteq rows
<1>1. walkTarget' # walkTarget /\ l # NoLabel
  BY GmailAssumption DEF GmailAssumption, WalkEnds, NoLabel
<1>2. ~ UNCHANGED vars /\ ~ Mailbox /\ ~ (\E b \in bodyGets : BodyAnswered(b))
  BY <1>1 DEF vars, Mailbox, BodyAnswered, walkVars
<1>3. ~ Crash
  BY DEF Crash, TypeInv, BoundOK
<1>4. CASE Handler
  <2>1. ~ RunOnce /\ ~ (\E b \in bodyGets : Body(b)) /\ ~ (\E k \in Labels : TickBackgroundCrawl(k))
    BY <1>1 DEF RunOnce, Body, BodyNotFound, BodyFails, StoreBody, TickBackgroundCrawl, walkVars
  <2>2. ~ RunPosted
    <3>1. ~ RunPostedNext
      BY <1>1 DEF RunPostedNext
    <3>2. ~ RunPostedStep
      BY <1>1, EmitEnds DEF RunPostedStep
    <3> QED BY <3>1, <3>2 DEF RunPosted
  <2>3. ~ User
    BY <1>1 DEF User, TopUpLabel, CacheLabelComplete, CancelCacheLabel,
       ResetBackgroundCrawlProgress, FetchBodyOnDemand, walkVars, WalkEnds
  <2>4. PICK c \in chains : Answer(c)
    BY <1>4, <2>1, <2>2, <2>3 DEF Handler
  <2>5. ~ (ProfileReply(c) \/ LabelsReply(c) \/ HistoryTooOld(c) \/ HistoryReply(c) \/ SyncRequestFails(c))
    BY <1>1 DEF ProfileReply, LabelsReply, HistoryTooOld, HistoryReply, SyncRequestFails, walkVars
  <2>6. /\ ~ \E k \in Labels : SeedPageReply(c, k) \/ SeedPageFails(c, k)
        /\ ~ \E m \in Msgs : GetReply(c, m) \/ GetNotFound(c, m) \/ GetFails(c, m)
    BY <1>1 DEF SeedPageReply, SeedPageFails, GetReply, GetNotFound, GetFails, walkVars
  <2>7. ~ ListFails(c)
    BY EmitEnds DEF ListFails
  <2>8. ListReply(c)
    BY <2>4, <2>5, <2>6, <2>7 DEF Answer
  <2> DEFINE S == Listing(c.label, pageToken[c.label])
             P == FirstPage(S, PageSize)
  <2>9. P \ rows = {} /\ EmitTopUpFinished(c.label, P = S, posted)
    BY <1>1, <2>8 DEF ListReply, walkVars
  <2>10. c.label = l /\ P = S
    <3>1. PICK last \in BOOLEAN : last <=> P = S
      OBVIOUS
    <3>2. EmitTopUpFinished(c.label, last, posted)
      BY <2>9, <3>1 DEF EmitTopUpFinished
    <3> HIDE DEF P, S
    <3> QED BY <3>1, <3>2, EmitEnds
  <2> QED BY <2>8, <2>9, <2>10
<1>5. CASE \E c \in chains : Finish(c)
  <2>1. PICK c \in chains : Finish(c)
    BY <1>5
  <2>2. Settle(c)
    BY <1>1, <2>1 DEF Finish, ApplyPage, walkVars
  <2>3. c.kind = "topup" /\ EmitTopUpFinished(c.label, c.last, posted)
    BY <1>1, <2>2 DEF Settle, walkVars
  <2>4. c.last \in BOOLEAN
    BY DEF TypeInv, SlotOK, Chain
  <2> QED BY <2>2, <2>3, <2>4, EmitEnds
<1> QED BY <1>2, <1>3, <1>4, <1>5 DEF Next

\* What is left of the label when its walk ends is news, or cached, or in a
\* known gap.
LEMMA WalkEndsCached ==
    ASSUME TypeInv, OneChain, CacheInv, [Next]_vars,
           NEW l \in Labels, WalkEnds(l), crashes' = crashes,
           NEW m \in live', l \in tags'[m]
    PROVE  News(m, l)' \/ m \in (rows \cup AllOwed \cup unfetched)'
<1>1. PICK c \in chains :
              \/ Settle(c) /\ c.kind = "topup" /\ c.label = l /\ c.last
              \/ /\ ListReply(c) /\ c.label = l
                 /\ LET S == Listing(l, pageToken[l])
                        P == FirstPage(S, PageSize)
                    IN  P = S /\ P \subseteq rows
  BY WalkEndsAtLastPage
<1>2. /\ UNCHANGED mailVars /\ UNCHANGED <<live, tags, hist, rows, historyId, unfetched>>
      /\ m \in live /\ l \in tags[m]
  BY <1>1 DEF Settle, ListReply, mailVars, gapVars
<1>3. News(m, l)' <=> News(m, l)
  BY <1>2, LogFixed DEF News
<1>4. News(m, l) \/ m \in rows \cup unfetched
  <2>1. CASE Settle(c) /\ c.kind = "topup" /\ c.label = l /\ c.last
    <3>1. c.at = "settle" /\ Shape(c) /\ TopUpInv(c)
      BY <2>1 DEF Settle, CacheInv, ChainInv
    <3>2. c.todo = {} /\ c.got \subseteq rows
      BY <3>1 DEF Shape
    <3> QED BY <1>2, <2>1, <3>1, <3>2 DEF TopUpInv
  <2>2. CASE /\ ListReply(c) /\ c.label = l
             /\ LET S == Listing(l, pageToken[l])
                    P == FirstPage(S, PageSize)
                IN  P = S /\ P \subseteq rows
    <3>1. MailTypeOK /\ pageToken[l] \in Tokens /\ PageSize \in Nat \ {0}
      BY SyncAssumption DEF SyncAssumption, TypeInv, DbOK
    <3>2. m \in rows \/ (pageToken[l] # Newest /\ m >= pageToken[l])
      BY <1>2, <2>2, <3>1, PageCovers
    <3>3. Pending = {}
      BY <2>2, NothingPending DEF ListReply
    <3> QED BY <1>2, <3>2, <3>3 DEF CacheInv, DbInv, WalkInv, Walked
  <2> QED BY <1>1, <2>1, <2>2
<1> QED BY <1>2, <1>3, <1>4

\* cacheLabelComplete reports success only when the whole label is cached.
THEOREM WalkCompletesAlways == Spec => WalkCompletes
<1>1. TypeInv /\ OneChain /\ CacheInv /\ [Next]_vars =>
        [\A l \in Labels :
          walkTarget = l /\ walkTarget' # l /\ ~ walkCancel /\ crashes' = crashes =>
              \A m \in live' : l \in tags'[m] =>
                  News(m, l)' \/ m \in (rows \cup AllOwed \cup unfetched)']_vars
  BY WalkEndsCached DEF WalkEnds
<1> QED BY <1>1, TypeInvAlways, OneChainAlways, CacheInvAlways, PTL DEF Spec, WalkCompletes

-----------------------------------------------------------------------------
(* topUpStarted and topUpFinished.  What a handler does to the count of a  *)
(* label, it does to the top-ups that run or wait.                         *)

On(C, l)     == Cardinality({c \in C : c.kind = "topup" /\ c.label = l})
StepsOf(q, l) == {i \in 1 .. Len(q) : q[i].kind = "step" /\ q[i].label = l}
Queued(q, l) == Cardinality(StepsOf(q, l))

\* The top-up a chain or a posted continuation stands for.
Walks(c, l)  == IF c.kind = "topup" /\ c.label = l THEN 1 ELSE 0
Resumes(p, l) == IF p.kind = "step" /\ p.label = l THEN 1 ELSE 0

LEMMA BracketsAs ==
    /\ TopUpsBracketed <=> \A l \in Labels : topUpsOpen[l] = On(chains, l) + Queued(posted, l)
    /\ TopUpsBracketed' <=> \A l \in Labels : topUpsOpen'[l] = On(chains', l) + Queued(posted', l)
BY DEF TopUpsBracketed, Running, Waiting, On, Queued, StepsOf

LEMMA OnAlone ==
    ASSUME NEW C, NEW l
    PROVE  /\ C = {} => On(C, l) = 0
           /\ \A c : C = {c} => On(C, l) = Walks(c, l)
<1> DEFINE T == {c \in C : c.kind = "topup" /\ c.label = l}
<1>1. ASSUME C = {}
      PROVE  On(C, l) = 0
  <2>1. T = {}
    BY <1>1
  <2> QED BY <2>1, FS_EmptySet DEF On
<1>2. ASSUME NEW c, C = {c}
      PROVE  On(C, l) = Walks(c, l)
  <2>1. CASE c.kind = "topup" /\ c.label = l
    <3>1. T = {c}
      BY <1>2, <2>1
    <3> QED BY <2>1, <3>1, FS_Singleton DEF On, Walks
  <2>2. CASE ~ (c.kind = "topup" /\ c.label = l)
    <3>1. T = {}
      BY <1>2, <2>2
    <3> QED BY <2>2, <3>1, FS_EmptySet DEF On, Walks
  <2> QED BY <2>1, <2>2
<1> QED BY <1>1, <1>2

LEMMA QueuedType ==
    ASSUME NEW q \in Seq(Posted), NEW l
    PROVE  IsFiniteSet(StepsOf(q, l)) /\ Queued(q, l) \in Nat
<1>1. IsFiniteSet(1 .. Len(q)) /\ StepsOf(q, l) \in SUBSET (1 .. Len(q))
  BY LenProperties, FS_Interval DEF StepsOf
<1> QED BY <1>1, FS_Subset, FS_CardinalityType DEF Queued

LEMMA QueuedAppend ==
    ASSUME NEW q \in Seq(Posted), NEW p \in Posted, NEW l
    PROVE  Queued(Append(q, p), l) = Queued(q, l) + Resumes(p, l)
<1>1. PICK r : r = Append(q, p)
  OBVIOUS
<1>2. /\ Len(r) = Len(q) + 1 /\ Len(q) \in Nat /\ r[Len(q) + 1] = p
      /\ \A i \in 1 .. Len(q) : r[i] = q[i]
  BY <1>1, AppendProperties, LenProperties
<1>3. CASE p.kind = "step" /\ p.label = l
  <2>1. StepsOf(r, l) = StepsOf(q, l) \cup {Len(q) + 1} /\ Len(q) + 1 \notin StepsOf(q, l)
    BY <1>2, <1>3 DEF StepsOf
  <2>2. IsFiniteSet(StepsOf(q, l)) /\ Queued(q, l) \in Nat
    BY QueuedType
  <2>3. Cardinality(StepsOf(q, l) \cup {Len(q) + 1}) = Cardinality(StepsOf(q, l)) + 1
    BY ONLY <2>1, <2>2, FS_AddElement
  <2>4. Queued(r, l) = Queued(q, l) + 1
    BY ONLY <2>1, <2>3 DEF Queued
  <2> QED BY <1>1, <1>3, <2>4 DEF Resumes
<1>4. CASE ~ (p.kind = "step" /\ p.label = l)
  <2>1. StepsOf(r, l) = StepsOf(q, l)
    BY <1>2, <1>4 DEF StepsOf
  <2> QED BY <1>1, <1>4, <2>1, QueuedType DEF Queued, Resumes
<1> QED BY <1>3, <1>4

LEMMA QueuedTail ==
    ASSUME NEW q \in Seq(Posted), q # <<>>, NEW l
    PROVE  Queued(Tail(q), l) = Queued(q, l) - Resumes(Head(q), l)
<1>1. PICK r, n : r = Tail(q) /\ n = Len(r)
  OBVIOUS
<1>2. /\ r \in Seq(Posted) /\ n \in Nat /\ Len(q) = n + 1
      /\ \A i \in 1 .. n : r[i] = q[i + 1]
      /\ Head(q) = q[1]
  BY <1>1, HeadTailProperties, LenProperties
<1> DEFINE A == StepsOf(r, l)
           B == StepsOf(q, l) \ {1}
           f == [i \in A |-> i + 1]
<1>3. f \in Bijection(A, B)
  <2>1. \A i \in A : i \in 1 .. n /\ i + 1 \in B
    BY <1>1, <1>2 DEF StepsOf
  <2>2. f \in [A -> B] /\ \A i, j \in A : f[i] = f[j] => i = j
    BY <2>1
  <2>3. ASSUME NEW j \in B
        PROVE  \E i \in A : f[i] = j
    <3>1. j \in 2 .. n + 1 /\ q[j].kind = "step" /\ q[j].label = l
      BY <1>2 DEF StepsOf
    <3>2. j - 1 \in 1 .. n /\ r[j - 1] = q[j]
      BY <1>2, <3>1
    <3>3. j - 1 \in A
      BY <1>1, <3>1, <3>2 DEF StepsOf
    <3> QED BY <3>1, <3>3
  <2> QED BY <2>2, <2>3 DEF Bijection, Injection, Surjection, IsInjective
<1>4. IsFiniteSet(A) /\ IsFiniteSet(StepsOf(q, l)) /\ Cardinality(StepsOf(q, l)) \in Nat
  BY <1>2, QueuedType DEF Queued
<1>5. Cardinality(A) = Cardinality(B)
  BY <1>3, <1>4, FS_Bijection DEF ExistsBijection
<1>6. Cardinality(B) = IF 1 \in StepsOf(q, l) THEN Cardinality(StepsOf(q, l)) - 1
                       ELSE Cardinality(StepsOf(q, l))
  BY <1>4, FS_RemoveElement
<1>7. 1 \in StepsOf(q, l) <=> q[1].kind = "step" /\ q[1].label = l
  BY <1>2 DEF StepsOf
<1> QED BY <1>1, <1>2, <1>4, <1>5, <1>6, <1>7 DEF Queued, Resumes

LEMMA SameBrackets ==
    ASSUME TopUpsBracketed, UNCHANGED <<posted, topUpsOpen>>,
           \A l \in Labels : On(chains', l) = On(chains, l)
    PROVE  TopUpsBracketed'
BY BracketsAs

\* A chain moves on, or one that is no top-up ends or starts over.
LEMMA WalksStay ==
    ASSUME OneChain, NEW c \in chains,
           \/ \E d : Advance(c, d) /\ d.kind = c.kind /\ d.label = c.label
           \/ c.kind # "topup" /\ Release(c)
           \/ c.kind # "topup" /\ \E d : d.kind # "topup" /\ chains' = (chains \ {c}) \cup {d}
    PROVE  \A l \in Labels : On(chains', l) = On(chains, l)
<1>1. chains = {c} /\ \A l : On(chains, l) = Walks(c, l)
  BY OnlyChain, OnAlone
<1>2. CASE \E d : Advance(c, d) /\ d.kind = c.kind /\ d.label = c.label
  BY <1>1, <1>2, SlotAfter, OnAlone DEF Walks
<1>3. CASE c.kind # "topup" /\ Release(c)
  BY <1>1, <1>3, SlotAfter, OnAlone DEF Walks
<1>4. CASE c.kind # "topup" /\ \E d : d.kind # "topup" /\ chains' = (chains \ {c}) \cup {d}
  <2>1. PICK d : d.kind # "topup" /\ chains' = {d}
    BY <1>1, <1>4
  <2>2. \A l : On(chains', l) = Walks(d, l)
    BY <2>1, OnAlone
  <2> QED BY <1>1, <1>4, <2>1, <2>2 DEF Walks
<1> QED BY <1>2, <1>3, <1>4

\* topUpLabel.
LEMMA StartTopUpBrackets ==
    ASSUME TypeInv, OneChain, TopUpsBracketed, NEW k \in Labels, StartTopUp(k),
           \A l \in Labels : Queued(posted', l) = Queued(posted, l)
    PROVE  TopUpsBracketed'
<1>1. CASE busy
  BY <1>1, BracketsAs DEF StartTopUp, slotVars
<1>2. CASE ~ busy
  <2>1. chains = {} /\ chains' = {ListChain(k, 0)}
    BY <1>2, SlotAfter DEF StartTopUp, OneChain
  <2>2. ListChain(k, 0).kind = "topup" /\ ListChain(k, 0).label = k
    BY DEF ListChain, NewChain
  <2>3. \A l : On(chains, l) = 0 /\ On(chains', l) = IF l = k THEN 1 ELSE 0
    BY <2>1, <2>2, OnAlone DEF Walks
  <2>4. \A l \in Labels : topUpsOpen'[l] = topUpsOpen[l] + (IF l = k THEN 1 ELSE 0)
    BY <1>2 DEF StartTopUp, TypeInv, WalkOK
  <2>5. \A l \in Labels : Queued(posted, l) \in Nat
    BY QueuedType DEF TypeInv, WalkOK
  <2> QED BY <2>3, <2>4, <2>5, BracketsAs
<1> QED BY <1>1, <1>2

\* topUpFinished: what its slots post is no continuation of the top-up.
LEMMA EmitBrackets ==
    ASSUME TypeInv, NEW k \in Labels, NEW last, NEW queue \in Seq(Posted),
           EmitTopUpFinished(k, last, queue),
           \A l \in Labels : topUpsOpen[l] - (IF l = k THEN 1 ELSE 0) =
                                 On(chains', l) + Queued(queue, l)
    PROVE  TopUpsBracketed'
<1>1. \A l \in Labels : topUpsOpen'[l] = topUpsOpen[l] - (IF l = k THEN 1 ELSE 0)
  BY DEF EmitTopUpFinished, TypeInv, WalkOK
<1>2. PICK p : p = [kind |-> "next", label |-> k, pages |-> 0]
  OBVIOUS
<1>3. p \in Posted /\ \A l : Resumes(p, l) = 0
  BY <1>2 DEF Posted, Resumes
<1>4. \A l : Queued(queue, l) \in Nat /\ Queued(Append(queue, p), l) = Queued(queue, l)
  BY <1>3, QueuedType, QueuedAppend
<1>5. posted' \in {queue, Append(queue, p)}
  BY <1>2 DEF EmitTopUpFinished
<1> QED BY <1>1, <1>4, <1>5, BracketsAs

\* The end of a page: the top-up is over, or its continuation is posted.
LEMMA PageEndsBrackets ==
    ASSUME TypeInv, OneChain, TopUpsBracketed, NEW c \in chains, c.kind = "topup",
           c.label \in Labels, Release(c),
           \/ \E last : EmitTopUpFinished(c.label, last, posted)
           \/ /\ posted' = Append(posted, [kind |-> "step", label |-> c.label,
                                           pages |-> c.pages + 1])
              /\ topUpsOpen' = topUpsOpen
    PROVE  TopUpsBracketed'
<1>1. chains = {c} /\ chains' = {}
  BY OnlyChain, SlotAfter
<1>2. \A l : /\ On(chains, l) = IF l = c.label THEN 1 ELSE 0
             /\ On(chains', l) = 0
  BY <1>1, OnAlone DEF Walks
<1>3. /\ posted \in Seq(Posted) /\ topUpsOpen \in [Labels -> Int]
      /\ \A l : Queued(posted, l) \in Nat
  BY QueuedType DEF TypeInv, WalkOK
<1>4. \A l \in Labels : topUpsOpen[l] = On(chains, l) + Queued(posted, l)
  BY BracketsAs
<1>5. CASE \E last : EmitTopUpFinished(c.label, last, posted)
  BY <1>2, <1>3, <1>4, <1>5, EmitBrackets
<1>6. CASE /\ posted' = Append(posted, [kind |-> "step", label |-> c.label,
                                        pages |-> c.pages + 1])
           /\ topUpsOpen' = topUpsOpen
  <2>1. PICK p : p = [kind |-> "step", label |-> c.label, pages |-> c.pages + 1]
    OBVIOUS
  <2>2. p \in Posted /\ \A l : Resumes(p, l) = IF l = c.label THEN 1 ELSE 0
    BY <2>1 DEF Posted, Resumes, TypeInv, SlotOK, Chain
  <2>3. \A l : Queued(posted', l) = Queued(posted, l) + Resumes(p, l)
    BY <1>3, <1>6, <2>1, <2>2, QueuedAppend
  <2> QED BY <1>2, <1>3, <1>4, <1>6, <2>2, <2>3, BracketsAs
<1> QED BY <1>5, <1>6

LEMMA RunPostedBrackets ==
    ASSUME TypeInv, OneChain, TopUpsBracketed, RunPosted
    PROVE  TopUpsBracketed'
<1>1. /\ posted \in Seq(Posted) /\ posted # <<>> /\ topUpsOpen \in [Labels -> Int]
      /\ \A l : Queued(posted, l) \in Nat
  BY QueuedType DEF TypeInv, WalkOK, RunPosted, RunPostedStep, RunPostedNext
<1>2. PICK p : p = Head(posted)
  OBVIOUS
<1>3. p \in Posted /\ Tail(posted) \in Seq(Posted)
  BY <1>1, <1>2, HeadTailProperties
<1>4. \A l : Queued(Tail(posted), l) = Queued(posted, l) - Resumes(p, l)
  BY <1>1, <1>2, QueuedTail
<1>5. \A l \in Labels : topUpsOpen[l] = On(chains, l) + Queued(posted, l)
  BY BracketsAs
<1>6. \A l : On(chains, l) \in Int
  BY OnAlone DEF OneChain, Walks
<1>7. CASE RunPostedStep
  <2>1. p.label \in Labels /\ \A l : Resumes(p, l) = IF l = p.label THEN 1 ELSE 0
    BY <1>2, <1>3, <1>7 DEF RunPostedStep, Resumes, Posted
  <2>2. CASE busy
    <3>1. EmitTopUpFinished(p.label, FALSE, Tail(posted)) /\ chains' = chains
      BY <1>2, <1>7, <2>2 DEF RunPostedStep, slotVars
    <3>2. \A l \in Labels : topUpsOpen[l] - (IF l = p.label THEN 1 ELSE 0) =
                               On(chains', l) + Queued(Tail(posted), l)
      BY <1>1, <1>4, <1>5, <1>6, <2>1, <3>1
    <3> QED BY <1>3, <2>1, <3>1, <3>2, EmitBrackets
  <2>3. CASE ~ busy
    <3>1. PICK d : chains' = {d} /\ d = ListChain(p.label, p.pages)
      BY <1>2, <1>7, <2>3, SlotAfter DEF RunPostedStep
    <3>2. \A l : On(chains, l) = 0 /\ On(chains', l) = IF l = p.label THEN 1 ELSE 0
      <4>1. chains = {} /\ d.kind = "topup" /\ d.label = p.label
        BY <2>3, <3>1 DEF OneChain, ListChain, NewChain
      <4> QED BY <3>1, <4>1, OnAlone DEF Walks
    <3>3. topUpsOpen' = topUpsOpen /\ posted' = Tail(posted)
      BY <1>7, <2>3 DEF RunPostedStep
    <3> QED BY <1>1, <1>4, <1>5, <2>1, <3>2, <3>3, BracketsAs
  <2> QED BY <2>2, <2>3
<1>8. CASE RunPostedNext
  <2>1. posted' = Tail(posted) /\ \A l : Resumes(p, l) = 0
    BY <1>2, <1>8 DEF RunPostedNext, Resumes
  <2>2. \A l : Queued(posted', l) = Queued(posted, l)
    BY <1>1, <1>4, <2>1
  <2>3. CASE StartTopUp(Head(posted).label)
    BY <1>2, <1>3, <2>2, <2>3, StartTopUpBrackets DEF Posted
  <2>4. CASE UNCHANGED <<slotVars, topUpsOpen>>
    BY <1>5, <2>2, <2>4, BracketsAs DEF slotVars
  <2> QED BY <1>8, <2>3, <2>4 DEF RunPostedNext
<1> QED BY <1>7, <1>8 DEF RunPosted

\* The requests of a chain, one by one.
LEMMA AnswerBrackets ==
    ASSUME TypeInv, OneChain, CacheInv, TopUpsBracketed, NEW c \in chains, Answer(c)
    PROVE  TopUpsBracketed'
<1>1. c \in Chain /\ Labelled(c) /\ Shape(c)
  BY DEF TypeInv, SlotOK, CacheInv, ChainInv
<1>2. CASE ProfileReply(c) \/ LabelsReply(c) \/ HistoryReply(c)
  <2>1. PICK d : Advance(c, d) /\ d.kind = c.kind /\ d.label = c.label
    <3>1. \A x : /\ [c EXCEPT !.at = "labels", !.hid = x].kind = c.kind
                 /\ [c EXCEPT !.at = "labels", !.hid = x].label = c.label
      BY <1>1 DEF Chain
    <3>2. \A x : /\ [c EXCEPT !.at = "seed", !.lists = x].kind = c.kind
                 /\ [c EXCEPT !.at = "seed", !.lists = x].label = c.label
      BY <1>1 DEF Chain
    <3>3. \A x, y : /\ [c EXCEPT !.at = "apply", !.upto = x, !.hid = y].kind = c.kind
                    /\ [c EXCEPT !.at = "apply", !.upto = x, !.hid = y].label = c.label
      BY <1>1 DEF Chain
    <3>4. \/ \E x : Advance(c, [c EXCEPT !.at = "labels", !.hid = x])
          \/ \E x : Advance(c, [c EXCEPT !.at = "seed", !.lists = x])
          \/ \E x, y : Advance(c, [c EXCEPT !.at = "apply", !.upto = x, !.hid = y])
      BY <1>2, Zenon DEF ProfileReply, LabelsReply, HistoryReply
    <3>5. \A d : Advance(c, d) /\ d.kind = c.kind /\ d.label = c.label =>
                    \E e : Advance(c, e) /\ e.kind = c.kind /\ e.label = c.label
      OBVIOUS
    <3>6. CASE \E x : Advance(c, [c EXCEPT !.at = "labels", !.hid = x])
      BY <3>1, <3>5, <3>6
    <3>7. CASE \E x : Advance(c, [c EXCEPT !.at = "seed", !.lists = x])
      BY <3>2, <3>5, <3>7
    <3>8. CASE \E x, y : Advance(c, [c EXCEPT !.at = "apply", !.upto = x, !.hid = y])
      BY <3>3, <3>5, <3>8
    <3> QED BY <3>4, <3>6, <3>7, <3>8
  <2>2. UNCHANGED <<posted, topUpsOpen>>
    BY <1>2 DEF ProfileReply, LabelsReply, HistoryReply, walkVars
  <2> QED BY <2>1, <2>2, WalksStay, SameBrackets
<1>3. CASE HistoryTooOld(c)
  <2>1. c.kind # "topup" /\ \E d : d.kind # "topup" /\ chains' = (chains \ {c}) \cup {d}
    BY <1>1, <1>3 DEF HistoryTooOld, Shape, NewChain
  <2>2. UNCHANGED <<posted, topUpsOpen>>
    BY <1>3 DEF HistoryTooOld, walkVars
  <2> QED BY <2>1, <2>2, WalksStay, SameBrackets
<1>4. CASE SyncRequestFails(c)
  <2>1. c.kind # "topup" /\ Release(c) /\ UNCHANGED <<posted, topUpsOpen>>
    BY <1>1, <1>4 DEF SyncRequestFails, Shape, walkVars
  <2> QED BY <2>1, WalksStay, SameBrackets
<1>5. CASE ListFails(c)
  BY <1>1, <1>5, PageEndsBrackets DEF ListFails, Shape, Labelled
<1>6. CASE ListReply(c)
  <2>1. c.kind = "topup" /\ c.label \in Labels
    BY <1>1, <1>6 DEF ListReply, Shape, Labelled
  <2>2. CASE \E d : Advance(c, d) /\ d.kind = c.kind /\ d.label = c.label /\ UNCHANGED <<posted, topUpsOpen>>
    BY <2>2, WalksStay, SameBrackets
  <2>3. CASE /\ Release(c)
             /\ \/ \E last : EmitTopUpFinished(c.label, last, posted)
                \/ /\ posted' = Append(posted, [kind |-> "step", label |-> c.label,
                                                pages |-> c.pages + 1])
                   /\ topUpsOpen' = topUpsOpen
    BY <2>1, <2>3, PageEndsBrackets
  <2>4. \/ \E ids, next, last :
              /\ Advance(c, [c EXCEPT !.at = "fetch", !.ids = ids, !.todo = ids,
                                      !.next = next, !.last = last])
              /\ UNCHANGED <<posted, topUpsOpen>>
        \/ /\ Release(c)
           /\ \/ \E last : EmitTopUpFinished(c.label, last, posted)
              \/ /\ posted' = Append(posted, [kind |-> "step", label |-> c.label,
                                              pages |-> c.pages + 1])
                 /\ topUpsOpen' = topUpsOpen
    BY <1>6 DEF ListReply, walkVars
  <2> QED BY <1>1, <2>2, <2>3, <2>4 DEF Chain
<1>7. CASE \E l \in Labels : SeedPageReply(c, l) \/ SeedPageFails(c, l)
  <2>1. PICK l, found : SeedListed(c, l, found)
    BY <1>7 DEF SeedPageReply, SeedPageFails
  <2>2. c.kind = "initial" /\ UNCHANGED <<posted, topUpsOpen>>
    BY <1>1, <1>7 DEF SeedPageReply, SeedPageFails, Shape, walkVars
  <2>3. \/ Release(c)
        \/ \E d : Advance(c, d) /\ d.kind = c.kind /\ d.label = c.label
    <3> DEFINE e == [c EXCEPT !.lists = @ \ {l}, !.ids = @ \cup found]
    <3>1. e.kind = c.kind /\ e.label = c.label
      BY <1>1 DEF Chain
    <3>2. \/ Release(c) \/ Advance(c, e)
          \/ \E S : Advance(c, [e EXCEPT !.at = "fetch", !.ids = S, !.todo = S])
      BY <2>1 DEF SeedListed
    <3>3. \A S : /\ [e EXCEPT !.at = "fetch", !.ids = S, !.todo = S].kind = e.kind
                 /\ [e EXCEPT !.at = "fetch", !.ids = S, !.todo = S].label = e.label
      BY <1>1 DEF Chain
    <3> HIDE DEF e
    <3> QED BY <3>1, <3>2, <3>3
  <2> QED BY <2>2, <2>3, WalksStay, SameBrackets
<1>8. CASE \E m \in Msgs : GetReply(c, m) \/ GetNotFound(c, m) \/ GetFails(c, m)
  <2>1. PICK d, gap : Answered(c, d, gap) /\ d \in Chain /\ d.kind = c.kind /\ d.label = c.label
    <3>1. PICK m \in Msgs : GetReply(c, m) \/ GetNotFound(c, m) \/ GetFails(c, m)
      BY <1>8
    <3> DEFINE e == [c EXCEPT !.todo = @ \ {m}]
               g == [c EXCEPT !.todo = @ \ {m}, !.got = @ \cup {m}, !.snap = [@ EXCEPT ![m] = tags[m]]]
    <3>2. Answered(c, g, {}) \/ Answered(c, e, {}) \/ Answered(c, e, {m})
      BY <3>1 DEF GetReply, GetNotFound, GetFails
    <3>3. e \in Chain /\ e.kind = c.kind /\ e.label = c.label
      BY <1>1 DEF Chain
    <3>4. g \in Chain /\ g.kind = c.kind /\ g.label = c.label
      BY <1>1 DEF Chain, TypeInv, MailTypeOK
    <3> HIDE DEF e, g
    <3> QED BY <3>2, <3>3, <3>4
  <2>2. \E x : Advance(c, x) /\ x.kind = c.kind /\ x.label = c.label
    <3>1. CASE Advance(c, d)
      BY <2>1, <3>1
    <3>2. CASE Advance(c, [d EXCEPT !.at = "settle"])
      <4>1. [d EXCEPT !.at = "settle"].kind = c.kind /\ [d EXCEPT !.at = "settle"].label = c.label
        BY <2>1 DEF Chain
      <4> QED BY <3>2, <4>1
    <3> QED BY <2>1, <3>1, <3>2 DEF Answered
  <2>3. UNCHANGED <<posted, topUpsOpen>>
    BY <1>8 DEF GetReply, GetNotFound, GetFails, walkVars
  <2> QED BY <2>2, <2>3, WalksStay, SameBrackets
<1> QED BY <1>2, <1>3, <1>4, <1>5, <1>6, <1>7, <1>8 DEF Answer

LEMMA FinishBrackets ==
    ASSUME TypeInv, OneChain, CacheInv, TopUpsBracketed, NEW c \in chains, Finish(c)
    PROVE  TopUpsBracketed'
<1>1. c \in Chain /\ Labelled(c) /\ Shape(c)
  BY DEF TypeInv, SlotOK, CacheInv, ChainInv
<1>2. CASE ApplyPage(c)
  <2>1. c.kind # "topup" /\ UNCHANGED <<posted, topUpsOpen>>
    BY <1>1, <1>2 DEF ApplyPage, Shape, walkVars
  <2>2. \/ Release(c)
        \/ \E S : Advance(c, [c EXCEPT !.at = "fetch", !.ids = S, !.todo = S])
    BY <1>2 DEF ApplyPage
  <2>3. \A S : /\ [c EXCEPT !.at = "fetch", !.ids = S, !.todo = S].kind = c.kind
               /\ [c EXCEPT !.at = "fetch", !.ids = S, !.todo = S].label = c.label
    BY <1>1 DEF Chain
  <2>4. Release(c) \/ \E d : Advance(c, d) /\ d.kind = c.kind /\ d.label = c.label
    BY <2>2, <2>3
  <2> QED BY <2>1, <2>4, WalksStay, SameBrackets
<1>3. CASE Settle(c)
  <2>1. CASE c.kind # "topup"
    <3>1. Release(c) /\ UNCHANGED <<posted, topUpsOpen>>
      BY <1>3, <2>1 DEF Settle, walkVars
    <3> QED BY <2>1, <3>1, WalksStay, SameBrackets
  <2>2. CASE c.kind = "topup"
    <3>1. Release(c) /\ c.label \in Labels /\ EmitTopUpFinished(c.label, c.last, posted)
      BY <1>1, <1>3, <2>2 DEF Settle, Labelled
    <3> QED BY <2>2, <3>1, PageEndsBrackets
  <2> QED BY <2>1, <2>2
<1> QED BY <1>2, <1>3 DEF Finish

LEMMA BracketsStep ==
    TypeInv /\ OneChain /\ CacheInv /\ TopUpsBracketed /\ [Next]_vars => TopUpsBracketed'
<1> SUFFICES ASSUME TypeInv, OneChain, CacheInv, TopUpsBracketed, [Next]_vars
             PROVE  TopUpsBracketed'
  OBVIOUS
<1>1. CASE UNCHANGED vars \/ Mailbox \/ \E b \in bodyGets : BodyAnswered(b) \/ Body(b)
  <2>1. UNCHANGED <<chains, posted, topUpsOpen>>
    BY <1>1 DEF vars, Mailbox, BodyAnswered, Body, BodyNotFound, BodyFails, StoreBody,
       slotVars, walkVars
  <2> QED BY <2>1, SameBrackets
<1>2. CASE RunOnce
  <2>1. PICK d : d.kind # "topup" /\ chains' = {d} /\ chains = {}
    BY <1>2, SlotAfter DEF RunOnce, NewChain, OneChain
  <2>2. \A l : On(chains, l) = 0 /\ On(chains', l) = 0
    BY <2>1, OnAlone DEF Walks
  <2>3. UNCHANGED <<posted, topUpsOpen>>
    BY <1>2 DEF RunOnce, walkVars
  <2> QED BY <2>2, <2>3, SameBrackets
<1>3. CASE User
  <2>1. CASE \E l \in Labels : TopUpLabel(l) \/ CacheLabelComplete(l)
    BY <2>1, StartTopUpBrackets DEF TopUpLabel, CacheLabelComplete, walkVars
  <2>2. CASE CancelCacheLabel \/ ResetBackgroundCrawlProgress \/ \E m \in Msgs : FetchBodyOnDemand(m)
    <3>1. UNCHANGED <<chains, posted, topUpsOpen>>
      BY <2>2 DEF CancelCacheLabel, ResetBackgroundCrawlProgress, FetchBodyOnDemand, slotVars, walkVars
    <3> QED BY <3>1, SameBrackets
  <2> QED BY <1>3, <2>1, <2>2 DEF User
<1>4. CASE \E l \in Labels : TickBackgroundCrawl(l)
  BY <1>4, StartTopUpBrackets DEF TickBackgroundCrawl
<1>5. CASE RunPosted
  BY <1>5, RunPostedBrackets
<1>6. CASE \E c \in chains : Answer(c) \/ Finish(c)
  BY <1>6, AnswerBrackets, FinishBrackets
<1>7. CASE Crash
  <2>1. chains' = {} /\ posted' = <<>> /\ topUpsOpen' = [l \in Labels |-> 0]
    BY <1>7 DEF Crash
  <2>2. \A l : StepsOf(posted', l) = {}
    BY <2>1 DEF StepsOf
  <2>3. \A l : On(chains', l) = 0 /\ Queued(posted', l) = 0
    BY <2>1, <2>2, OnAlone, FS_EmptySet DEF Queued
  <2> QED BY <2>1, <2>3, BracketsAs
<1> QED BY <1>1, <1>2, <1>3, <1>4, <1>5, <1>6, <1>7 DEF Next, Handler

LEMMA BracketsInit == Init => TopUpsBracketed
<1> SUFFICES ASSUME Init
             PROVE  TopUpsBracketed
  OBVIOUS
<1>1. chains = {} /\ posted = <<>> /\ topUpsOpen = [l \in Labels |-> 0]
  BY DEF Init
<1>2. \A l : StepsOf(posted, l) = {}
  BY <1>1 DEF StepsOf
<1>3. \A l : On(chains, l) = 0 /\ Queued(posted, l) = 0
  BY <1>1, <1>2, OnAlone, FS_EmptySet DEF Queued
<1> QED BY <1>1, <1>3, BracketsAs

\* Every topUpStarted is followed by one topUpFinished: what is open of a label
\* is exactly the top-ups of it that run or wait in the event queue.
THEOREM TopUpsBracketedAlways == Spec => []TopUpsBracketed
BY BracketsInit, BracketsStep, TypeInvAlways, OneChainAlways, CacheInvAlways, PTL DEF Spec
=============================================================================
