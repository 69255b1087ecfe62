------------------------------- MODULE Gmail -------------------------------
(***************************************************************************)
(* The Gmail mailbox of one account, as GmailClient shows it to the rest   *)
(* of the program.  It is external: nothing under src/ implements it, and  *)
(* every operator below is the shape of an answer that src/src/api/        *)
(* GmailClient.cpp parses.                                                 *)
(*                                                                         *)
(* Messages are numbered in the order they arrive, so "newest first" is    *)
(* "largest number first".  The history is an append-only log of changes;  *)
(* a history id is a length of that log.  Gmail forgets old history: a     *)
(* start id below `horizon' is answered 404, which GmailClient turns into  *)
(* HistoryPage::historyTooOld.                                             *)
(***************************************************************************)
EXTENDS Integers, Sequences, FiniteSets

CONSTANTS
    MaxMsg,         \* messages are 1 .. MaxMsg
    Labels,         \* label ids, numbered in the order of ORDER BY id
    InitialMsgs,    \* messages 1 .. InitialMsgs are in the mailbox at the start
    MaxHistory      \* bound: length of the history log

ASSUME GmailAssumption ==
    /\ MaxMsg \in Nat
    /\ InitialMsgs \in 0 .. MaxMsg
    /\ Labels \subseteq Nat \ {0}
    /\ MaxHistory \in Nat

Msgs == 1 .. MaxMsg

VARIABLES
    live,       \* the messages in the mailbox
    tags,       \* tags[m]: the labels of message m
    arrived,    \* messages 1 .. arrived have been delivered
    hist,       \* the history log
    horizon     \* start ids below this one are too old

mailVars == <<live, tags, arrived, hist, horizon>>

EventKinds == {"messagesAdded", "messagesDeleted", "labelsAdded", "labelsRemoved"}
NoLabel    == 0
Event      == [kind : EventKinds, msg : Msgs, label : Labels \cup {NoLabel}]

MailTypeOK ==
    /\ live \subseteq Msgs
    /\ tags \in [Msgs -> SUBSET Labels]
    /\ arrived \in 0 .. MaxMsg
    /\ hist \in Seq(Event)
    /\ horizon \in Nat

MailInit ==
    /\ live = 1 .. InitialMsgs
    /\ tags \in {t \in [Msgs -> SUBSET Labels] :
                    \A m \in Msgs : (m > InitialMsgs) <=> (t[m] = {})}
    /\ arrived = InitialMsgs
    /\ hist = <<>>
    /\ horizon = 0

-----------------------------------------------------------------------------
(* What happens to the mailbox from outside this program.                  *)

Log(kind, m, l) ==
    /\ Len(hist) < MaxHistory
    /\ hist' = Append(hist, [kind |-> kind, msg |-> m, label |-> l])

Arrive(S) ==
    /\ arrived < MaxMsg
    /\ S # {}
    /\ Log("messagesAdded", arrived + 1, NoLabel)
    /\ live' = live \cup {arrived + 1}
    /\ tags' = [tags EXCEPT ![arrived + 1] = S]
    /\ arrived' = arrived + 1
    /\ UNCHANGED horizon

Delete(m) ==
    /\ m \in live
    /\ Log("messagesDeleted", m, NoLabel)
    /\ live' = live \ {m}
    /\ UNCHANGED <<tags, arrived, horizon>>

Label(m, l) ==
    /\ m \in live
    /\ l \notin tags[m]
    /\ Log("labelsAdded", m, l)
    /\ tags' = [tags EXCEPT ![m] = @ \cup {l}]
    /\ UNCHANGED <<live, arrived, horizon>>

Unlabel(m, l) ==
    /\ m \in live
    /\ l \in tags[m]
    /\ Log("labelsRemoved", m, l)
    /\ tags' = [tags EXCEPT ![m] = @ \ {l}]
    /\ UNCHANGED <<live, arrived, horizon>>

ForgetHistory ==
    /\ horizon < Len(hist)
    /\ horizon' = Len(hist)
    /\ UNCHANGED <<live, tags, arrived, hist>>

MailNext ==
    \/ \E S \in SUBSET Labels : Arrive(S)
    \/ \E m \in Msgs : Delete(m)
    \/ \E m \in Msgs, l \in Labels : Label(m, l) \/ Unlabel(m, l)
    \/ ForgetHistory

-----------------------------------------------------------------------------
(* Reading the history log.                                                *)

\* Some event in positions i .. j of the log concerns message m.
TouchedIn(m, i, j) ==
    \E k \in 1 .. Len(hist) : k >= i /\ k <= j /\ hist[k].msg = m

Happened(kind, m, i, j) ==
    \E k \in 1 .. Len(hist) :
        k >= i /\ k <= j /\ hist[k].kind = kind /\ hist[k].msg = m

\* A label event on m and l among positions i .. j.
IsLabelEvent(e, m, l) ==
    e.kind \in {"labelsAdded", "labelsRemoved"} /\ e.msg = m /\ e.label = l

RelabelledIn(m, l, i, j) ==
    \E k \in 1 .. Len(hist) : k >= i /\ k <= j /\ IsLabelEvent(hist[k], m, l)

\* The last event on m and l among positions i .. j added the label.
LastAdds(m, l, i, j) ==
    \E k \in 1 .. Len(hist) :
        /\ k >= i /\ k <= j
        /\ IsLabelEvent(hist[k], m, l) /\ hist[k].kind = "labelsAdded"
        /\ ~ RelabelledIn(m, l, k + 1, j)

-----------------------------------------------------------------------------
(* messages.list: the messages carrying label l, newest first, from the    *)
(* position a page token stands for (0: from the newest one).              *)

Newest == 0
Tokens == 0 .. MaxMsg

Older(t, m)      == t = Newest \/ m < t
Listing(l, t)    == {m \in live : l \in tags[m] /\ Older(t, m)}

\* The `size' newest messages of a listing: one page.
FirstPage(S, size) == {m \in S : Cardinality({n \in S : n > m}) < size}

\* nextPageToken of page P of listing S: empty when the page reaches the end.
NextToken(S, P) ==
    IF P = S THEN Newest ELSE CHOOSE p \in P : \A q \in P : p <= q
=============================================================================
