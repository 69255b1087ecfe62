--------------------------- MODULE MCMessageList ---------------------------
(* Instances of MessageList for TLC. *)
EXTENDS MessageList, SequencesExt, FiniteSetsExt

M(a, t, L) == [account |-> a, thread |-> t, labels |-> L]

\* From old to new: ann's conversations 1 to 4, the fourth archived, the first and the second
\* with two messages in INBOX; bob's one.
TwoBoxes ==
    << M("ann", 4, {}), M("ann", 3, {"INBOX"}), M("bob", 5, {"INBOX"}),
       M("ann", 2, {"INBOX"}), M("ann", 1, {"INBOX"}), M("ann", 2, {"INBOX"}) >>
OldHits   == {1}
NewMail   == {6}
LatestTwo == {3, 4, 5}

\* The listings against sorting and grouping as the database does them, for every cache.
Threads(S) == {{n \in S : Mail[n].thread = Mail[m].thread} : m \in S}
Grouped(S) == {[id |-> Max(G), count |-> Cardinality(G), under |-> <<>>] : G \in Threads(S)}
ASSUME ListingsSorted ==
    /\ Newest = [S \in SUBSET Ids |-> SetToSortSeq(S, LAMBDA m, n : m > n)]
    /\ Rollup = [S \in SUBSET Ids |-> SetToSortSeq(Grouped(S), LAMBDA r, q : r.id > q.id)]
=============================================================================
