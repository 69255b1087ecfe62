------------------------------- MODULE Labels -------------------------------
(***************************************************************************)
(* The labels: Gmail's, the rows of the labels table, the tree the sidebar    *)
(* builds of them, and the label the window is on.  The user makes, renames   *)
(* and deletes labels through Gmail, an initial sync lists them, a dropped    *)
(* cache takes the rows away, and everything that may have changed a count    *)
(* reloads the tree, which selects the chosen label again and so tells the   *)
(* window to go there.                                                      *)
(*                                                                         *)
(* Services live on the window's thread (AccountContext.h:21-30), so the     *)
(* slots of labelsUpdated and cacheCleared run inside the emit.              *)
(*                                                                         *)
(* A label's name is one value: its place under another label, the counts    *)
(* and the colours are left out, and so are the rows of the message list.    *)
(***************************************************************************)
EXTENDS Naturals

CONSTANTS
    Accounts,    \* the accounts, in the order of the sidebar
    Ids,         \* ids Gmail gives to labels users make, in the order of the rows
    Names,       \* what they can be called
    Hidden,      \* system labels the tree has no row for: UNREAD, CHAT, the categories
    Start,       \* the user labels each account has at the start, None for no label
    Seedings,    \* the sets of accounts whose labels may have been listed before the start
    MaxCalls,    \* bound: labels made, renamed or deleted here
    MaxMoves,    \* bound: labels and accounts chosen
    MaxReloads,  \* bound: reloads that only want the counts
    MaxListings, \* bound: initial syncs
    MaxFaults    \* bound: replies lost, changes made elsewhere and caches dropped

Inbox      == "INBOX"
AllInboxes == "__all_inboxes"
None       == "none"
Gone       == "gone"
UserIds    == {Ids[i] : i \in DOMAIN Ids}
System     == {Inbox} \cup Hidden
Owners     == {Accounts[i] : i \in DOMAIN Accounts}
Home       == Accounts[1]

ASSUME LabelsAssumption ==
    /\ 1 \in DOMAIN Accounts
    /\ \A i, j \in DOMAIN Accounts : Accounts[i] = Accounts[j] => i = j
    /\ UserIds \cap (System \cup {None, AllInboxes, ""}) = {} /\ Hidden \cap {Inbox, None} = {}
    /\ Names \cap {None, Gone} = {}
    /\ Start \in [Owners -> [UserIds -> Names \cup {None}]] /\ Seedings \subseteq SUBSET Owners
    /\ {MaxCalls, MaxMoves, MaxReloads, MaxListings, MaxFaults} \subseteq Nat

VARIABLES
    gmail,     \* Gmail's user labels: their names, None before they are made, Gone after
    table,     \* the labels table: the names, or None where there is no row
    phantom,   \* accounts with a row whose id is empty
    tree,      \* LabelTreeModel: the names of the rows it shows
    sel,       \* selectedAccountId_ and selectedLabelId_ of the sidebar
    win,       \* currentAccountId_, currentLabelId_ and crossAccountView_
    calls,     \* label calls on their way to Gmail and back
    reloads,   \* reloadSidebar calls in the event loop
    listing,   \* an initial sync's labels.list
    \* Ghosts: what the user chose last, whether that was an account and no label, the labels
    \* that need not agree any more, and accounts whose labels nobody told the tree about, since
    \* the window was not on them.
    chosen, drifted, raced, unheard,
    called, moves, painted, listed, faults

boundVars == <<called, moves, painted, listed, faults>>
treeVars  == <<tree, sel, win, chosen, drifted, unheard>>
labelsVars == <<gmail, table, phantom, tree, sel, win, calls, reloads, listing,
          chosen, drifted, raced, unheard, boundVars>>

NoListing == [account |-> None, at |-> "off", names |-> [l \in UserIds |-> None]]

-----------------------------------------------------------------------------
(* The tree.                                                               *)

\* The tree of a table: a row for each label it has a place for, and one for each name.
Twin(T, a, i) == \E j \in 1 .. (i - 1) : T[a][Ids[j]] = T[a][Ids[i]]
Built(T) ==
    [a \in Owners |-> [l \in UserIds \cup {Inbox} |->
        IF \E i \in DOMAIN Ids : Ids[i] = l /\ Twin(T, a, i) THEN None ELSE T[a][l]]]

\* sameLabelSet: the accounts' label ids in the tree are those in the table T, and in the rows
\* without an id of the accounts P.
TreeKeys == {k \in Owners \X (UserIds \cup {Inbox}) : tree[k[1]][k[2]] # None}
RowKeys(T, P) == {k \in Owners \X (UserIds \cup System) : T[k[1]][k[2]] # None}
                \cup (P \X {""})
\* Mutant of sameLabelSet: rows the tree has no place for are not counted, so that most reloads
\* take the fast path, which writes no names.
sameLabelSetShown(T, P) == TreeKeys = {k \in RowKeys(T, P) : k[2] \notin Hidden}
sameLabelSet(T, P) == TreeKeys = RowKeys(T, P)

\* selectLabel finds the first row with that id, of that account if one is named.
Found(t, s) ==
    \/ s.label = AllInboxes
    \/ s.account \in Owners /\ s.label \in DOMAIN t[s.account] /\ t[s.account][s.label] # None

\* onLabelSelected: "All Inboxes" leaves the account, every other label takes its own.
onLabelSelected(w, s) ==
    IF s.label = AllInboxes THEN [w EXCEPT !.label = Inbox, !.cross = TRUE]
    ELSE [account |-> s.account, label |-> s.label, cross |-> FALSE]

\* Mutant of selectLabel: the first row with the id is taken, whose account it may be.
selectLabelAnyAccount(w, t, s) ==
    LET Rows == {i \in DOMAIN Accounts : Found(t, [s EXCEPT !.account = Accounts[i]])}
    IN  IF Rows = {} THEN w
        ELSE onLabelSelected(w, [s EXCEPT !.account = Accounts[CHOOSE i \in Rows : \A j \in Rows : i <= j]])

\* selectLabel: the window goes where the row leads.
selectLabel(w, t, s) == IF Found(t, s) THEN onLabelSelected(w, s) ELSE w

\* reload: the rows stay, with new counts, if the labels are the same; else the tree is built
\* again, which selects the chosen label as if it had been clicked.
reload(T, P) ==
    /\ IF sameLabelSet(T, P)
       THEN UNCHANGED <<tree, win>>
       ELSE /\ tree' = Built(T)
            /\ win' = selectLabel(win, tree', sel)
    /\ unheard' = {}
    /\ UNCHANGED <<sel, chosen, drifted>>

-----------------------------------------------------------------------------

\* With no account listed before, this is the first launch.
LabelsInit ==
    /\ gmail = Start
    /\ \E Seeded \in Seedings :
         table = [a \in Owners |-> [l \in UserIds \cup System |->
                    IF a \notin Seeded THEN None ELSE IF l \in System THEN l ELSE gmail[a][l]]]
    /\ phantom = {} /\ tree = Built(table)
    /\ sel = [account |-> Home, label |-> Inbox]
    /\ win = [account |-> Home, label |-> Inbox, cross |-> FALSE]
    /\ calls = {} /\ reloads = 0 /\ listing = NoListing
    /\ chosen = win /\ drifted = FALSE /\ raced = {} /\ unheard = {}
    /\ called = 0 /\ moves = 0 /\ painted = 0 /\ listed = 0 /\ faults = 0

-----------------------------------------------------------------------------
(* Making, renaming and deleting labels.                                   *)

\* A call is posted to the account's GmailClient.  (Two equal calls at once are left out: Gmail
\* refuses the second.)
call(op, a, l, name) ==
    /\ called < MaxCalls /\ called' = called + 1
    /\ \A d \in calls : <<d.op, d.account, d.label, d.name>> # <<op, a, l, name>>
    /\ calls' = calls \cup {[op |-> op, account |-> a, label |-> l, name |-> name,
                            at |-> "sent"]}
    /\ UNCHANGED <<gmail, table, phantom, treeVars, reloads, listing, raced, moves, painted,
                   listed, faults>>

onCreateLabel(a, name)    == call("create", a, None, name)
onRenameLabel(a, l, name) ==
    tree[a][l] # None /\ table[a][l] \notin {None, name} /\ call("rename", a, l, name)
onDeleteLabel(a, l) == tree[a][l] # None /\ table[a][l] # None /\ call("delete", a, l, None)

\* What labels.list returns of an account.
Alive(g) == [l \in UserIds |-> IF g[l] = Gone THEN None ELSE g[l]]

\* What Gmail's labels become; it refuses a name that is taken and a label it does not have.
Accepts(c, g) ==
    LET Free == c.name \notin {g[l] : l \in UserIds}
    IN  CASE c.op = "create" -> {[label |-> l, g |-> [g EXCEPT ![l] = c.name]] :
                                    l \in {k \in UserIds : Free /\ g[k] = None}}
          [] c.op = "rename" -> IF Free /\ g[c.label] # Gone
                                THEN {[label |-> c.label, g |-> [g EXCEPT ![c.label] = c.name]]}
                                ELSE {}
          [] OTHER           -> IF g[c.label] # Gone
                                THEN {[label |-> c.label, g |-> [g EXCEPT ![c.label] = Gone]]}
                                ELSE {}

\* The label is out of step for good if a listing that was taken before is still to be
\* stored, or another call about it to be answered.
Overlaps(c, l) ==
    \/ listing.at = "taken" /\ listing.account = c.account /\ c.op # "create"
    \/ \E d \in calls \ {c} : d.account = c.account /\ d.label = l /\ d.at = "granted"

gmailTakes(c) ==
    /\ c.at = "sent"
    /\ IF Accepts(c, gmail[c.account]) = {}
       THEN /\ calls' = (calls \ {c}) \cup {[c EXCEPT !.at = "refused"]}
            /\ UNCHANGED <<gmail, raced, faults>>
       ELSE \E r \in Accepts(c, gmail[c.account]) :
              /\ gmail' = [gmail EXCEPT ![c.account] = r.g]
              /\ \/ /\ calls' = (calls \ {c}) \cup {[c EXCEPT !.at = "granted", !.label = r.label]}
                    /\ raced' = raced \cup (IF Overlaps(c, r.label)
                                            THEN {<<c.account, r.label>>} ELSE {})
                    /\ UNCHANGED faults
                 \/ /\ faults < MaxFaults /\ faults' = faults + 1
                    /\ calls' = (calls \ {c}) \cup {[c EXCEPT !.at = "refused"]}
                    /\ raced' = raced \cup {<<c.account, r.label>>}
    /\ UNCHANGED <<table, phantom, treeVars, reloads, listing, called, moves, painted,
                   listed>>

\* Mutant of stored: a deleted label keeps its row.
storedKept(c) ==
    IF c.op = "delete" \/ (c.op = "rename" /\ table[c.account][c.label] = None) THEN table
    ELSE [table EXCEPT ![c.account][c.label] = c.name]

\* The row as the callback writes it.  Renaming reads the row first: if it has been deleted
\* since, the row that is written has no id.
stored(c) ==
    CASE c.op = "delete" -> [table EXCEPT ![c.account][c.label] = None]
      [] c.op = "rename" /\ table[c.account][c.label] = None -> table
      [] OTHER -> [table EXCEPT ![c.account][c.label] = c.name]

callAnswered(c) ==
    /\ c.at # "sent" /\ calls' = calls \ {c}
    /\ IF c.at = "refused" THEN UNCHANGED <<table, phantom, reloads>>
       ELSE /\ table' = stored(c) /\ reloads' = reloads + 1
            /\ phantom' = IF c.op = "rename" /\ table[c.account][c.label] = None
                          THEN phantom \cup {c.account} ELSE phantom
    /\ UNCHANGED <<gmail, treeVars, listing, raced, boundVars>>

reloadSidebar ==
    /\ reloads > 0 /\ reloads' = reloads - 1 /\ reload(table, phantom)
    /\ UNCHANGED <<gmail, table, phantom, calls, listing, raced, boundVars>>

\* Mail was read or edited, a sync stored some: the same reload, for the counts.
countsReload ==
    /\ painted < MaxReloads /\ painted' = painted + 1 /\ reload(table, phantom)
    /\ UNCHANGED <<gmail, table, phantom, calls, reloads, listing, raced, called, moves,
                   listed, faults>>

-----------------------------------------------------------------------------
(* The initial sync, and what is done to the labels elsewhere.              *)

doInitialSync(a) ==
    /\ listing.at = "off" /\ listed < MaxListings /\ listed' = listed + 1
    /\ listing' = [NoListing EXCEPT !.account = a, !.at = "asked"]
    /\ UNCHANGED <<gmail, table, phantom, treeVars, calls, reloads, raced, called, moves,
                   painted, faults>>

gmailLists ==
    /\ listing.at = "asked"
    /\ listing' = [listing EXCEPT !.at = "taken", !.names = Alive(gmail[listing.account])]
    /\ UNCHANGED <<gmail, table, phantom, treeVars, calls, reloads, raced, boundVars>>

\* Rows are written, none is removed; the tree hears of it if the account is the one in the
\* window, or its service the one the window was built with.
labelsListed ==
    LET a == listing.account
        L == [l \in UserIds \cup System |-> IF l \in System THEN l ELSE listing.names[l]]
    IN  /\ listing.at = "taken" /\ listing' = NoListing
        /\ table' = [table EXCEPT ![a] = [l \in DOMAIN L |->
                                            IF L[l] # None THEN L[l] ELSE table[a][l]]]
        /\ IF a \in {win.account, Home} THEN reload(table', phantom)
           ELSE unheard' = unheard \cup {a} /\ UNCHANGED <<tree, sel, win, chosen, drifted>>
        /\ UNCHANGED <<gmail, phantom, calls, reloads, raced, boundVars>>

\* The cache of an account is dropped; the tree hears of it, in the same turn, if the window is
\* on that account.  A row made after the listing that is still to be stored is lost.
dropCache(a) ==
    /\ faults < MaxFaults /\ faults' = faults + 1
    /\ table' = [table EXCEPT ![a] = [l \in UserIds \cup System |-> None]]
    /\ phantom' = phantom \ {a}
    /\ raced' = raced \cup {k \in {a} \X UserIds :
                    /\ listing.at = "taken" /\ listing.account = a
                    /\ table[a][k[2]] # None /\ listing.names[k[2]] = None}
    /\ IF a = win.account THEN reload(table', phantom')
       ELSE unheard' = unheard \cup {a} /\ UNCHANGED <<tree, sel, win, chosen, drifted>>
    /\ UNCHANGED <<gmail, calls, reloads, listing, called, moves, painted, listed>>

changedElsewhere(a, l, name) ==
    /\ faults < MaxFaults /\ faults' = faults + 1
    /\ gmail[a][l] \notin {name, Gone} /\ (gmail[a][l] = None => name # Gone)
    /\ name = Gone \/ \A k \in UserIds : gmail[a][k] # name
    /\ gmail' = [gmail EXCEPT ![a][l] = name] /\ raced' = raced \cup {<<a, l>>}
    /\ UNCHANGED <<table, phantom, treeVars, calls, reloads, listing, called, moves,
                   painted, listed>>

-----------------------------------------------------------------------------
(* Choosing labels and accounts.                                           *)

choosing ==
    /\ moves < MaxMoves /\ moves' = moves + 1
    /\ UNCHANGED <<gmail, table, phantom, calls, reloads, listing, raced, unheard, called,
                   painted, listed, faults>>

\* A row of the tree is clicked.
onClicked(s) ==
    /\ choosing /\ Found(tree, s)
    /\ sel' = s /\ win' = onLabelSelected(win, s) /\ chosen' = win' /\ drifted' = FALSE
    /\ UNCHANGED tree

\* g i and its like: a label the tree does not have yet is gone to when it has.
onGoToLabel(l) ==
    LET s == [account |-> win.account, label |-> l]
    IN  /\ choosing
        /\ sel' = s /\ win' = selectLabel(win, tree, s)
        /\ chosen' = onLabelSelected(win, s) /\ drifted' = FALSE
        /\ UNCHANGED tree

\* Ctrl+1 .. 9 and the account menu: the window goes to the account's INBOX, or stays with all
\* the inboxes; the sidebar's selection stays behind.
switchToAccount(a) ==
    /\ choosing /\ a # win.account
    /\ win' = [win EXCEPT !.account = a, !.label = Inbox] /\ chosen' = win' /\ drifted' = TRUE
    /\ UNCHANGED <<tree, sel>>

-----------------------------------------------------------------------------
Selectable == [account : Owners, label : UserIds \cup {Inbox}]
                \cup {[account |-> None, label |-> AllInboxes]}

labelCalls ==
    \E a \in Owners :
        \/ \E name \in Names : onCreateLabel(a, name)
        \/ \E l \in UserIds, name \in Names : onRenameLabel(a, l, name)
        \/ \E l \in UserIds : onDeleteLabel(a, l)

LabelsNext ==
    \/ labelCalls
    \/ \E c \in calls : gmailTakes(c) \/ callAnswered(c)
    \/ reloadSidebar \/ countsReload
    \/ \E a \in Owners : doInitialSync(a) \/ dropCache(a)
    \/ gmailLists \/ labelsListed
    \/ \E a \in Owners, l \in UserIds, name \in Names \cup {Gone} : changedElsewhere(a, l, name)
    \/ \E s \in Selectable : onClicked(s)
    \/ \E a \in Owners : switchToAccount(a)
    \/ \E l \in UserIds \cup {Inbox} : onGoToLabel(l)

LabelsSpec == LabelsInit /\ [][LabelsNext]_labelsVars

-----------------------------------------------------------------------------
(* Properties.                                                             *)

Opt == Names \cup {None}
Windows == [account : Owners, label : UserIds \cup {Inbox}, cross : BOOLEAN]
LabelsTypeOK ==
    /\ gmail \in [Owners -> [UserIds -> Opt \cup {Gone}]]
    /\ table \in [Owners -> [UserIds \cup System -> Opt \cup System]] /\ phantom \subseteq Owners
    /\ tree \in [Owners -> [UserIds \cup {Inbox} -> Opt \cup {Inbox}]]
    /\ {win, chosen} \subseteq Windows
    /\ calls \subseteq [op : {"create", "rename", "delete"}, account : Owners,
                        label : UserIds \cup {None}, name : Opt, at : {"sent", "granted", "refused"}]
    /\ listing.at \in {"off", "asked", "taken"} /\ listing.names \in [UserIds -> Opt]
    /\ raced \subseteq Owners \X UserIds /\ unheard \subseteq Owners /\ drifted \in BOOLEAN
    /\ {reloads, called, moves, painted, listed, faults} \subseteq Nat

\* Once every call has been answered and every listing stored, a label that was changed only
\* from here, and not under a listing or another call about it, has in the table the name Gmail
\* has for it, in every account that was ever listed.
LabelsAgree ==
    calls = {} /\ listing.at = "off" =>
        \A a \in Owners : table[a][Inbox] # None =>
            \A l \in UserIds : table[a][l] = Alive(gmail[a])[l] \/ <<a, l>> \in raced

\* With no reload to come, the tree shows the labels of the table under their names, except of
\* an account that was listed, or whose cache was dropped, while the window was on another.
\* A name may be old, but no label be missing or too many, as long as no account that the tree
\* heard of has rows of Gmail's hidden labels (at a first launch, and once the caches were
\* dropped): only then is the fast path ever taken.
HeardHidden ==
    \E a \in Owners \ unheard : \E h \in Hidden : table[a][h] # None
SameKeys(a) == \A l \in UserIds \cup {Inbox} : tree[a][l] = None <=> table[a][l] = None
TreeFollowsTable ==
    reloads = 0 => \A a \in Owners \ unheard :
        tree[a] = Built(table)[a] \/ (~HeardHidden /\ SameKeys(a))

\* Whatever reloads the tree, the window stays at the account and label the user chose, or goes
\* there when the label appears.  (Not if the user chose an account by its key: the sidebar
\* still has the label chosen before, and the next tree built takes the window back to it.)
WindowStaysPut ==
    \/ drifted \/ win = chosen
    \/ ~Found(tree, [account |-> chosen.account, label |-> chosen.label])
=============================================================================
