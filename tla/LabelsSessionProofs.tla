------------------------- MODULE LabelsSessionProofs -------------------------
(***************************************************************************)
(* Theorems about Labels and about Session, which share no state.            *)
(*                                                                         *)
(* Labels: the table agrees with Gmail once every call has been answered,    *)
(* the tree follows the table, from the first launch on, and reloads leave    *)
(* the window where the user put it.                                        *)
(*                                                                         *)
(* Session, for any number of requests, sign-ins and attempts, and for every *)
(* bound on what goes wrong: what a request reports is what Gmail did, and   *)
(* tokens follow the user.                                                  *)
(***************************************************************************)
EXTENDS Labels, Session, SequenceTheorems, TLAPS

-----------------------------------------------------------------------------
(* The types, by what they are about.  Besides LabelsTypeOK: which values a   *)
(* call carries, whose labels a listing has, and what the rows of labels hold. *)

GmailTyped == gmail \in [Owners -> [UserIds -> Opt \cup {Gone}]] /\ raced \subseteq Owners \X UserIds

\* A table of labels: what the trees are built of.
Typed(T) ==
    /\ T \in [Owners -> [UserIds \cup System -> Opt \cup System]]
    /\ \A a \in Owners : (\A l \in UserIds : T[a][l] \in Opt) /\ (\A s \in System : T[a][s] \in {None, s})
TableTyped == Typed(table) /\ phantom \subseteq Owners

Trees == [Owners -> [UserIds \cup {Inbox} -> Opt \cup {Inbox}]]
TreeTyped ==
    /\ tree \in Trees /\ sel \in Selectable /\ {win, chosen} \subseteq Windows
    /\ unheard \subseteq Owners /\ drifted \in BOOLEAN

Calls == [op : {"create", "rename", "delete"}, account : Owners, label : UserIds \cup {None},
          name : Opt, at : {"sent", "granted", "refused"}]
CallsTyped ==
    /\ calls \subseteq Calls
    /\ \A c \in calls :
         /\ c.op = "delete" \/ c.name \in Names
         /\ c.label \in UserIds \/ (c.op = "create" /\ c.at # "granted")

ListingTyped ==
    /\ DOMAIN listing = {"account", "at", "names"} /\ listing.at \in {"off", "asked", "taken"}
    /\ listing.names \in [UserIds -> Opt] /\ (listing.at # "off" => listing.account \in Owners)

CountsTyped ==
    /\ reloads \in Nat /\ called \in Nat /\ moves \in Nat
    /\ painted \in Nat /\ listed \in Nat /\ faults \in Nat

TypeInv ==
    GmailTyped /\ TableTyped /\ TreeTyped /\ CallsTyped /\ ListingTyped /\ CountsTyped

-----------------------------------------------------------------------------
(* What a label's row owes to Gmail.  Where nothing is raced, a row that      *)
(* differs is about to be written: by the one call about the label that Gmail *)
(* has granted, or by a listing that was taken and not yet stored.            *)

Granted(a, l) == \E d \in calls : d.at = "granted" /\ d.account = a /\ d.label = l
Raced(a, l) == <<a, l>> \in raced

\* Nothing here has a label that Gmail has not made.
MadeByGmail ==
    /\ \A a \in Owners, l \in UserIds : table[a][l] # None => gmail[a][l] # None
    /\ \A d \in calls : d.at = "granted" \/ d.op # "create" => gmail[d.account][d.label] # None
    /\ listing.at = "taken" =>
         \A l \in UserIds : listing.names[l] # None => gmail[listing.account][l] # None

\* The rows of the account were dropped, and the listing to come, if it was taken, has l.
Awaited(a, l) ==
    /\ table[a][Inbox] = None
    /\ listing.at = "taken" /\ listing.account = a => listing.names[l] # None

\* A granted call says what Gmail has; a label that is to be renamed or deleted has its row,
\* or is gone, or was dropped with the cache.
CallsTrue == \A d \in calls :
    /\ d.at = "granted" /\ d.op = "delete" => gmail[d.account][d.label] = Gone
    /\ d.at = "granted" /\ d.op # "delete" =>
         gmail[d.account][d.label] = d.name \/ Raced(d.account, d.label)
    /\ d.at # "refused" /\ d.op # "create" =>
         \/ table[d.account][d.label] # None \/ gmail[d.account][d.label] = Gone
         \/ Raced(d.account, d.label) \/ Awaited(d.account, d.label)

\* Of two granted calls about one label, the later was noticed.
OneGranted == \A c, d \in calls :
    /\ c.at = "granted" /\ d.at = "granted" /\ c.account = d.account /\ c.label = d.label
    => c = d \/ Raced(c.account, c.label)

\* A listing names what Gmail still has.  What it does not name is not at Gmail, or was made
\* since and has its row or a call about to write it.
ListingTrue == listing.at = "taken" =>
    \A l \in UserIds : ~ Raced(listing.account, l) =>
        /\ listing.names[l] # None => listing.names[l] = gmail[listing.account][l]
        /\ listing.names[l] = None => \/ Alive(gmail[listing.account])[l] = None
                                      \/ Granted(listing.account, l)
                                      \/ table[listing.account][l] # None

\* A label of a listed account, or with a row, agrees, or its call is about to be answered.
TableTrue == \A a \in Owners, l \in UserIds :
    ~ Raced(a, l) /\ (table[a][Inbox] # None \/ table[a][l] # None)
    => table[a][l] = Alive(gmail[a])[l] \/ Granted(a, l)

LabelsInv == MadeByGmail /\ CallsTrue /\ OneGranted /\ ListingTrue /\ TableTrue

\* The label in the sidebar is the one chosen; and the window is there, or the label is not.
WindowInv ==
    /\ drifted \/ sel.label = AllInboxes
         \/ chosen = [account |-> sel.account, label |-> sel.label, cross |-> FALSE]
    /\ drifted \/ sel.label # AllInboxes \/ (win = chosen /\ win.label = Inbox /\ win.cross)
    /\ WindowStaysPut

-----------------------------------------------------------------------------
(* Types.                                                                  *)

LEMMA Constants ==
    /\ Home \in Owners /\ Inbox \notin UserIds /\ None \notin UserIds /\ AllInboxes \notin UserIds
    /\ Hidden \cap (UserIds \cup {Inbox, None}) = {} /\ UserIds \cap System = {}
    /\ None \notin Names /\ Gone \notin Names /\ None # Gone /\ None # Inbox /\ AllInboxes # Inbox
BY LabelsAssumption DEF Owners, Home, System, Inbox, None, Gone, AllInboxes

LEMMA TypesFollow ==
    ASSUME TypeInv
    PROVE  LabelsTypeOK
<1>1. {reloads, called, moves, painted, listed, faults} \subseteq Nat
  BY DEF TypeInv, CountsTyped
<1> QED BY <1>1 DEF TypeInv, LabelsTypeOK, GmailTyped, TableTyped, Typed, TreeTyped, Trees,
                    CallsTyped, Calls, ListingTyped

LEMMA BuiltType ==
    ASSUME NEW T, Typed(T)
    PROVE  Built(T) \in Trees
<1>1. ASSUME NEW a \in Owners, NEW l \in UserIds \cup {Inbox}
      PROVE  T[a][l] \in Opt \cup {Inbox}
  BY <1>1 DEF Typed, System, Opt
<1> QED BY <1>1 DEF Built, Opt, Trees

\* What every reload does.
LEMMA Reloaded ==
    ASSUME TypeInv, NEW T, NEW P, Typed(T), reload(T, P)
    PROVE  TreeTyped' /\ unheard' = {}
<1>1. Built(T) \in Trees
  BY BuiltType
<1>2. selectLabel(win, Built(T), sel) \in Windows
  <2>1. win \in Windows /\ sel \in Selectable
    BY DEF TypeInv, TreeTyped
  <2>2. sel.label # AllInboxes => sel.account \in Owners /\ sel.label \in UserIds \cup {Inbox}
    BY <2>1 DEF Selectable
  <2> QED BY <2>1, <2>2 DEF selectLabel, onLabelSelected, Windows
<1> QED BY <1>1, <1>2 DEF reload, TypeInv, TreeTyped

LEMMA InitType ==
    ASSUME LabelsInit
    PROVE  TypeInv
<1>1. gmail \in [Owners -> [UserIds -> Opt]]
  BY LabelsAssumption DEF LabelsInit, Opt
<1>2. Typed(table)
  <2> PICK Seeded \in Seedings :
           table = [a \in Owners |-> [l \in UserIds \cup System |->
                      IF a \notin Seeded THEN None ELSE IF l \in System THEN l ELSE gmail[a][l]]]
    BY DEF LabelsInit
  <2>1. ASSUME NEW a \in Owners
        PROVE  /\ DOMAIN table[a] = UserIds \cup System
               /\ \A l \in UserIds \cup System : table[a][l] \in Opt \cup System
               /\ \A l \in UserIds : table[a][l] \in Opt
               /\ \A s \in System : table[a][s] \in {None, s}
               /\ table[a] = [l \in UserIds \cup System |->
                    IF a \notin Seeded THEN None ELSE IF l \in System THEN l ELSE gmail[a][l]]
    BY <1>1, Constants DEF LabelsInit, Opt
  <2>2. DOMAIN table = Owners /\ table = [a \in Owners |-> table[a]]
    BY DEF LabelsInit
  <2>3. \A a \in Owners : table[a] \in [UserIds \cup System -> Opt \cup System]
    BY <2>1
  <2> QED BY <2>1, <2>2, <2>3 DEF Typed
<1>3. GmailTyped /\ TableTyped
  BY <1>1, <1>2 DEF LabelsInit, GmailTyped, TableTyped
<1>4. TreeTyped
  <2>1. tree \in Trees
    BY <1>2, BuiltType DEF LabelsInit
  <2>2. win \in Windows /\ chosen \in Windows /\ sel \in Selectable
    BY Constants DEF LabelsInit, Windows, Selectable
  <2> QED BY <2>1, <2>2 DEF LabelsInit, TreeTyped
<1>5. CallsTyped
  BY DEF LabelsInit, CallsTyped
<1>6. ListingTyped
  BY DEF LabelsInit, ListingTyped, NoListing, Opt
<1>7. CountsTyped
  BY DEF LabelsInit, CountsTyped
<1> QED BY <1>3, <1>4, <1>5, <1>6, <1>7 DEF TypeInv

\* A label call: what is posted.
LEMMA Posted ==
    ASSUME TypeInv, labelCalls
    PROVE  \E c : /\ c \in [op : {"create", "rename", "delete"}, account : Owners,
                             label : UserIds \cup {None}, name : Opt, at : {"sent"}]
                  /\ c.op = "delete" \/ c.name \in Names
                  /\ c.label \in UserIds \/ c.op = "create"
                  /\ c.op # "create" => table[c.account][c.label] # None
                  /\ calls' = calls \cup {c} /\ called' = called + 1
                  /\ UNCHANGED <<gmail, table, phantom, treeVars, reloads, listing, raced, moves,
                                 painted, listed, faults>>
<1>1. ASSUME NEW a \in Owners, NEW name \in Names, onCreateLabel(a, name)
      PROVE  \E c : /\ c = [op |-> "create", account |-> a, label |-> None, name |-> name, at |-> "sent"]
                    /\ calls' = calls \cup {c}
  BY <1>1 DEF onCreateLabel, call
<1>2. ASSUME NEW a \in Owners, NEW l \in UserIds, NEW name \in Names, onRenameLabel(a, l, name)
      PROVE  \E c : /\ c = [op |-> "rename", account |-> a, label |-> l, name |-> name, at |-> "sent"]
                    /\ table[a][l] # None /\ calls' = calls \cup {c}
  BY <1>2 DEF onRenameLabel, call
<1>3. ASSUME NEW a \in Owners, NEW l \in UserIds, onDeleteLabel(a, l)
      PROVE  \E c : /\ c = [op |-> "delete", account |-> a, label |-> l, name |-> None, at |-> "sent"]
                    /\ table[a][l] # None /\ calls' = calls \cup {c}
  BY <1>3 DEF onDeleteLabel, call
<1>4. /\ called' = called + 1
      /\ UNCHANGED <<gmail, table, phantom, treeVars, reloads, listing, raced, moves, painted, listed,
                     faults>>
  BY DEF labelCalls, onCreateLabel, onRenameLabel, onDeleteLabel, call
<1>5. CASE \E a \in Owners, name \in Names : onCreateLabel(a, name)
  <2>1. PICK a \in Owners, name \in Names : onCreateLabel(a, name)
    BY <1>5
  <2>2. PICK c : c = [op |-> "create", account |-> a, label |-> None, name |-> name, at |-> "sent"]
                 /\ calls' = calls \cup {c}
    BY <2>1, <1>1
  <2> QED BY <1>4, <2>2 DEF Opt
<1>6. CASE \E a \in Owners, l \in UserIds, name \in Names : onRenameLabel(a, l, name)
  <2>1. PICK a \in Owners, l \in UserIds, name \in Names : onRenameLabel(a, l, name)
    BY <1>6
  <2>2. PICK c : c = [op |-> "rename", account |-> a, label |-> l, name |-> name, at |-> "sent"]
                 /\ table[a][l] # None /\ calls' = calls \cup {c}
    BY <2>1, <1>2
  <2> QED BY <1>4, <2>2 DEF Opt
<1>7. CASE \E a \in Owners, l \in UserIds : onDeleteLabel(a, l)
  <2>1. PICK a \in Owners, l \in UserIds : onDeleteLabel(a, l)
    BY <1>7
  <2>2. PICK c : c = [op |-> "delete", account |-> a, label |-> l, name |-> None, at |-> "sent"]
                 /\ table[a][l] # None /\ calls' = calls \cup {c}
    BY <2>1, <1>3
  <2> QED BY <1>4, <2>2 DEF Opt
<1> QED BY <1>5, <1>6, <1>7 DEF labelCalls

LEMMA CallFacts ==
    ASSUME TypeInv, NEW c \in calls
    PROVE  /\ c \in Calls /\ c.op \in {"create", "rename", "delete"} /\ c.account \in Owners
           /\ c.op = "delete" \/ c.name \in Names
           /\ c.label \in UserIds \/ c.op = "create"
           /\ c.at = "granted" => c.label \in UserIds
           /\ c.at \in {"sent", "granted", "refused"}
           /\ gmail[c.account] \in [UserIds -> Opt \cup {Gone}]
<1>1. c \in Calls
  BY DEF TypeInv, CallsTyped
<1>2. c.op \in {"create", "rename", "delete"} /\ c.account \in Owners /\ c.at \in {"sent", "granted", "refused"}
  BY <1>1 DEF Calls
<1>3. c.op = "delete" \/ c.name \in Names
  BY DEF TypeInv, CallsTyped
<1>4. c.label \in UserIds \/ (c.op = "create" /\ c.at # "granted")
  BY DEF TypeInv, CallsTyped
<1>5. gmail[c.account] \in [UserIds -> Opt \cup {Gone}]
  BY <1>2 DEF TypeInv, GmailTyped
<1> QED BY <1>1, <1>2, <1>3, <1>4, <1>5

\* Gmail's answer to a call: a label it has now, under the call's name, or that is gone.
Wanted(c) == IF c.op = "delete" THEN Gone ELSE c.name

LEMMA AcceptsWhat ==
    ASSUME TypeInv, NEW c \in calls, NEW r \in Accepts(c, gmail[c.account])
    PROVE  /\ r.label \in UserIds /\ gmail[c.account][r.label] # Gone
           /\ r.g = [gmail[c.account] EXCEPT ![r.label] = Wanted(c)]
           /\ Wanted(c) \in Names \cup {Gone} /\ (c.op # "delete" => Wanted(c) = c.name /\ c.name \in Names)
           /\ c.op # "create" => r.label = c.label
           /\ c.op = "create" => gmail[c.account][r.label] = None
<1>1. /\ c.op \in {"create", "rename", "delete"} /\ gmail[c.account] \in [UserIds -> Opt \cup {Gone}]
      /\ c.op = "delete" \/ c.name \in Names
      /\ c.label \in UserIds \/ c.op = "create"
  BY CallFacts
<1>2. PICK g : g = gmail[c.account]
  OBVIOUS
<1>3. CASE c.op = "create"
  <2>1. PICK l \in UserIds : g[l] = None /\ r = [label |-> l, g |-> [g EXCEPT ![l] = c.name]]
    BY <1>2, <1>3 DEF Accepts
  <2> QED BY <1>1, <1>2, <1>3, <2>1, Constants DEF Wanted
<1>4. CASE c.op = "rename"
  <2>1. g[c.label] # Gone /\ r = [label |-> c.label, g |-> [g EXCEPT ![c.label] = c.name]]
    BY <1>2, <1>4 DEF Accepts
  <2> QED BY <1>1, <1>2, <1>4, <2>1 DEF Wanted
<1>5. CASE c.op = "delete"
  <2>1. g[c.label] # Gone /\ r = [label |-> c.label, g |-> [g EXCEPT ![c.label] = Gone]]
    BY <1>2, <1>5 DEF Accepts
  <2> QED BY <1>1, <1>2, <1>5, <2>1 DEF Wanted
<1> QED BY <1>1, <1>3, <1>4, <1>5

\* What Gmail does with a call: it refuses it, or has the label as the call wants it, and the
\* call says so unless its reply is lost.
Refused(c) == [c EXCEPT !.at = "refused"]
GrantedAs(c, l) == [c EXCEPT !.at = "granted", !.label = l]

LEMMA GmailTakes ==
    ASSUME TypeInv, NEW c \in calls, gmailTakes(c)
    PROVE  /\ c.at = "sent"
           /\ UNCHANGED <<table, phantom, treeVars, reloads, listing, called, moves, painted, listed>>
           /\ \/ UNCHANGED <<gmail, raced, faults>> /\ calls' = (calls \ {c}) \cup {Refused(c)}
              \/ \E r \in Accepts(c, gmail[c.account]) :
                   /\ gmail' = [gmail EXCEPT ![c.account][r.label] = Wanted(c)]
                   /\ \/ /\ calls' = (calls \ {c}) \cup {GrantedAs(c, r.label)}
                         /\ raced' = raced \cup (IF Overlaps(c, r.label) THEN {<<c.account, r.label>>} ELSE {})
                         /\ UNCHANGED faults
                      \/ /\ calls' = (calls \ {c}) \cup {Refused(c)}
                         /\ raced' = raced \cup {<<c.account, r.label>>} /\ faults' = faults + 1
<1>1. c.at = "sent" /\ UNCHANGED <<table, phantom, treeVars, reloads, listing, called, moves, painted, listed>>
  BY DEF gmailTakes
<1>2. CASE Accepts(c, gmail[c.account]) = {}
  BY <1>1, <1>2 DEF gmailTakes, Refused
<1>3. CASE Accepts(c, gmail[c.account]) # {}
  <2>1. PICK r \in Accepts(c, gmail[c.account]) :
          /\ gmail' = [gmail EXCEPT ![c.account] = r.g]
          /\ \/ /\ calls' = (calls \ {c}) \cup {GrantedAs(c, r.label)}
                /\ raced' = raced \cup (IF Overlaps(c, r.label) THEN {<<c.account, r.label>>} ELSE {})
                /\ UNCHANGED faults
             \/ /\ calls' = (calls \ {c}) \cup {Refused(c)}
                /\ raced' = raced \cup {<<c.account, r.label>>} /\ faults' = faults + 1
    BY <1>3 DEF gmailTakes, Refused, GrantedAs
  <2>2. gmail' = [gmail EXCEPT ![c.account][r.label] = Wanted(c)]
    BY <2>1, AcceptsWhat
  <2> QED BY <1>1, <2>1, <2>2
<1> QED BY <1>2, <1>3


LEMMA CallsType ==
    ASSUME TypeInv, labelCalls
    PROVE  TypeInv'
<1>1. PICK c : /\ c \in [op : {"create", "rename", "delete"}, account : Owners,
                         label : UserIds \cup {None}, name : Opt, at : {"sent"}]
               /\ c.op = "delete" \/ c.name \in Names
               /\ c.label \in UserIds \/ c.op = "create"
               /\ calls' = calls \cup {c} /\ called' = called + 1
               /\ UNCHANGED <<gmail, table, phantom, treeVars, reloads, listing, raced, moves,
                              painted, listed, faults>>
  BY Posted, Zenon
<1>2. CallsTyped'
  <2>1. c \in Calls /\ c.at = "sent"
    BY <1>1 DEF Calls
  <2> QED BY <1>1, <2>1 DEF TypeInv, CallsTyped
<1>3. CountsTyped'
  BY <1>1 DEF TypeInv, CountsTyped
<1>4. GmailTyped' /\ TableTyped' /\ ListingTyped'
  BY <1>1 DEF TypeInv, GmailTyped, TableTyped, ListingTyped
<1>5. TreeTyped'
  BY <1>1 DEF TypeInv, TreeTyped, treeVars
<1> QED BY <1>2, <1>3, <1>4, <1>5 DEF TypeInv

LEMMA RefusedType ==
    ASSUME TypeInv, NEW c \in calls, calls' = (calls \ {c}) \cup {Refused(c)}
    PROVE  CallsTyped'
<1>1. PICK d : d = Refused(c)
  OBVIOUS
<1>2. /\ d \in Calls /\ d.op = c.op /\ d.name = c.name /\ d.label = c.label /\ d.at = "refused"
  BY <1>1, CallFacts DEF Calls, Refused
<1>3. (c.op = "delete" \/ c.name \in Names) /\ (c.label \in UserIds \/ c.op = "create")
  BY CallFacts
<1> QED BY <1>1, <1>2, <1>3 DEF TypeInv, CallsTyped

LEMMA GrantedType ==
    ASSUME TypeInv, NEW c \in calls, NEW l \in UserIds, calls' = (calls \ {c}) \cup {GrantedAs(c, l)}
    PROVE  CallsTyped'
<1>1. PICK d : d = GrantedAs(c, l)
  OBVIOUS
<1>2. /\ d \in Calls /\ d.op = c.op /\ d.name = c.name /\ d.label \in UserIds
  BY <1>1, CallFacts DEF Calls, GrantedAs
<1>3. c.op = "delete" \/ c.name \in Names
  BY CallFacts
<1> QED BY <1>1, <1>2, <1>3 DEF TypeInv, CallsTyped

LEMMA TakesType ==
    ASSUME TypeInv, NEW c \in calls, gmailTakes(c)
    PROVE  TypeInv'
<1>1. c.account \in Owners
  BY CallFacts
<1>2. UNCHANGED <<table, phantom, treeVars, reloads, listing, called, moves, painted, listed>>
  BY GmailTakes, Zenon
<1>3. GmailTyped' /\ CallsTyped' /\ faults' \in Nat
  <2>1. CASE UNCHANGED <<gmail, raced, faults>> /\ calls' = (calls \ {c}) \cup {Refused(c)}
    BY <2>1, RefusedType DEF TypeInv, GmailTyped, CountsTyped
  <2>2. ASSUME NEW r \in Accepts(c, gmail[c.account]),
               gmail' = [gmail EXCEPT ![c.account][r.label] = Wanted(c)],
               \/ /\ calls' = (calls \ {c}) \cup {GrantedAs(c, r.label)}
                  /\ raced' = raced \cup (IF Overlaps(c, r.label) THEN {<<c.account, r.label>>} ELSE {})
                  /\ UNCHANGED faults
               \/ /\ calls' = (calls \ {c}) \cup {Refused(c)}
                  /\ raced' = raced \cup {<<c.account, r.label>>} /\ faults' = faults + 1
        PROVE  GmailTyped' /\ CallsTyped' /\ faults' \in Nat
    <3>1. r.label \in UserIds /\ Wanted(c) \in Names \cup {Gone}
      BY AcceptsWhat, Zenon
    <3>2. gmail' \in [Owners -> [UserIds -> Opt \cup {Gone}]]
      BY <1>1, <2>2, <3>1 DEF TypeInv, GmailTyped, Opt
    <3>3. raced' \subseteq Owners \X UserIds
      BY <1>1, <2>2, <3>1 DEF TypeInv, GmailTyped
    <3>4. CallsTyped'
      BY <2>2, <3>1, RefusedType, GrantedType
    <3> QED BY <2>2, <3>2, <3>3, <3>4 DEF GmailTyped, TypeInv, CountsTyped
  <2> QED BY <2>1, <2>2, GmailTakes, Zenon
<1>4. TableTyped' /\ ListingTyped'
  BY <1>2 DEF TypeInv, TableTyped, ListingTyped
<1>5. TreeTyped'
  BY <1>2 DEF TypeInv, TreeTyped, treeVars
<1>6. CountsTyped'
  BY <1>2, <1>3 DEF TypeInv, CountsTyped
<1> QED BY <1>3, <1>4, <1>5, <1>6 DEF TypeInv

LEMMA StoredType ==
    ASSUME TypeInv, NEW c \in calls, c.at = "granted"
    PROVE  Typed(stored(c))
<1>1. /\ c.account \in Owners /\ c.label \in UserIds /\ c.label \notin System
      /\ c.op \in {"create", "rename", "delete"} /\ (c.op = "delete" \/ c.name \in Names)
  BY CallFacts, Constants
<1>2. Typed(table)
  BY DEF TypeInv, TableTyped
<1>3. ASSUME NEW n \in Opt
      PROVE  Typed([table EXCEPT ![c.account][c.label] = n])
  <2>1. PICK R : R = [table[c.account] EXCEPT ![c.label] = n]
    OBVIOUS
  <2>2. /\ R \in [UserIds \cup System -> Opt \cup System]
        /\ \A l \in UserIds : R[l] \in Opt
        /\ \A s \in System : R[s] \in {None, s}
    BY <1>1, <1>2, <2>1 DEF Typed
  <2>3. [table EXCEPT ![c.account][c.label] = n] = [table EXCEPT ![c.account] = R]
    BY <2>1
  <2>4. Typed([table EXCEPT ![c.account] = R])
    BY <1>1, <1>2, <2>2 DEF Typed
  <2> QED BY <2>3, <2>4
<1>4. stored(c) = table \/ \E n \in Opt : stored(c) = [table EXCEPT ![c.account][c.label] = n]
  BY <1>1 DEF stored, Opt
<1> QED BY <1>2, <1>3, <1>4

LEMMA AnsweredType ==
    ASSUME TypeInv, NEW c \in calls, callAnswered(c)
    PROVE  TypeInv'
<1>1. calls' = calls \ {c} /\ UNCHANGED <<gmail, treeVars, listing, raced, boundVars>> /\ c.at # "sent"
  BY DEF callAnswered
<1>2. TableTyped' /\ reloads' \in Nat
  <2>1. CASE c.at = "refused"
    BY <2>1 DEF callAnswered, TypeInv, TableTyped, CountsTyped
  <2>2. CASE c.at # "refused"
    <3>1. table' = stored(c) /\ reloads' = reloads + 1 /\ phantom' \subseteq phantom \cup {c.account}
      BY <2>2 DEF callAnswered
    <3>2. c.at = "granted" /\ c.account \in Owners
      BY <1>1, <2>2, CallFacts
    <3>3. Typed(table')
      BY <3>1, <3>2, StoredType
    <3> QED BY <3>1, <3>2, <3>3 DEF TypeInv, TableTyped, CountsTyped
  <2> QED BY <2>1, <2>2
<1>3. CallsTyped' /\ GmailTyped'
  BY <1>1 DEF TypeInv, CallsTyped, GmailTyped
<1>4. ListingTyped'
  BY <1>1 DEF TypeInv, ListingTyped
<1>5. TreeTyped'
  BY <1>1 DEF TypeInv, TreeTyped, treeVars
<1>6. CountsTyped'
  BY <1>1, <1>2 DEF TypeInv, CountsTyped, boundVars
<1> QED BY <1>2, <1>3, <1>4, <1>5, <1>6 DEF TypeInv

\* What a listing leaves in the table.
Listed ==
    [table EXCEPT ![listing.account] =
        [l \in UserIds \cup System |->
            IF l \in System THEN l
            ELSE IF listing.names[l] # None THEN listing.names[l] ELSE table[listing.account][l]]]

LEMMA LabelsAreListed ==
    ASSUME TypeInv, labelsListed
    PROVE  /\ listing.at = "taken" /\ listing.account \in Owners /\ listing' = NoListing
           /\ table' = Listed /\ Typed(table')
           /\ UNCHANGED <<gmail, phantom, calls, reloads, raced, boundVars>>
           /\ \/ reload(table', phantom)
              \/ unheard' = unheard \cup {listing.account} /\ UNCHANGED <<tree, sel, win, chosen, drifted>>
<1>1. /\ listing.at = "taken" /\ listing' = NoListing
      /\ UNCHANGED <<gmail, phantom, calls, reloads, raced, boundVars>>
      /\ \/ reload(table', phantom)
         \/ unheard' = unheard \cup {listing.account} /\ UNCHANGED <<tree, sel, win, chosen, drifted>>
  BY DEF labelsListed
<1>2. listing.account \in Owners /\ listing.names \in [UserIds -> Opt]
  BY <1>1 DEF TypeInv, ListingTyped
<1> DEFINE L == [l \in UserIds \cup System |-> IF l \in System THEN l ELSE listing.names[l]]
<1>3. table' = [table EXCEPT ![listing.account] =
                  [l \in UserIds \cup System |-> IF L[l] # None THEN L[l] ELSE table[listing.account][l]]]
  BY DEF labelsListed
<1>4. \A l \in UserIds \cup System :
         (IF L[l] # None THEN L[l] ELSE table[listing.account][l])
         = (IF l \in System THEN l
            ELSE IF listing.names[l] # None THEN listing.names[l] ELSE table[listing.account][l])
  BY Constants DEF System
<1>5. table' = Listed
  <2> HIDE DEF L
  <2> QED BY <1>3, <1>4 DEF Listed
<1>6. Typed(table')
  <2>1. Typed(table)
    BY DEF TypeInv, TableTyped
  <2>2. PICK R : R = [l \in UserIds \cup System |->
                        IF l \in System THEN l
                        ELSE IF listing.names[l] # None THEN listing.names[l]
                        ELSE table[listing.account][l]]
    OBVIOUS
  <2>3. /\ R \in [UserIds \cup System -> Opt \cup System]
        /\ \A l \in UserIds : R[l] \in Opt
        /\ \A s \in System : R[s] = s
    BY <1>2, <2>1, <2>2, Constants DEF Typed
  <2>4. table' = [table EXCEPT ![listing.account] = R]
    BY <1>5, <2>2 DEF Listed
  <2> QED BY <1>2, <2>1, <2>3, <2>4 DEF Typed
<1> QED BY <1>1, <1>2, <1>5, <1>6

LEMMA ListedType ==
    ASSUME TypeInv, labelsListed
    PROVE  TypeInv'
<1>1. /\ listing.account \in Owners /\ listing' = NoListing /\ Typed(table')
      /\ UNCHANGED <<gmail, phantom, calls, reloads, raced, boundVars>>
      /\ \/ reload(table', phantom)
         \/ unheard' = unheard \cup {listing.account} /\ UNCHANGED <<tree, sel, win, chosen, drifted>>
  BY LabelsAreListed
<1>2. TreeTyped'
  <2>1. CASE reload(table', phantom)
    BY <1>1, <2>1, Reloaded
  <2>2. CASE UNCHANGED <<tree, sel, win, chosen, drifted>> /\ unheard' = unheard \cup {listing.account}
    BY <1>1, <2>2 DEF TypeInv, TreeTyped
  <2> QED BY <1>1, <2>1, <2>2
<1>3. ListingTyped'
  BY <1>1 DEF ListingTyped, NoListing, Opt
<1>4. TableTyped' /\ GmailTyped' /\ CallsTyped'
  BY <1>1 DEF TypeInv, TableTyped, GmailTyped, CallsTyped
<1>5. CountsTyped'
  BY <1>1 DEF TypeInv, CountsTyped, boundVars
<1> QED BY <1>2, <1>3, <1>4, <1>5 DEF TypeInv

\* What is left of the table once the cache of an account was dropped.
Dropped(a) == [table EXCEPT ![a] = [l \in UserIds \cup System |-> None]]

LEMMA CacheDropped ==
    ASSUME TypeInv, NEW a \in Owners, dropCache(a)
    PROVE  /\ table' = Dropped(a) /\ Typed(table') /\ phantom' \subseteq phantom
           /\ raced \subseteq raced' /\ raced' \subseteq Owners \X UserIds
           /\ \A l \in UserIds : listing.at = "taken" /\ listing.account = a /\ table[a][l] # None
                                  /\ listing.names[l] = None => Raced(a, l)'
           /\ \A l \in UserIds \cup System : table'[a][l] = None
           /\ \A b \in Owners \ {a} : table'[b] = table[b]
           /\ faults' = faults + 1
           /\ \/ reload(table', phantom')
              \/ unheard' = unheard \cup {a} /\ UNCHANGED <<tree, sel, win, chosen, drifted>>
           /\ UNCHANGED <<gmail, calls, reloads, listing, called, moves, painted, listed>>
<1>1. /\ table' = Dropped(a) /\ phantom' \subseteq phantom /\ faults' = faults + 1
      /\ \/ reload(table', phantom')
         \/ unheard' = unheard \cup {a} /\ UNCHANGED <<tree, sel, win, chosen, drifted>>
      /\ UNCHANGED <<gmail, calls, reloads, listing, called, moves, painted, listed>>
  BY DEF dropCache, Dropped
<1>2. Typed(table)
  BY DEF TypeInv, TableTyped
<1>3. PICK R : R = [l \in UserIds \cup System |-> None]
  OBVIOUS
<1>4. /\ R \in [UserIds \cup System -> Opt \cup System]
      /\ \A l \in UserIds \cup System : R[l] = None
      /\ \A l \in UserIds : R[l] \in Opt
  BY <1>3 DEF Opt
<1>5. table' = [table EXCEPT ![a] = R]
  BY <1>1, <1>3 DEF Dropped
<1>6. Typed(table') /\ table'[a] = R /\ \A b \in Owners \ {a} : table'[b] = table[b]
  BY <1>2, <1>4, <1>5 DEF Typed
<1>7. raced' = raced \cup {k \in {a} \X UserIds :
                    /\ listing.at = "taken" /\ listing.account = a
                    /\ table[a][k[2]] # None /\ listing.names[k[2]] = None}
  BY DEF dropCache
<1>8. raced \subseteq raced' /\ raced' \subseteq Owners \X UserIds
  BY <1>7 DEF TypeInv, GmailTyped
<1>9. ASSUME NEW l \in UserIds, listing.at = "taken", listing.account = a, table[a][l] # None,
             listing.names[l] = None
      PROVE  Raced(a, l)'
  <2>1. <<a, l>> \in {a} \X UserIds /\ <<a, l>>[2] = l
    OBVIOUS
  <2> QED BY <1>7, <1>9, <2>1 DEF Raced
<1> QED BY <1>1, <1>4, <1>6, <1>8, <1>9

LEMMA DroppedType ==
    ASSUME TypeInv, NEW a \in Owners, dropCache(a)
    PROVE  TypeInv'
<1>1. /\ Typed(table') /\ phantom' \subseteq phantom /\ raced' \subseteq Owners \X UserIds
      /\ faults' = faults + 1
      /\ \/ reload(table', phantom')
         \/ unheard' = unheard \cup {a} /\ UNCHANGED <<tree, sel, win, chosen, drifted>>
      /\ UNCHANGED <<gmail, calls, reloads, listing, called, moves, painted, listed>>
  BY CacheDropped
<1>2. TreeTyped'
  <2>1. CASE reload(table', phantom')
    BY <1>1, <2>1, Reloaded
  <2>2. CASE UNCHANGED <<tree, sel, win, chosen, drifted>> /\ unheard' = unheard \cup {a}
    BY <2>2 DEF TypeInv, TreeTyped
  <2> QED BY <1>1, <2>1, <2>2
<1>3. TableTyped' /\ GmailTyped' /\ CallsTyped' /\ ListingTyped'
  BY <1>1 DEF TypeInv, TableTyped, GmailTyped, CallsTyped, ListingTyped
<1>4. CountsTyped'
  BY <1>1 DEF TypeInv, CountsTyped
<1> QED BY <1>2, <1>3, <1>4 DEF TypeInv

LEMMA ListingType ==
    ASSUME TypeInv, (\E a \in Owners : doInitialSync(a)) \/ gmailLists
    PROVE  TypeInv'
<1>1. UNCHANGED <<gmail, table, phantom, treeVars, calls, reloads, raced, called, moves, painted, faults>>
  BY DEF doInitialSync, gmailLists, boundVars
<1>2. listed' \in Nat
  <2>1. listed' = listed \/ listed' = listed + 1
    BY DEF doInitialSync, gmailLists, boundVars
  <2> QED BY <2>1 DEF TypeInv, CountsTyped
<1>3. ListingTyped'
  <2>1. ASSUME NEW a \in Owners, doInitialSync(a)
        PROVE  ListingTyped'
    BY <2>1 DEF doInitialSync, NoListing, ListingTyped, Opt
  <2>2. CASE gmailLists
    <3>1. listing.account \in Owners /\ DOMAIN listing = {"account", "at", "names"}
      BY <2>2 DEF gmailLists, TypeInv, ListingTyped
    <3>2. Alive(gmail[listing.account]) \in [UserIds -> Opt]
      BY <3>1 DEF Alive, TypeInv, GmailTyped, Opt
    <3> QED BY <2>2, <3>1, <3>2 DEF gmailLists, ListingTyped
  <2> QED BY <2>1, <2>2
<1>4. TableTyped' /\ GmailTyped' /\ CallsTyped'
  BY <1>1 DEF TypeInv, TableTyped, GmailTyped, CallsTyped
<1>5. TreeTyped'
  BY <1>1 DEF TypeInv, TreeTyped, treeVars
<1>6. CountsTyped'
  BY <1>1, <1>2 DEF TypeInv, CountsTyped
<1> QED BY <1>3, <1>4, <1>5, <1>6 DEF TypeInv

LEMMA ReloadsType ==
    ASSUME TypeInv, reloadSidebar \/ countsReload
    PROVE  TypeInv'
<1>1. UNCHANGED <<gmail, table, phantom, calls, listing, raced, called, moves, listed, faults>> /\ reload(table, phantom)
  BY DEF reloadSidebar, countsReload, boundVars
<1>2. TreeTyped'
  BY <1>1, Reloaded DEF TypeInv, TableTyped
<1>3. CountsTyped'
  <2>1. reloads' \in Nat /\ painted' \in Nat
    BY DEF reloadSidebar, countsReload, boundVars, TypeInv, CountsTyped
  <2> QED BY <1>1, <2>1 DEF TypeInv, CountsTyped
<1>4. TableTyped' /\ GmailTyped' /\ CallsTyped' /\ ListingTyped'
  BY <1>1 DEF TypeInv, TableTyped, GmailTyped, CallsTyped, ListingTyped
<1> QED BY <1>2, <1>3, <1>4 DEF TypeInv

LEMMA ElsewhereType ==
    ASSUME TypeInv, NEW a \in Owners, NEW l \in UserIds, NEW name \in Names \cup {Gone},
           changedElsewhere(a, l, name)
    PROVE  TypeInv'
<1>1. UNCHANGED <<table, phantom, treeVars, calls, reloads, listing, called, moves, painted, listed>>
  BY DEF changedElsewhere
<1>2. GmailTyped'
  BY DEF changedElsewhere, TypeInv, GmailTyped, Opt
<1>3. CountsTyped'
  <2>1. faults' = faults + 1
    BY DEF changedElsewhere
  <2> QED BY <1>1, <2>1 DEF TypeInv, CountsTyped
<1>4. TableTyped' /\ CallsTyped' /\ ListingTyped'
  BY <1>1 DEF TypeInv, TableTyped, CallsTyped, ListingTyped
<1>5. TreeTyped'
  BY <1>1 DEF TypeInv, TreeTyped, treeVars
<1> QED BY <1>2, <1>3, <1>4, <1>5 DEF TypeInv

LEMMA ChoosingType ==
    ASSUME TypeInv,
           \/ \E s \in Selectable : onClicked(s)
           \/ \E a \in Owners : switchToAccount(a)
           \/ \E l \in UserIds \cup {Inbox} : onGoToLabel(l)
    PROVE  TypeInv'
<1>1. /\ UNCHANGED <<gmail, table, phantom, calls, reloads, listing, raced, unheard, called, painted,
                     listed, faults, tree>>
      /\ moves' = moves + 1 /\ drifted' \in BOOLEAN
  BY DEF onClicked, switchToAccount, onGoToLabel, choosing
<1>2. win \in Windows /\ win.account \in Owners
  BY DEF TypeInv, TreeTyped, Windows
<1>3. ASSUME NEW s \in Selectable
      PROVE  onLabelSelected(win, s) \in Windows
  <2>1. s.label # AllInboxes => s.account \in Owners /\ s.label \in UserIds \cup {Inbox}
    BY <1>3 DEF Selectable
  <2> QED BY <1>2, <2>1 DEF onLabelSelected, Windows
<1>4. win' \in Windows /\ chosen' \in Windows /\ sel' \in Selectable
  <2>1. ASSUME NEW s \in Selectable, onClicked(s)
        PROVE  win' \in Windows /\ chosen' \in Windows /\ sel' \in Selectable
    BY <1>3, <2>1 DEF onClicked
  <2>2. ASSUME NEW a \in Owners, switchToAccount(a)
        PROVE  win' \in Windows /\ chosen' \in Windows /\ sel' \in Selectable
    BY <1>2, <2>2 DEF switchToAccount, Windows, TypeInv, TreeTyped
  <2>3. ASSUME NEW l \in UserIds \cup {Inbox}, onGoToLabel(l)
        PROVE  win' \in Windows /\ chosen' \in Windows /\ sel' \in Selectable
    <3>1. PICK s : s = [account |-> win.account, label |-> l]
      OBVIOUS
    <3>2. s \in Selectable
      BY <1>2, <3>1 DEF Selectable
    <3>3. sel' = s /\ win' = selectLabel(win, tree, s) /\ chosen' = onLabelSelected(win, s)
      BY <2>3, <3>1 DEF onGoToLabel
    <3> QED BY <1>2, <1>3, <3>2, <3>3 DEF selectLabel
  <2> QED BY <2>1, <2>2, <2>3
<1>5. TreeTyped'
  BY <1>1, <1>4 DEF TypeInv, TreeTyped
<1>6. CountsTyped'
  BY <1>1 DEF TypeInv, CountsTyped
<1>7. TableTyped' /\ GmailTyped' /\ CallsTyped' /\ ListingTyped'
  BY <1>1 DEF TypeInv, TableTyped, GmailTyped, CallsTyped, ListingTyped
<1> QED BY <1>5, <1>6, <1>7 DEF TypeInv

LEMMA StepType ==
    ASSUME TypeInv, [LabelsNext]_labelsVars
    PROVE  TypeInv'
<1>1. CASE UNCHANGED labelsVars
  BY <1>1 DEF labelsVars, boundVars, TypeInv, GmailTyped, TableTyped, TreeTyped, CallsTyped, ListingTyped,
              CountsTyped
<1>2. CASE LabelsNext
  BY <1>2, CallsType, TakesType, AnsweredType, ReloadsType, ListingType, ListedType,
     DroppedType, ElsewhereType, ChoosingType DEF LabelsNext
<1> QED BY <1>1, <1>2

-----------------------------------------------------------------------------
(* LabelsAgree.                                                            *)

LEMMA AgreeFollows ==
    ASSUME LabelsInv
    PROVE  LabelsAgree
<1>1. SUFFICES ASSUME calls = {}, NEW a \in Owners, table[a][Inbox] # None, NEW l \in UserIds,
                      <<a, l>> \notin raced
               PROVE  table[a][l] = Alive(gmail[a])[l]
  BY DEF LabelsAgree
<1>2. ~ Granted(a, l)
  BY <1>1 DEF Granted
<1> QED BY <1>1, <1>2 DEF LabelsInv, TableTrue, Raced

LEMMA InitLabels ==
    ASSUME LabelsInit
    PROVE  LabelsInv
<1>1. calls = {} /\ listing.at = "off" /\ raced = {}
  BY DEF LabelsInit, NoListing
<1> PICK Seeded \in Seedings :
         table = [a \in Owners |-> [l \in UserIds \cup System |->
                    IF a \notin Seeded THEN None ELSE IF l \in System THEN l ELSE gmail[a][l]]]
  BY DEF LabelsInit
<1>2. ASSUME NEW a \in Owners, NEW l \in UserIds
      PROVE  /\ gmail[a][l] # Gone /\ Alive(gmail[a])[l] = gmail[a][l]
             /\ table[a][l] = (IF a \in Seeded THEN gmail[a][l] ELSE None)
             /\ table[a][Inbox] = (IF a \in Seeded THEN Inbox ELSE None)
  <2>0. gmail = Start
    BY DEF LabelsInit
  <2>1. gmail[a][l] \in Names \cup {None}
    <3>1. Start \in [Owners -> [UserIds -> Names \cup {None}]]
      BY LabelsAssumption, Zenon
    <3> QED BY <2>0, <3>1
  <2>2. l \notin System /\ Inbox \in System
    BY Constants DEF System
  <2>3. table[a] = [k \in UserIds \cup System |->
                      IF a \notin Seeded THEN None ELSE IF k \in System THEN k ELSE gmail[a][k]]
    BY DEF LabelsInit
  <2> QED BY <2>1, <2>2, <2>3, Constants DEF Alive
<1>3. MadeByGmail /\ TableTrue
  BY <1>1, <1>2 DEF MadeByGmail, TableTrue
<1> QED BY <1>1, <1>3 DEF LabelsInv, CallsTrue, OneGranted, ListingTrue

LEMMA QuietLabels ==
    ASSUME LabelsInv, UNCHANGED <<gmail, table, calls, listing, raced>>
    PROVE  LabelsInv'
BY DEF LabelsInv, MadeByGmail, CallsTrue, Awaited, OneGranted, ListingTrue, TableTrue, Granted, Raced

LEMMA CallsLabels ==
    ASSUME TypeInv, LabelsInv, labelCalls
    PROVE  LabelsInv'
<1>1. PICK c : /\ c \in [op : {"create", "rename", "delete"}, account : Owners,
                         label : UserIds \cup {None}, name : Opt, at : {"sent"}]
               /\ c.op = "delete" \/ c.name \in Names
               /\ c.label \in UserIds \/ c.op = "create"
               /\ c.op # "create" => table[c.account][c.label] # None
               /\ calls' = calls \cup {c} /\ called' = called + 1
               /\ UNCHANGED <<gmail, table, phantom, treeVars, reloads, listing, raced, moves,
                              painted, listed, faults>>
  BY Posted, Zenon
<1>2. c.at = "sent" /\ UNCHANGED <<gmail, table, listing, raced>>
  BY <1>1
<1>3. \A d \in calls' : d.at = "granted" => d \in calls
  BY <1>1, <1>2
<1>4. \A a \in Owners, l \in UserIds : Granted(a, l)' <=> Granted(a, l)
  BY <1>1, <1>3 DEF Granted
<1>5. MadeByGmail' /\ OneGranted'
  <2>1. c.op # "create" => gmail[c.account][c.label] # None
    <3>1. c.account \in Owners /\ (c.op # "create" => c.label \in UserIds)
      BY <1>1
    <3> QED BY <1>1, <3>1 DEF LabelsInv, MadeByGmail
  <2>2. \A d \in calls' : d.at = "granted" \/ d.op # "create" => gmail'[d.account][d.label] # None
    BY <1>1, <1>2, <2>1 DEF LabelsInv, MadeByGmail
  <2>3. MadeByGmail'
    BY <1>2, <2>2 DEF LabelsInv, MadeByGmail
  <2> QED BY <1>2, <1>3, <2>3 DEF LabelsInv, OneGranted, Raced
<1>6. CallsTrue'
  <2>1. \A a, l : Awaited(a, l) <=> Awaited(a, l)'
    BY <1>2 DEF Awaited
  <2> QED BY <1>1, <1>2, <1>3, <2>1 DEF LabelsInv, CallsTrue, Raced
<1>7. ListingTrue'
  BY <1>2, <1>4 DEF LabelsInv, ListingTrue, Raced, TypeInv, ListingTyped
<1>8. TableTrue'
  BY <1>2, <1>4 DEF LabelsInv, TableTrue, Raced
<1> QED BY <1>5, <1>6, <1>7, <1>8 DEF LabelsInv

\* A call is refused: no label is owed less, and none more.
LEMMA RefusedLabels ==
    ASSUME TypeInv, LabelsInv, NEW c \in calls, c.at = "sent",
           calls' = (calls \ {c}) \cup {Refused(c)}, UNCHANGED <<gmail, table, listing, raced>>
    PROVE  LabelsInv'
<1>1. PICK d : /\ d = Refused(c) /\ d.at = "refused"
               /\ d.op = c.op /\ d.account = c.account /\ d.label = c.label
  <2>1. c \in Calls
    BY CallFacts
  <2>2. PICK e : e = Refused(c)
    OBVIOUS
  <2>3. e.at = "refused" /\ e.op = c.op /\ e.account = c.account /\ e.label = c.label
    BY <2>1, <2>2 DEF Refused, Calls
  <2> QED BY <2>2, <2>3
<1>2. \A e \in calls' : e.at = "granted" => e \in calls
  BY <1>1
<1>3. \A a \in Owners, l \in UserIds : Granted(a, l)' <=> Granted(a, l)
  BY <1>1, <1>2 DEF Granted
<1>4. MadeByGmail' /\ OneGranted'
  <2>1. \A e \in calls' : e.at = "granted" \/ e.op # "create" => gmail'[e.account][e.label] # None
    BY <1>1 DEF LabelsInv, MadeByGmail
  <2> QED BY <1>2, <2>1 DEF LabelsInv, MadeByGmail, OneGranted, Raced
<1>5. CallsTrue'
  <2>1. \A a, l : Awaited(a, l) <=> Awaited(a, l)'
    BY DEF Awaited
  <2> QED BY <1>1, <1>2, <2>1 DEF LabelsInv, CallsTrue, Raced
<1>6. ListingTrue'
  BY <1>3 DEF LabelsInv, ListingTrue, Raced, TypeInv, ListingTyped
<1>7. TableTrue'
  BY <1>3 DEF LabelsInv, TableTrue, Raced
<1> QED BY <1>4, <1>5, <1>6, <1>7 DEF LabelsInv

\* A call is granted, or done and its reply lost.
LEMMA DoneLabels ==
    ASSUME TypeInv, LabelsInv, NEW c \in calls, c.at = "sent", UNCHANGED <<table, listing>>,
           NEW r \in Accepts(c, gmail[c.account]),
           gmail' = [gmail EXCEPT ![c.account][r.label] = Wanted(c)],
           \/ /\ calls' = (calls \ {c}) \cup {GrantedAs(c, r.label)}
              /\ raced' = raced \cup (IF Overlaps(c, r.label) THEN {<<c.account, r.label>>} ELSE {})
           \/ /\ calls' = (calls \ {c}) \cup {Refused(c)}
              /\ raced' = raced \cup {<<c.account, r.label>>}
    PROVE  LabelsInv'
<1>1. PICK a \in Owners, l \in UserIds : a = c.account /\ l = r.label
  <2>1. r.label \in UserIds /\ c.account \in Owners
    BY CallFacts, AcceptsWhat, Zenon
  <2> QED BY <2>1
<1>2. /\ gmail[a][l] # Gone /\ Wanted(c) \in Names \cup {Gone}
      /\ c.op # "delete" => Wanted(c) = c.name /\ c.name \in Names
      /\ c.op # "create" => l = c.label
      /\ c.op = "create" => gmail[a][l] = None
  <2>1. /\ gmail[c.account][r.label] # Gone /\ Wanted(c) \in Names \cup {Gone}
        /\ c.op # "delete" => Wanted(c) = c.name /\ c.name \in Names
        /\ c.op # "create" => r.label = c.label
        /\ c.op = "create" => gmail[c.account][r.label] = None
    BY AcceptsWhat, Zenon
  <2> QED BY <1>1, <2>1
<1>3. /\ gmail'[a][l] = Wanted(c) /\ Wanted(c) # None
      /\ \A b \in Owners, k \in UserIds : b # a \/ k # l =>
            gmail'[b][k] = gmail[b][k] /\ Alive(gmail'[b])[k] = Alive(gmail[b])[k]
  <2>1. gmail' = [gmail EXCEPT ![a][l] = Wanted(c)]
    BY <1>1
  <2>2. gmail \in [Owners -> [UserIds -> Opt \cup {Gone}]] /\ Wanted(c) # None
    BY <1>2, Constants DEF TypeInv, GmailTyped
  <2>3. /\ gmail'[a][l] = Wanted(c)
        /\ \A b \in Owners, k \in UserIds : b # a \/ k # l => gmail'[b][k] = gmail[b][k]
    BY <2>1, <2>2
  <2> QED BY <2>2, <2>3 DEF Alive
<1>4. PICK f, g : f = Refused(c) /\ g = GrantedAs(c, l)
  OBVIOUS
<1>5. /\ f.at = "refused" /\ f.op = c.op /\ f.account = a /\ f.label = c.label
      /\ g.at = "granted" /\ g.account = a /\ g.label = l /\ g.op = c.op /\ g.name = c.name
  <2>1. c \in Calls
    BY CallFacts
  <2> QED BY <1>1, <1>4, <2>1 DEF Refused, GrantedAs, Calls
<1>6. /\ raced \subseteq raced'
      /\ \/ calls' = (calls \ {c}) \cup {g} /\ (Overlaps(c, l) => Raced(a, l)')
         \/ calls' = (calls \ {c}) \cup {f} /\ Raced(a, l)'
  BY <1>1, <1>4 DEF Raced
<1>7. \A b \in Owners, k \in UserIds : Raced(b, k) => Raced(b, k)'
  BY <1>6 DEF Raced
<1>8. \A d \in calls' :
        \/ d \in calls /\ d # c
        \/ d = f /\ Raced(a, l)'
        \/ d = g /\ (Overlaps(c, l) => Raced(a, l)')
  BY <1>6
<1>9. \A b \in Owners, k \in UserIds : Granted(b, k) => Granted(b, k)'
  BY <1>6 DEF Granted
<1>10. ASSUME ~ Raced(a, l)'
       PROVE  Granted(a, l)' /\ ~ Overlaps(c, l)
  BY <1>5, <1>6, <1>10 DEF Granted
<1>11. ASSUME NEW d \in calls, d # c, d.at = "granted", d.account = a, d.label = l
       PROVE  Raced(a, l)'
  <2>1. Overlaps(c, l)
    BY <1>1, <1>11 DEF Overlaps
  <2> QED BY <1>6, <2>1
<1>12. \A d \in calls : /\ d.account \in Owners /\ (d.at = "granted" => d.label \in UserIds)
                        /\ d.op # "create" => d.label \in UserIds
  BY CallFacts
<1>13. MadeByGmail'
  <2>1. \A b \in Owners, k \in UserIds : gmail[b][k] # None => gmail'[b][k] # None
    BY <1>3
  <2>2. ASSUME NEW d \in calls', d.at = "granted" \/ d.op # "create"
        PROVE  gmail'[d.account][d.label] # None
    <3>1. CASE d \in calls
      BY <1>12, <2>1, <2>2, <3>1 DEF LabelsInv, MadeByGmail
    <3>2. CASE d = f
      BY <1>2, <1>3, <1>5, <2>2, <3>2
    <3>3. CASE d = g
      BY <1>3, <1>5, <3>3
    <3> QED BY <1>8, <3>1, <3>2, <3>3
  <2> QED BY <2>1, <2>2 DEF LabelsInv, MadeByGmail, TypeInv, ListingTyped
<1>14. CallsTrue'
  <2>0. \A b, k : Awaited(b, k) <=> Awaited(b, k)'
    BY DEF Awaited
  <2>1. ASSUME NEW d \in calls, d # c
        PROVE  /\ d.at = "granted" /\ d.op = "delete" => gmail'[d.account][d.label] = Gone
               /\ d.at = "granted" /\ d.op # "delete" =>
                    gmail'[d.account][d.label] = d.name \/ Raced(d.account, d.label)'
               /\ d.at # "refused" /\ d.op # "create" =>
                    \/ table'[d.account][d.label] # None \/ gmail'[d.account][d.label] = Gone
                    \/ Raced(d.account, d.label)' \/ Awaited(d.account, d.label)'
    <3>1. CASE d.account = a /\ d.label = l
      BY <1>2, <1>7, <1>11, <2>0, <2>1, <3>1 DEF LabelsInv, CallsTrue
    <3>2. CASE d.account # a \/ d.label # l
      BY <1>3, <1>7, <1>12, <2>0, <2>1, <3>2 DEF LabelsInv, CallsTrue
    <3> QED BY <3>1, <3>2
  <2>2. /\ g.op = "delete" => gmail'[g.account][g.label] = Gone
        /\ g.op # "delete" => gmail'[g.account][g.label] = g.name
        /\ g.op # "create" =>
             \/ table'[g.account][g.label] # None
             \/ Raced(g.account, g.label)' \/ Awaited(g.account, g.label)'
    <3>1. g.op = "delete" => Wanted(c) = Gone
      BY <1>5 DEF Wanted
    <3>2. g.op # "create" => table[a][l] # None \/ Raced(a, l)' \/ Awaited(a, l)'
      BY <1>1, <1>2, <1>5, <1>7, <2>0 DEF LabelsInv, CallsTrue
    <3> QED BY <1>2, <1>3, <1>5, <3>1, <3>2
  <2> QED BY <1>5, <1>8, <2>1, <2>2 DEF CallsTrue
<1>15. OneGranted'
  <2>1. ASSUME NEW d \in calls', NEW e \in calls', d.at = "granted", e.at = "granted",
               d.account = e.account, d.label = e.label, d # e
        PROVE  Raced(d.account, d.label)'
    <3>1. CASE d \in calls /\ d # c /\ e \in calls /\ e # c
      BY <1>7, <1>12, <2>1, <3>1 DEF LabelsInv, OneGranted
    <3>2. CASE d = g \/ e = g
      BY <1>5, <1>8, <1>11, <2>1, <3>2
    <3> QED BY <1>5, <1>8, <2>1, <3>1, <3>2
  <2> QED BY <2>1 DEF OneGranted
<1>16. ListingTrue'
  <2>1. SUFFICES ASSUME listing.at = "taken", NEW k \in UserIds, ~ Raced(listing.account, k)'
                 PROVE  /\ listing.names[k] # None => listing.names[k] = gmail'[listing.account][k]
                        /\ listing.names[k] = None => \/ Alive(gmail'[listing.account])[k] = None
                                                      \/ Granted(listing.account, k)'
                                                      \/ table'[listing.account][k] # None
    BY DEF ListingTrue
  <2>2. listing.account \in Owners
    BY <2>1 DEF TypeInv, ListingTyped
  <2>3. CASE listing.account = a /\ k = l
    <3>1. c.op = "create"
      BY <1>1, <1>10, <2>1, <2>3 DEF Overlaps
    <3>2. listing.names[k] = None
      BY <1>2, <2>1, <2>3, <3>1 DEF LabelsInv, MadeByGmail
    <3> QED BY <1>10, <2>1, <2>3, <3>2
  <2>4. CASE listing.account # a \/ k # l
    BY <1>3, <1>7, <1>9, <2>1, <2>2, <2>4 DEF LabelsInv, ListingTrue
  <2> QED BY <2>3, <2>4
<1>17. TableTrue'
  <2>1. SUFFICES ASSUME NEW b \in Owners, NEW k \in UserIds, ~ Raced(b, k)',
                        table[b][Inbox] # None \/ table[b][k] # None
                 PROVE  table[b][k] = Alive(gmail'[b])[k] \/ Granted(b, k)'
    BY DEF TableTrue
  <2>2. CASE b = a /\ k = l
    BY <1>10, <2>1, <2>2
  <2>3. CASE b # a \/ k # l
    BY <1>3, <1>7, <1>9, <2>1, <2>3 DEF LabelsInv, TableTrue
  <2> QED BY <2>2, <2>3
<1> QED BY <1>13, <1>14, <1>15, <1>16, <1>17 DEF LabelsInv

LEMMA TakesLabels ==
    ASSUME TypeInv, LabelsInv, NEW c \in calls, gmailTakes(c)
    PROVE  LabelsInv'
<1>1. c.at = "sent" /\ UNCHANGED <<table, listing>>
  BY GmailTakes
<1>2. CASE UNCHANGED <<gmail, raced, faults>> /\ calls' = (calls \ {c}) \cup {Refused(c)}
  BY <1>1, <1>2, RefusedLabels
<1>3. CASE \E r \in Accepts(c, gmail[c.account]) :
             /\ gmail' = [gmail EXCEPT ![c.account][r.label] = Wanted(c)]
             /\ \/ /\ calls' = (calls \ {c}) \cup {GrantedAs(c, r.label)}
                   /\ raced' = raced \cup (IF Overlaps(c, r.label) THEN {<<c.account, r.label>>} ELSE {})
                   /\ UNCHANGED faults
                \/ /\ calls' = (calls \ {c}) \cup {Refused(c)}
                   /\ raced' = raced \cup {<<c.account, r.label>>} /\ faults' = faults + 1
  BY <1>1, <1>3, DoneLabels
<1> QED BY <1>2, <1>3, GmailTakes, Zenon

LEMMA AnsweredLabels ==
    ASSUME TypeInv, LabelsInv, NEW c \in calls, callAnswered(c)
    PROVE  LabelsInv'
<1>1. c.at # "sent" /\ calls' = calls \ {c} /\ UNCHANGED <<gmail, listing, raced>>
  BY DEF callAnswered
<1>2. MadeByGmail /\ CallsTrue /\ OneGranted /\ ListingTrue /\ TableTrue
  BY DEF LabelsInv
<1>3. OneGranted'
  BY <1>1, <1>2 DEF OneGranted, Raced
<1>4. CASE c.at = "refused"
  <2>1. table' = table
    BY <1>4 DEF callAnswered
  <2>2. \A a \in Owners, l \in UserIds : Granted(a, l) => Granted(a, l)'
    BY <1>1, <1>4 DEF Granted
  <2>3. MadeByGmail' /\ CallsTrue'
    BY <1>1, <1>2, <2>1 DEF MadeByGmail, CallsTrue, Awaited, Raced
  <2>4. ListingTrue' /\ TableTrue'
    BY <1>1, <1>2, <2>1, <2>2 DEF ListingTrue, TableTrue, Raced, TypeInv, ListingTyped
  <2> QED BY <1>3, <2>3, <2>4 DEF LabelsInv
<1>5. CASE c.at = "granted"
  <2>1. PICK a \in Owners, l \in UserIds : a = c.account /\ l = c.label
    BY <1>5, CallFacts
  <2>2. table' = stored(c)
    BY <1>5 DEF callAnswered
  <2>3. /\ c.op \in {"create", "rename", "delete"} /\ (c.op = "delete" \/ c.name \in Names)
        /\ Typed(table) /\ gmail[a][l] # None
        /\ c.op = "delete" => gmail[a][l] = Gone
        /\ c.op # "delete" => gmail[a][l] = c.name \/ Raced(a, l)
        /\ c.op # "create" =>
             table[a][l] # None \/ gmail[a][l] = Gone \/ Raced(a, l) \/ Awaited(a, l)
    <3>1. c.op \in {"create", "rename", "delete"} /\ (c.op = "delete" \/ c.name \in Names)
      BY CallFacts
    <3>2. Typed(table) /\ gmail[a][l] # None
      BY <1>2, <1>5, <2>1 DEF TypeInv, TableTyped, MadeByGmail
    <3> QED BY <1>2, <1>5, <2>1, <3>1, <3>2 DEF CallsTrue
  <2>4. /\ \A b \in Owners, k \in UserIds \cup System : b # a \/ k # l => table'[b][k] = table[b][k]
        /\ table'[a][l] = (IF c.op = "delete" THEN None
                           ELSE IF c.op = "rename" /\ table[a][l] = None THEN None ELSE c.name)
    BY <2>1, <2>2, <2>3 DEF stored, Typed
  <2>5. table'[a][l] = None => gmail[a][l] = Gone \/ Raced(a, l) \/ Awaited(a, l)
    BY <2>3, <2>4, Constants
  <2>6. \/ Raced(a, l) \/ table'[a][l] = Alive(gmail[a])[l]
        \/ table'[a][l] = None /\ Awaited(a, l)
    BY <2>3, <2>4, Constants DEF Alive
  <2>0. \A b \in Owners, k \in UserIds : Awaited(b, k) <=> Awaited(b, k)'
    BY <1>1, <2>4, Constants DEF Awaited, System
  <2>7. \A b \in Owners, k \in UserIds : (b # a \/ k # l) /\ Granted(b, k) => Granted(b, k)'
    BY <1>1, <2>1 DEF Granted
  <2>8. \A d \in calls : d.account \in Owners /\ (d.op # "create" => d.label \in UserIds)
    BY CallFacts
  <2>9. MadeByGmail'
    <3>1. \A b \in Owners, k \in UserIds : table'[b][k] # None => gmail[b][k] # None
      BY <1>2, <2>3, <2>4 DEF MadeByGmail
    <3> QED BY <1>1, <1>2, <3>1 DEF MadeByGmail
  <2>10. CallsTrue'
    <3>1. ASSUME NEW d \in calls, d.at # "refused", d.op # "create"
          PROVE  \/ table'[d.account][d.label] # None \/ gmail[d.account][d.label] = Gone
                 \/ Raced(d.account, d.label) \/ Awaited(d.account, d.label)'
      BY <1>2, <2>0, <2>4, <2>5, <2>8, <3>1 DEF CallsTrue
    <3> QED BY <1>1, <1>2, <3>1 DEF CallsTrue, Raced
  <2>11. ListingTrue'
    <3>1. SUFFICES ASSUME listing.at = "taken", NEW k \in UserIds, ~ Raced(listing.account, k)
                   PROVE  /\ listing.names[k] # None => listing.names[k] = gmail[listing.account][k]
                          /\ listing.names[k] = None => \/ Alive(gmail[listing.account])[k] = None
                                                        \/ Granted(listing.account, k)'
                                                        \/ table'[listing.account][k] # None
      BY <1>1 DEF ListingTrue, Raced
    <3>2. listing.account \in Owners
      BY <3>1 DEF TypeInv, ListingTyped
    <3>3. CASE listing.account = a /\ k = l
      <4>1. ~ Raced(a, l)
        BY <3>1, <3>3
      <4>2. Alive(gmail[a])[l] = None \/ table'[a][l] # None \/ listing.names[l] # None
        BY <2>6, <3>1, <3>3, <4>1 DEF Awaited
      <4>3. listing.names[k] # None => listing.names[k] = gmail[listing.account][k]
        BY <1>2, <3>1 DEF ListingTrue
      <4> QED BY <3>3, <4>2, <4>3
    <3>4. CASE listing.account # a \/ k # l
      <4>1. PICK j \in Owners : j = listing.account
        BY <3>2
      <4>2. table'[j][k] = table[j][k] /\ (Granted(j, k) => Granted(j, k)')
        BY <2>4, <2>7, <3>4, <4>1
      <4>3. /\ listing.names[k] # None => listing.names[k] = gmail[j][k]
            /\ listing.names[k] = None => Alive(gmail[j])[k] = None \/ Granted(j, k) \/ table[j][k] # None
        BY <1>2, <3>1, <4>1 DEF ListingTrue
      <4>4. listing.names[k] = None => Alive(gmail[j])[k] = None \/ Granted(j, k)' \/ table'[j][k] # None
        BY <4>2, <4>3
      <4> QED BY <1>1, <4>1, <4>3, <4>4
    <3> QED BY <3>3, <3>4
  <2>12. TableTrue'
    <3>1. SUFFICES ASSUME NEW b \in Owners, NEW k \in UserIds, ~ Raced(b, k),
                          table'[b][Inbox] # None \/ table'[b][k] # None
                   PROVE  table'[b][k] = Alive(gmail[b])[k] \/ Granted(b, k)'
      BY <1>1 DEF TableTrue, Raced
    <3>2. CASE b = a /\ k = l
      <4>1. Awaited(a, l) => table'[a][Inbox] = None
        BY <2>4, Constants DEF Awaited, System
      <4> QED BY <2>6, <3>1, <3>2, <4>1
    <3>3. CASE b # a \/ k # l
      <4>1. table'[b][Inbox] = table[b][Inbox] /\ table'[b][k] = table[b][k]
        BY <2>4, <3>3, Constants DEF System
      <4> QED BY <1>2, <2>7, <3>1, <3>3, <4>1 DEF TableTrue
    <3> QED BY <3>2, <3>3
  <2> QED BY <1>3, <2>9, <2>10, <2>11, <2>12 DEF LabelsInv
<1> QED BY <1>1, <1>4, <1>5, CallFacts

LEMMA ListingLabels ==
    ASSUME TypeInv, LabelsInv, (\E a \in Owners : doInitialSync(a)) \/ gmailLists
    PROVE  LabelsInv'
<1>1. UNCHANGED <<gmail, table, calls, raced>>
  BY DEF doInitialSync, gmailLists
<1>2. OneGranted' /\ TableTrue'
  BY <1>1 DEF LabelsInv, OneGranted, TableTrue, Granted, Raced
<1>0. \A d \in calls : d.account \in Owners /\ (d.op # "create" => d.label \in UserIds)
  BY CallFacts
<1>3. CASE \E a \in Owners : doInitialSync(a)
  <2>1. listing'.at = "asked"
    BY <1>3 DEF doInitialSync, NoListing
  <2>2. CallsTrue'
    BY <1>1, <2>1 DEF LabelsInv, CallsTrue, Raced, Awaited
  <2> QED BY <1>1, <1>2, <2>1, <2>2 DEF LabelsInv, MadeByGmail, ListingTrue
<1>4. CASE gmailLists
  <2>1. /\ listing.account \in Owners /\ listing'.account = listing.account
        /\ listing'.names = Alive(gmail[listing.account])
    BY <1>4 DEF gmailLists, TypeInv, ListingTyped
  <2>2. \A l \in UserIds : Alive(gmail[listing.account])[l] # None =>
          /\ gmail[listing.account][l] # None
          /\ Alive(gmail[listing.account])[l] = gmail[listing.account][l]
    BY DEF Alive
  <2>3. MadeByGmail'
    BY <1>1, <2>1, <2>2 DEF LabelsInv, MadeByGmail
  <2>4. ListingTrue'
    BY <1>1, <2>1, <2>2 DEF ListingTrue
  <2>5. CallsTrue'
    <3>1. ASSUME NEW d \in calls, d.at # "refused", d.op # "create"
          PROVE  \/ table[d.account][d.label] # None \/ gmail[d.account][d.label] = Gone
                 \/ Raced(d.account, d.label) \/ Awaited(d.account, d.label)'
      <4>1. gmail[d.account][d.label] # None
        BY <3>1 DEF LabelsInv, MadeByGmail
      <4>2. listing.account = d.account /\ gmail[d.account][d.label] # Gone
            => listing'.names[d.label] # None
        BY <1>0, <2>1, <3>1, <4>1 DEF Alive
      <4> QED BY <1>1, <2>1, <3>1, <4>2 DEF LabelsInv, CallsTrue, Awaited
    <3> QED BY <1>1, <3>1 DEF LabelsInv, CallsTrue, Raced
  <2> QED BY <1>2, <2>3, <2>4, <2>5 DEF LabelsInv
<1> QED BY <1>3, <1>4

LEMMA ListedLabels ==
    ASSUME TypeInv, LabelsInv, labelsListed
    PROVE  LabelsInv'
<1>1. /\ listing.at = "taken" /\ listing.account \in Owners /\ listing' = NoListing
      /\ table' = Listed /\ UNCHANGED <<gmail, calls, raced>>
  BY LabelsAreListed
<1>2. PICK a \in Owners : a = listing.account
  BY <1>1
<1>3. MadeByGmail /\ CallsTrue /\ OneGranted /\ ListingTrue /\ TableTrue
  BY DEF LabelsInv
<1>4. listing'.at = "off" /\ OneGranted' /\ ListingTrue'
  BY <1>1, <1>3 DEF NoListing, OneGranted, Raced, ListingTrue
<1>5. /\ \A b \in Owners, k \in UserIds \cup System : b # a => table'[b][k] = table[b][k]
      /\ \A k \in UserIds : table'[a][k] = (IF listing.names[k] # None THEN listing.names[k] ELSE table[a][k])
  <2>1. Typed(table) /\ \A k \in UserIds : k \notin System
    BY Constants DEF TypeInv, TableTyped
  <2> QED BY <1>1, <1>2, <2>1 DEF Listed, Typed
<1>6. \A b \in Owners, k \in UserIds : Granted(b, k)' <=> Granted(b, k)
  BY <1>1 DEF Granted
<1>7. \A b \in Owners, k \in UserIds : table[b][k] # None => table'[b][k] # None
  BY <1>5
<1>8. MadeByGmail'
  <2>1. \A b \in Owners, k \in UserIds : table'[b][k] # None => gmail[b][k] # None
    BY <1>1, <1>2, <1>3, <1>5 DEF MadeByGmail
  <2> QED BY <1>1, <1>3, <1>4, <2>1 DEF MadeByGmail
<1>9. CallsTrue'
  <2>1. \A d \in calls : d.account \in Owners /\ (d.op # "create" => d.label \in UserIds)
    BY CallFacts
  <2>2. ASSUME NEW b \in Owners, NEW k \in UserIds, Awaited(b, k)
        PROVE  table'[b][k] # None \/ Awaited(b, k)'
    <3>1. CASE b = a
      BY <1>1, <1>2, <1>5, <2>2, <3>1 DEF Awaited
    <3>2. CASE b # a
      BY <1>4, <1>5, <2>2, <3>2 DEF Awaited, System
    <3> QED BY <3>1, <3>2
  <2> QED BY <1>1, <1>3, <1>7, <2>1, <2>2 DEF CallsTrue, Raced
<1>10. TableTrue'
  <2>1. SUFFICES ASSUME NEW b \in Owners, NEW k \in UserIds, ~ Raced(b, k),
                        table'[b][Inbox] # None \/ table'[b][k] # None
                 PROVE  table'[b][k] = Alive(gmail[b])[k] \/ Granted(b, k)
    BY <1>1, <1>6 DEF TableTrue, Raced
  <2>2. CASE b # a
    <3>1. table'[b][Inbox] = table[b][Inbox] /\ table'[b][k] = table[b][k]
      BY <1>5, <2>2 DEF System
    <3> QED BY <1>3, <2>1, <3>1 DEF TableTrue
  <2>3. CASE b = a /\ listing.names[k] # None
    <3>1. table'[a][k] = listing.names[k] /\ listing.names[k] = gmail[a][k]
      BY <1>1, <1>2, <1>3, <1>5, <2>1, <2>3 DEF ListingTrue
    <3>2. listing.names[k] \in Names
      BY <2>3 DEF TypeInv, ListingTyped, Opt
    <3>3. gmail[a][k] # Gone
      BY <3>1, <3>2, Constants
    <3> QED BY <2>3, <3>1, <3>3 DEF Alive
  <2>4. CASE b = a /\ listing.names[k] = None
    <3>1. table'[a][k] = table[a][k]
      BY <1>5, <2>4
    <3>2. \/ Alive(gmail[a])[k] = None \/ Granted(a, k) \/ table[a][k] # None
      BY <1>1, <1>2, <1>3, <2>1, <2>4 DEF ListingTrue
    <3>3. CASE table[a][k] # None
      BY <1>3, <2>1, <2>4, <3>1, <3>3 DEF TableTrue
    <3> QED BY <2>4, <3>1, <3>2, <3>3
  <2> QED BY <2>2, <2>3, <2>4
<1> QED BY <1>4, <1>8, <1>9, <1>10 DEF LabelsInv

LEMMA ElsewhereLabels ==
    ASSUME TypeInv, LabelsInv, NEW a \in Owners, NEW l \in UserIds, NEW name \in Names \cup {Gone},
           changedElsewhere(a, l, name)
    PROVE  LabelsInv'
<1>1. /\ gmail[a][l] # Gone /\ gmail' = [gmail EXCEPT ![a][l] = name] /\ raced' = raced \cup {<<a, l>>}
      /\ UNCHANGED <<table, calls, listing>>
  BY DEF changedElsewhere
<1>2. /\ gmail'[a][l] # None
      /\ \A b \in Owners, k \in UserIds : b # a \/ k # l =>
            gmail'[b][k] = gmail[b][k] /\ Alive(gmail'[b])[k] = Alive(gmail[b])[k]
  <2>1. PICK w \in Names \cup {Gone} : w = name
    OBVIOUS
  <2>2. gmail' = [gmail EXCEPT ![a][l] = w]
    BY <1>1, <2>1
  <2>3. gmail \in [Owners -> [UserIds -> Opt \cup {Gone}]] /\ w # None
    BY Constants DEF TypeInv, GmailTyped
  <2>4. gmail'[a][l] = w /\ \A b \in Owners, k \in UserIds : b # a \/ k # l => gmail'[b][k] = gmail[b][k]
    BY <2>2, <2>3
  <2> QED BY <2>3, <2>4 DEF Alive
<1>3. Raced(a, l)' /\ \A b \in Owners, k \in UserIds : Raced(b, k) => Raced(b, k)'
  BY <1>1 DEF Raced
<1>4. \A d \in calls : /\ d.account \in Owners /\ (d.at = "granted" => d.label \in UserIds)
                       /\ d.op # "create" => d.label \in UserIds
  BY CallFacts
<1>5. \A b \in Owners, k \in UserIds : Granted(b, k)' <=> Granted(b, k)
  BY <1>1 DEF Granted
<1>6. MadeByGmail'
  <2>1. \A b \in Owners, k \in UserIds : gmail[b][k] # None => gmail'[b][k] # None
    BY <1>2
  <2> QED BY <1>1, <1>4, <2>1 DEF LabelsInv, MadeByGmail, TypeInv, ListingTyped
<1>7. CallsTrue'
  <2>1. ASSUME NEW d \in calls
        PROVE  /\ d.at = "granted" /\ d.op = "delete" => gmail'[d.account][d.label] = Gone
               /\ d.at = "granted" /\ d.op # "delete" =>
                    gmail'[d.account][d.label] = d.name \/ Raced(d.account, d.label)'
               /\ d.at # "refused" /\ d.op # "create" =>
                    \/ table[d.account][d.label] # None \/ gmail'[d.account][d.label] = Gone
                    \/ Raced(d.account, d.label)' \/ Awaited(d.account, d.label)'
    <3>0. \A b, k : Awaited(b, k) <=> Awaited(b, k)'
      BY <1>1 DEF Awaited
    <3>1. CASE d.account = a /\ d.label = l
      BY <1>1, <1>3, <3>1 DEF LabelsInv, CallsTrue
    <3>2. CASE d.account # a \/ d.label # l
      BY <1>2, <1>3, <1>4, <3>0, <3>2 DEF LabelsInv, CallsTrue
    <3> QED BY <3>1, <3>2
  <2> QED BY <1>1, <2>1 DEF CallsTrue
<1>8. OneGranted'
  BY <1>1, <1>3, <1>4 DEF LabelsInv, OneGranted
<1>9. ListingTrue'
  BY <1>1, <1>2, <1>3, <1>5 DEF LabelsInv, ListingTrue, TypeInv, ListingTyped
<1>10. TableTrue'
  BY <1>1, <1>2, <1>3, <1>5 DEF LabelsInv, TableTrue
<1> QED BY <1>6, <1>7, <1>8, <1>9, <1>10 DEF LabelsInv

\* The rows of an account are gone: its labels are awaited, but those the listing to come lacks.
LEMMA DroppedLabels ==
    ASSUME TypeInv, LabelsInv, NEW a \in Owners, dropCache(a)
    PROVE  LabelsInv'
<1>1. /\ raced \subseteq raced' /\ UNCHANGED <<gmail, calls, listing>>
      /\ \A l \in UserIds : listing.at = "taken" /\ listing.account = a /\ table[a][l] # None
                            /\ listing.names[l] = None => Raced(a, l)'
      /\ \A l \in UserIds \cup System : table'[a][l] = None
      /\ \A b \in Owners \ {a} : table'[b] = table[b]
  BY CacheDropped
<1>2. MadeByGmail /\ CallsTrue /\ OneGranted /\ ListingTrue /\ TableTrue
  BY DEF LabelsInv
<1>3. \A b, l : (Raced(b, l) => Raced(b, l)') /\ (Granted(b, l) <=> Granted(b, l)')
  BY <1>1 DEF Raced, Granted
<1>4. MadeByGmail'
  BY <1>1, <1>2 DEF MadeByGmail
<1>5. OneGranted'
  BY <1>1, <1>2, <1>3 DEF OneGranted
<1>6. CallsTrue'
  <2>1. ASSUME NEW d \in calls, d.at # "refused", d.op # "create"
        PROVE  \/ table'[d.account][d.label] # None \/ gmail[d.account][d.label] = Gone
               \/ Raced(d.account, d.label)' \/ Awaited(d.account, d.label)'
    <3>1. d.account \in Owners /\ d.label \in UserIds
      BY <2>1, CallFacts
    <3>2. \/ table[d.account][d.label] # None \/ gmail[d.account][d.label] = Gone
          \/ Raced(d.account, d.label) \/ Awaited(d.account, d.label)
      BY <1>2, <2>1 DEF CallsTrue
    <3>3. CASE d.account # a
      BY <1>1, <1>3, <3>1, <3>2, <3>3 DEF Awaited
    <3>4. CASE d.account = a
      <4>1. table'[a][Inbox] = None
        BY <1>1 DEF System
      <4> QED BY <1>1, <1>3, <3>1, <3>2, <3>4, <4>1 DEF Awaited
    <3> QED BY <3>3, <3>4
  <2> QED BY <1>1, <1>2, <1>3, <2>1 DEF CallsTrue
<1>7. ListingTrue'
  <2>1. SUFFICES ASSUME listing.at = "taken", NEW l \in UserIds, ~ Raced(listing.account, l)'
                 PROVE  /\ listing.names[l] # None => listing.names[l] = gmail[listing.account][l]
                        /\ listing.names[l] = None => \/ Alive(gmail[listing.account])[l] = None
                                                      \/ Granted(listing.account, l)'
                                                      \/ table'[listing.account][l] # None
    BY <1>1 DEF ListingTrue
  <2>2. listing.account \in Owners /\ ~ Raced(listing.account, l)
    BY <1>1, <1>3, <2>1 DEF TypeInv, ListingTyped, Raced
  <2> QED BY <1>1, <1>2, <1>3, <2>1, <2>2 DEF ListingTrue
<1>8. TableTrue'
  <2>1. table'[a][Inbox] = None
    BY <1>1 DEF System
  <2> QED BY <1>1, <1>2, <1>3, <2>1 DEF TableTrue
<1> QED BY <1>4, <1>5, <1>6, <1>7, <1>8 DEF LabelsInv

LEMMA StepLabels ==
    ASSUME TypeInv, LabelsInv, [LabelsNext]_labelsVars
    PROVE  LabelsInv'
<1>1. CASE \/ UNCHANGED labelsVars \/ reloadSidebar \/ countsReload
           \/ \E s \in Selectable : onClicked(s)
           \/ \E a \in Owners : switchToAccount(a)
           \/ \E l \in UserIds \cup {Inbox} : onGoToLabel(l)
  <2>1. UNCHANGED <<gmail, table, calls, listing, raced>>
    BY <1>1 DEF labelsVars, reloadSidebar, countsReload, onClicked, switchToAccount, onGoToLabel, choosing
  <2> QED BY <2>1, QuietLabels
<1>2. CASE \E c \in calls : gmailTakes(c) \/ callAnswered(c)
  BY <1>2, TakesLabels, AnsweredLabels
<1>3. CASE \E a \in Owners, l \in UserIds, name \in Names \cup {Gone} : changedElsewhere(a, l, name)
  BY <1>3, ElsewhereLabels
<1> QED BY <1>1, <1>2, <1>3, CallsLabels, ListingLabels, ListedLabels, DroppedLabels DEF LabelsNext

\* Everything LabelsAgree rests on, and the types.
THEOREM LabelsInvAlways == LabelsSpec => [](TypeInv /\ LabelsInv)
<1>1. LabelsInit => TypeInv /\ LabelsInv
  BY InitType, InitLabels
<1>2. TypeInv /\ LabelsInv /\ [LabelsNext]_labelsVars => (TypeInv /\ LabelsInv)'
  BY StepType, StepLabels
<1> QED BY <1>1, <1>2, PTL DEF LabelsSpec

\* The types, for every value of the constants.
THEOREM LabelsTypeOKAlways == LabelsSpec => []LabelsTypeOK
<1>1. TypeInv => LabelsTypeOK
  BY TypesFollow
<1> QED BY <1>1, LabelsInvAlways, PTL

\* When every call has been answered and every listing stored, the table has Gmail's name for
\* each label that was changed only from here, and one at a time.
THEOREM LabelsAgreeAlways == LabelsSpec => []LabelsAgree
<1>1. LabelsInv => LabelsAgree
  BY AgreeFollows
<1> QED BY <1>1, LabelsInvAlways, PTL

-----------------------------------------------------------------------------
(* WindowStaysPut.                                                         *)

\* However the tree is built again, the selected label takes the window where it was chosen.
LEMMA ReloadWindow ==
    ASSUME TypeInv, WindowInv, NEW T, NEW P, reload(T, P)
    PROVE  WindowInv'
<1>1. UNCHANGED <<sel, chosen, drifted>>
  BY DEF reload
<1>2. CASE UNCHANGED <<tree, win>>
  BY <1>1, <1>2 DEF WindowInv, WindowStaysPut, Found
<1>3. CASE win' = selectLabel(win, tree', sel)
  <2>1. CASE drifted
    BY <1>1, <2>1 DEF WindowInv, WindowStaysPut
  <2>2. CASE ~ drifted /\ sel.label = AllInboxes
    <3>1. win = chosen /\ win.label = Inbox /\ win.cross /\ win \in Windows
      BY <2>2 DEF WindowInv, TypeInv, TreeTyped
    <3>2. win' = [win EXCEPT !.label = Inbox, !.cross = TRUE]
      BY <1>3, <2>2 DEF selectLabel, Found, onLabelSelected
    <3>3. win' = win
      BY <3>1, <3>2 DEF Windows
    <3> QED BY <1>1, <2>2, <3>1, <3>3 DEF WindowInv, WindowStaysPut
  <2>3. CASE ~ drifted /\ sel.label # AllInboxes
    <3>1. chosen = [account |-> sel.account, label |-> sel.label, cross |-> FALSE]
      BY <2>3 DEF WindowInv
    <3>2. CASE Found(tree', sel)
      <4>1. win' = chosen
        BY <1>3, <2>3, <3>1, <3>2 DEF selectLabel, onLabelSelected
      <4> QED BY <1>1, <2>3, <3>1, <4>1 DEF WindowInv, WindowStaysPut
    <3>3. CASE ~ Found(tree', sel)
      <4>1. ~ Found(tree', [account |-> chosen.account, label |-> chosen.label])
        BY <3>1, <3>3 DEF Found
      <4> QED BY <1>1, <2>3, <3>1, <4>1 DEF WindowInv, WindowStaysPut
    <3> QED BY <3>2, <3>3
  <2> QED BY <2>1, <2>2, <2>3
<1> QED BY <1>2, <1>3 DEF reload

LEMMA QuietWindow ==
    ASSUME WindowInv, UNCHANGED <<tree, sel, win, chosen, drifted>>
    PROVE  WindowInv'
BY DEF WindowInv, WindowStaysPut, Found

LEMMA StepWindow ==
    ASSUME TypeInv, WindowInv, [LabelsNext]_labelsVars
    PROVE  WindowInv'
<1>1. CASE \/ UNCHANGED labelsVars \/ labelCalls \/ (\E c \in calls : gmailTakes(c) \/ callAnswered(c))
           \/ (\E a \in Owners : doInitialSync(a)) \/ gmailLists
           \/ \E a \in Owners, l \in UserIds, name \in Names \cup {Gone} : changedElsewhere(a, l, name)
  <2>1. UNCHANGED <<tree, sel, win, chosen, drifted>>
    BY <1>1 DEF labelsVars, labelCalls, onCreateLabel, onRenameLabel, onDeleteLabel, call, gmailTakes, callAnswered,
                doInitialSync, gmailLists, changedElsewhere, treeVars
  <2> QED BY <2>1, QuietWindow
<1>2. CASE reloadSidebar \/ countsReload
  BY <1>2, ReloadWindow DEF reloadSidebar, countsReload
<1>3. ASSUME labelsListed \/ \E a \in Owners : dropCache(a)
      PROVE  WindowInv'
  <2>1. CASE \E P : reload(table', P)
    BY <2>1, ReloadWindow
  <2>2. CASE UNCHANGED <<tree, sel, win, chosen, drifted>>
    BY <2>2, QuietWindow
  <2> QED BY <1>3, <2>1, <2>2 DEF labelsListed, dropCache
<1>4. ASSUME NEW s \in Selectable, onClicked(s)
      PROVE  WindowInv'
  <2>1. /\ sel' = s /\ win' = onLabelSelected(win, s) /\ chosen' = win'
    BY <1>4 DEF onClicked
  <2>2. s.label # AllInboxes => win' = [account |-> s.account, label |-> s.label, cross |-> FALSE]
    BY <2>1 DEF onLabelSelected
  <2>3. s.label = AllInboxes => win'.label = Inbox /\ win'.cross
    <3>1. win \in Windows
      BY DEF TypeInv, TreeTyped
    <3> QED BY <2>1, <3>1 DEF onLabelSelected, Windows
  <2> QED BY <2>1, <2>2, <2>3 DEF WindowInv, WindowStaysPut
<1>5. ASSUME NEW a \in Owners, switchToAccount(a)
      PROVE  WindowInv'
  <2>1. drifted' = TRUE
    BY <1>5 DEF switchToAccount
  <2> QED BY <2>1 DEF WindowInv, WindowStaysPut
<1>6. ASSUME NEW l \in UserIds \cup {Inbox}, onGoToLabel(l)
      PROVE  WindowInv'
  <2>1. PICK s : s = [account |-> win.account, label |-> l]
    OBVIOUS
  <2>2. /\ sel' = s /\ win' = selectLabel(win, tree, s) /\ chosen' = onLabelSelected(win, s) /\ tree' = tree
    BY <1>6, <2>1 DEF onGoToLabel
  <2>3. s.label # AllInboxes
    BY <2>1, Constants
  <2>4. chosen' = [account |-> s.account, label |-> s.label, cross |-> FALSE]
    BY <2>2, <2>3 DEF onLabelSelected
  <2>5. win' = chosen' \/ ~ Found(tree', [account |-> chosen'.account, label |-> chosen'.label])
    <3>1. [account |-> chosen'.account, label |-> chosen'.label] = s
      BY <2>1, <2>4
    <3> QED BY <2>2, <3>1 DEF selectLabel
  <2> QED BY <2>2, <2>3, <2>4, <2>5 DEF WindowInv, WindowStaysPut
<1> QED BY <1>1, <1>2, <1>3, <1>4, <1>5, <1>6 DEF LabelsNext

\* Whatever reloads the tree, the window stays where the user put it, or the label is not there,
\* unless the account was chosen by its key.
THEOREM WindowStaysPutAlways == LabelsSpec => []WindowStaysPut
<1>1. LabelsInit => WindowInv
  <2>1. ASSUME LabelsInit
        PROVE  /\ win = chosen /\ sel.label # AllInboxes
               /\ chosen = [account |-> sel.account, label |-> sel.label, cross |-> FALSE]
    BY <2>1, Constants DEF LabelsInit
  <2> QED BY <2>1 DEF WindowInv, WindowStaysPut
<1>2. TypeInv /\ WindowInv /\ [LabelsNext]_labelsVars => WindowInv'
  BY StepWindow
<1>3. WindowInv => WindowStaysPut
  BY DEF WindowInv
<1> QED BY <1>1, <1>2, <1>3, LabelsInvAlways, PTL DEF LabelsSpec

-----------------------------------------------------------------------------
(* TreeFollowsTable.  A reload that finds the tree's labels in the table      *)
(* writes no names; while an account has rows the tree has no place for, no   *)
(* reload does.  What a listing or a dropped cache changes behind the tree is *)
(* of an account that was not heard of.                                     *)

\* A reload builds the tree, or the table has the tree's labels and no hidden one.
LEMMA ReloadTree ==
    ASSUME NEW T, NEW P, reload(T, P)
    PROVE  /\ unheard' = {}
           /\ \/ tree' = Built(T)
              \/ /\ tree' = tree
                 /\ \A a \in Owners : \A h \in Hidden : T[a][h] = None
                 /\ \A a \in Owners : \A l \in UserIds \cup {Inbox} : tree[a][l] = None <=> T[a][l] = None
<1>1. CASE sameLabelSet(T, P)
  <2>1. tree' = tree /\ unheard' = {} /\ TreeKeys = RowKeys(T, P)
    BY <1>1 DEF reload, sameLabelSet
  <2>2. ASSUME NEW a \in Owners, NEW h \in Hidden
        PROVE  T[a][h] = None
    <3>1. <<a, h>> \notin TreeKeys
      BY Constants DEF TreeKeys
    <3> QED BY <2>1, <3>1 DEF RowKeys, System
  <2>3. ASSUME NEW a \in Owners, NEW l \in UserIds \cup {Inbox}
        PROVE  tree[a][l] = None <=> T[a][l] = None
    <3>1. <<a, l>> \in TreeKeys <=> tree[a][l] # None
      BY DEF TreeKeys
    <3>2. l # ""
      BY LabelsAssumption DEF Inbox
    <3>3. <<a, l>> \in RowKeys(T, P) <=> T[a][l] # None
      BY <3>2 DEF RowKeys, System
    <3> QED BY <2>1, <3>1, <3>3
  <2> QED BY <2>1, <2>2, <2>3
<1>2. CASE ~ sameLabelSet(T, P)
  BY <1>2 DEF reload
<1> QED BY <1>1, <1>2

LEMMA ReloadFollows ==
    ASSUME reload(table', phantom')
    PROVE  TreeFollowsTable'
BY ReloadTree DEF TreeFollowsTable, HeardHidden, SameKeys

\* Account a changed, and is not demanded any more.
LEMMA OthersFollow ==
    ASSUME TypeInv, TreeFollowsTable, NEW a \in Owners, UNCHANGED <<tree, reloads>>,
           \A b \in Owners \ {a} : table'[b] = table[b], unheard' = unheard \cup {a}
    PROVE  TreeFollowsTable'
<1>1. SUFFICES ASSUME reloads = 0, NEW b \in Owners \ unheard'
               PROVE  tree[b] = Built(table')[b] \/ (~ HeardHidden' /\ SameKeys(b)')
  BY DEF TreeFollowsTable
<1>2. b # a /\ b \in Owners \ unheard /\ table'[b] = table[b]
  BY <1>1
<1>3. tree[b] = Built(table)[b] \/ (~ HeardHidden /\ SameKeys(b))
  BY <1>1, <1>2 DEF TreeFollowsTable
<1>4. Built(table')[b] = Built(table)[b]
  BY <1>2 DEF Built, Twin
<1>5. SameKeys(b)' <=> SameKeys(b)
  BY <1>2 DEF SameKeys
<1>6. HeardHidden' => HeardHidden
  BY DEF HeardHidden
<1> QED BY <1>3, <1>4, <1>5, <1>6

LEMMA StepTree ==
    ASSUME TypeInv, TreeFollowsTable, [LabelsNext]_labelsVars
    PROVE  TreeFollowsTable'
<1>1. CASE UNCHANGED <<table, tree, unheard, reloads>>
  BY <1>1 DEF TreeFollowsTable, HeardHidden, SameKeys
<1>2. CASE \E c \in calls : callAnswered(c)
  <2>1. PICK c \in calls : callAnswered(c)
    BY <1>2
  <2>2. CASE c.at = "refused"
    <3>1. UNCHANGED <<table, tree, unheard, reloads>>
      BY <2>1, <2>2 DEF callAnswered, treeVars
    <3> QED BY <1>1, <3>1
  <2>3. CASE c.at # "refused"
    <3>1. reloads' = reloads + 1 /\ reloads \in Nat
      BY <2>1, <2>3 DEF callAnswered, TypeInv, CountsTyped
    <3> QED BY <3>1 DEF TreeFollowsTable
  <2> QED BY <2>2, <2>3
<1>3. CASE reloadSidebar \/ countsReload
  <2>1. reload(table', phantom')
    BY <1>3 DEF reloadSidebar, countsReload, reload, sameLabelSet, RowKeys
  <2> QED BY <2>1, ReloadFollows
<1>4. CASE labelsListed
  <2>1. /\ table' = Listed /\ listing.account \in Owners /\ Typed(table)
        /\ phantom' = phantom /\ reloads' = reloads
        /\ \/ reload(table', phantom)
           \/ unheard' = unheard \cup {listing.account} /\ UNCHANGED <<tree, sel, win, chosen, drifted>>
    BY <1>4, LabelsAreListed DEF TypeInv, TableTyped
  <2>2. \A b \in Owners \ {listing.account} : table'[b] = table[b]
    BY <2>1 DEF Listed, Typed
  <2> QED BY <2>1, <2>2, ReloadFollows, OthersFollow
<1>5. ASSUME NEW a \in Owners, dropCache(a)
      PROVE  TreeFollowsTable'
  <2>1. /\ \A b \in Owners \ {a} : table'[b] = table[b]
        /\ reload(table', phantom') \/ (unheard' = unheard \cup {a} /\ UNCHANGED <<tree, sel, win, chosen, drifted>>)
        /\ UNCHANGED reloads
    BY <1>5, CacheDropped
  <2> QED BY <2>1, ReloadFollows, OthersFollow
<1>6. \/ UNCHANGED <<table, tree, unheard, reloads>> \/ reloadSidebar \/ countsReload \/ labelsListed
      \/ (\E c \in calls : callAnswered(c)) \/ \E a \in Owners : dropCache(a)
  <2>1. CASE UNCHANGED labelsVars
    BY <2>1 DEF labelsVars, boundVars
  <2>2. CASE labelCalls
    BY <2>2 DEF labelCalls, onCreateLabel, onRenameLabel, onDeleteLabel, call, treeVars
  <2>3. CASE \/ \E c \in calls : gmailTakes(c)
             \/ (\E a \in Owners : doInitialSync(a)) \/ gmailLists
             \/ \E a \in Owners, l \in UserIds, name \in Names \cup {Gone} : changedElsewhere(a, l, name)
    BY <2>3 DEF gmailTakes, doInitialSync, gmailLists, changedElsewhere, treeVars
  <2>4. CASE \/ \E s \in Selectable : onClicked(s)
             \/ \E a \in Owners : switchToAccount(a)
             \/ \E l \in UserIds \cup {Inbox} : onGoToLabel(l)
    BY <2>4 DEF onClicked, switchToAccount, onGoToLabel, choosing
  <2> QED BY <2>1, <2>2, <2>3, <2>4 DEF LabelsNext
<1> QED BY <1>1, <1>2, <1>3, <1>4, <1>5, <1>6

\* With no reload to come, the tree shows the rows of the table of each account
\* it heard of, from the first launch on and whatever was dropped; and under their names, as
\* soon as one such account has been listed.
THEOREM TreeFollowsTableAlways == LabelsSpec => []TreeFollowsTable
<1>1. LabelsInit => TreeFollowsTable
  BY DEF LabelsInit, TreeFollowsTable
<1>2. TypeInv /\ TreeFollowsTable /\ [LabelsNext]_labelsVars => TreeFollowsTable'
  BY StepTree
<1> QED BY <1>1, <1>2, LabelsInvAlways, PTL DEF LabelsSpec

-----------------------------------------------------------------------------
(* Session.                                                                *)

\* What a request has reported, how often Gmail took it, and how often the network
\* stack sent it again.
HonestAt(q, n, m, post) ==
    /\ q.at # "ended" => q.result = "none"
    /\ q.at = "taken" => n >= 1
    /\ q.result = "ok" => n >= 1
    /\ post => /\ n <= m + 1
               /\ q.at \notin {"taken", "ended", "gone"} => n <= m
               /\ q.result \in {"Auth", "RateLimited", "Other"} => n <= m

Honest == \A r \in Requests : HonestAt(reqs[r], taken[r], resent[r], r \in Posts)

\* The nested loops on the stack are those of the requests that wait in one.
Stacked ==
    /\ \A r \in Requests : reqs[r].at = "refresh" <=> \E i \in DOMAIN frames : frames[i].req = r
    /\ \A i, j \in DOMAIN frames : frames[i].req = frames[j].req => i = j

CallsOK ==
    /\ frames \in Seq(Frame) /\ reqs \in [Requests -> Request]
    /\ taken \in [Requests -> Nat] /\ resent \in [Requests -> Nat]
    /\ Stacked /\ Honest

StoreTypes ==
    /\ tokens \in Tokens /\ slot \in Tokens /\ fresh \in BOOLEAN /\ jobs \in Seq(Job)
    /\ grants \in 0 .. MaxGrants /\ revokes \subseteq Grants /\ revoked \subseteq Grants
    /\ signedIn \in BOOLEAN /\ crossed \subseteq {"load", "refresh"} /\ faulted \in BOOLEAN

\* Both tokens are of one sign-in.
Agree(t) == t.access = t.grant

\* The queue ends with a job that writes.
Writes == jobs # <<>> /\ Last(jobs).op # "load"

\* The slot is loaded once, before anything is written, and before that nothing
\* happens.
JobsOK ==
    /\ \A i \in DOMAIN jobs : jobs[i].op = "load" => i = 1
    /\ \A i \in DOMAIN jobs : jobs[i].op \in {"load", "erase"} => jobs[i].t = NoTokens
    /\ jobs = <<Load>> => tokens = NoTokens /\ frames = <<>>

\* What is left of the tokens of an account that was signed out: nothing, or an
\* access token that a refresh brought.
Clean(t) == ~ valid(t) /\ (crossed = {} => t = NoTokens)

\* Job k erases the slot, unless k is 0, and what follows leaves it clean.
Erases(k) ==
    /\ k = 0 \/ jobs[k] = Erase
    /\ \A j \in (k + 1) .. Len(jobs) : Clean(jobs[j].t) /\ (crossed = {} => jobs[j] = Load)

Erased ==
    /\ Clean(tokens)
    /\ crossed = {} => frames = <<>>
    /\ Queued("load") => jobs = <<Load>> \/ Clean(slot)
    /\ \E k \in 0 .. Len(jobs) : Erases(k) /\ (k = 0 /\ ~ faulted => Clean(slot))

\* The erasure was lost, and the tokens may be back since a restart.
Back ==
    /\ faulted
    /\ frames # <<>> => valid(tokens)
    /\ Queued("load") => tokens = NoTokens
    /\ \A i \in DOMAIN jobs : jobs[i].op # "load" => valid(jobs[i].t)

WhenOut == ~ signedIn /\ "load" \notin crossed => Erased \/ Back

WhenIn ==
    signedIn /\ crossed = {} =>
        /\ \A i \in DOMAIN frames : frames[i].grant = tokens.grant
        /\ Queued("load") => (jobs = <<Load>> /\ tokens = NoTokens) \/ (Writes /\ slot = NoTokens)
        /\ Writes => Agree(tokens) /\ valid(tokens) /\ Last(jobs) = Save(tokens)
        /\ ~ Writes /\ ~ faulted => Agree(tokens) /\ Agree(slot) /\ (jobs = <<>> => slot = tokens)

StoreOK == StoreTypes /\ JobsOK /\ WhenOut /\ WhenIn

\* The inductive invariant.
IInv == CallsOK /\ StoreOK

-----------------------------------------------------------------------------
(* Sequences.                                                              *)

LEMMA Appended ==
    ASSUME NEW S, NEW s \in Seq(S), NEW e \in S
    PROVE  /\ Append(s, e) \in Seq(S) /\ Append(s, e) # <<>>
           /\ Len(Append(s, e)) = Len(s) + 1 /\ Len(s) \in Nat
           /\ DOMAIN Append(s, e) = 1 .. (Len(s) + 1) /\ DOMAIN s = 1 .. Len(s)
           /\ \A i \in 1 .. Len(s) : Append(s, e)[i] = s[i]
           /\ Append(s, e)[Len(s) + 1] = e
           /\ Last(Append(s, e)) = e
  BY DEF Last

LEMMA Tailed ==
    ASSUME NEW S, NEW s \in Seq(S), s # <<>>
    PROVE  /\ Head(s) \in S /\ Head(s) = s[1] /\ Tail(s) \in Seq(S)
           /\ Len(Tail(s)) = Len(s) - 1 /\ Len(s) \in Nat \ {0}
           /\ DOMAIN Tail(s) = 1 .. (Len(s) - 1) /\ DOMAIN s = 1 .. Len(s)
           /\ \A i \in 1 .. (Len(s) - 1) : Tail(s)[i] = s[i + 1]
           /\ Tail(s) = <<>> => Last(s) = Head(s) /\ Len(s) = 1
           /\ Tail(s) # <<>> => Last(Tail(s)) = Last(s) /\ Len(s) > 1
<1>1. Len(s) \in Nat \ {0} /\ DOMAIN s = 1 .. Len(s)
  BY EmptySeq, LenProperties
<1>2. /\ Head(s) \in S /\ Tail(s) \in Seq(S) /\ Len(Tail(s)) = Len(s) - 1
      /\ \A i \in 1 .. Len(Tail(s)) : Tail(s)[i] = s[i + 1]
  BY HeadTailProperties
<1>3. Head(s) = s[1] /\ DOMAIN Tail(s) = 1 .. (Len(s) - 1)
  BY <1>2, LenProperties
<1>4. Tail(s) = <<>> => Len(s) = 1
  BY <1>1, <1>2, EmptySeq
<1>5. Tail(s) # <<>> => Len(s) - 1 \in Nat \ {0}
  BY <1>1, <1>2, EmptySeq
<1>6. Tail(s) = <<>> => Last(s) = Head(s)
  BY <1>3, <1>4 DEF Last
<1>7. Tail(s) # <<>> => Last(Tail(s)) = Last(s)
  <2>1. CASE Tail(s) # <<>>
    <3>1. Tail(s)[Len(s) - 1] = s[Len(s) - 1 + 1]
      BY <1>1, <1>2, <1>5, <2>1
    <3> QED BY <1>1, <1>2, <3>1 DEF Last
  <2> QED BY <2>1
<1> QED BY <1>1, <1>2, <1>3, <1>4, <1>5, <1>6, <1>7

LEMMA Fronted ==
    ASSUME NEW S, NEW s \in Seq(S), s # <<>>
    PROVE  /\ Front(s) \in Seq(S) /\ Last(s) \in S /\ Last(s) = s[Len(s)]
           /\ Len(s) \in Nat \ {0} /\ DOMAIN s = 1 .. Len(s)
           /\ DOMAIN Front(s) = 1 .. (Len(s) - 1)
           /\ \A i \in 1 .. (Len(s) - 1) : Front(s)[i] = s[i]
<1>1. Len(s) \in Nat \ {0} /\ DOMAIN s = 1 .. Len(s) /\ \A i \in 1 .. Len(s) : s[i] \in S
  BY EmptySeq, LenProperties, ElementOfSeq
<1>2. \A i \in 1 .. (Len(s) - 1) : s[i] \in S
  BY <1>1
<1>3. /\ SubSeq(s, 1, Len(s) - 1) \in Seq(S)
      /\ Len(SubSeq(s, 1, Len(s) - 1)) = IF 1 <= Len(s) - 1 THEN Len(s) - 1 - 1 + 1 ELSE 0
      /\ \A i \in 1 .. (Len(s) - 1) - 1 + 1 : SubSeq(s, 1, Len(s) - 1)[i] = s[1 + i - 1]
  BY <1>1, <1>2, SubSeqProperties
<1>4. Len(Front(s)) = Len(s) - 1 /\ Front(s) \in Seq(S)
  BY <1>1, <1>3 DEF Front
<1>5. \A i \in 1 .. (Len(s) - 1) : Front(s)[i] = s[i]
  BY <1>1, <1>3 DEF Front
<1>6. DOMAIN Front(s) = 1 .. (Len(s) - 1)
  BY <1>1, <1>4, LenProperties
<1> QED BY <1>1, <1>4, <1>5, <1>6 DEF Last

LEMMA TokenTypes ==
    /\ NoTokens \in Tokens /\ ~ valid(NoTokens) /\ Agree(NoTokens)
    /\ \A g \in Grants : Issued(g) \in Tokens /\ valid(Issued(g)) /\ Agree(Issued(g))
  BY DEF NoTokens, Tokens, valid, Agree, Issued, Grants

LEMMA JobTypes ==
    /\ Load \in Job /\ Erase \in Job /\ Load.op = "load" /\ Erase.op = "erase"
    /\ Load.t = NoTokens /\ Erase.t = NoTokens
    /\ \A t \in Tokens : Save(t) \in Job /\ Save(t).op = "save" /\ Save(t).t = t
  BY TokenTypes DEF Load, Erase, Save, Job

LEMMA RequestTypes ==
    /\ NewRequest \in Request /\ NewRequest.at = "off" /\ NewRequest.result = "none"
    /\ \A res \in {"ok", "Auth", "Network", "RateLimited", "Server", "Other"} :
          Ended(res) \in Request /\ Ended(res).at = "ended" /\ Ended(res).result = res
  BY DEF NewRequest, Request, Ended

LEMMA Loading ==
    ASSUME NEW q, q = <<Load>>
    PROVE  /\ q \in Seq(Job) /\ q # <<>> /\ Len(q) = 1 /\ DOMAIN q = 1 .. 1 /\ Last(q) = Load
           /\ \A j \in 1 .. Len(q) : q[j] = Load
<1>1. q \in Seq(Job) /\ Len(q) = 1 /\ DOMAIN q = 1 .. 1 /\ q[1] = Load
  BY JobTypes
<1>2. \A j \in 1 .. Len(q) : j = 1
  BY <1>1
<1> QED BY <1>1, <1>2 DEF Last

-----------------------------------------------------------------------------
(* The requests.                                                           *)

\* One request changes, and waits in no loop before and after.
LEMMA RequestChanges ==
    ASSUME CallsOK, NEW r \in Requests, NEW q \in Request, NEW n \in Nat, NEW m \in Nat,
           q.at # "refresh", reqs[r].at # "refresh", HonestAt(q, n, m, r \in Posts),
           reqs' = [reqs EXCEPT ![r] = q], taken' = [taken EXCEPT ![r] = n],
           resent' = [resent EXCEPT ![r] = m], UNCHANGED frames
    PROVE  CallsOK'
<1>1. /\ reqs' \in [Requests -> Request] /\ frames' \in Seq(Frame)
      /\ taken' \in [Requests -> Nat] /\ resent' \in [Requests -> Nat]
      /\ reqs'[r] = q /\ taken'[r] = n /\ resent'[r] = m
      /\ \A s \in Requests \ {r} : reqs'[s] = reqs[s] /\ taken'[s] = taken[s] /\ resent'[s] = resent[s]
  BY DEF CallsOK
<1>2. Stacked'
  BY <1>1 DEF CallsOK, Stacked
<1>3. Honest'
  <2> SUFFICES ASSUME NEW s \in Requests
               PROVE  HonestAt(reqs'[s], taken'[s], resent'[s], s \in Posts)
    BY DEF Honest
  <2>1. CASE s = r
    BY <1>1, <2>1
  <2>2. CASE s # r
    BY <1>1, <2>2 DEF CallsOK, Honest
  <2> QED BY <2>1, <2>2
<1> QED BY <1>1, <1>2, <1>3 DEF CallsOK

LEMMA RequestChangesOnly ==
    ASSUME CallsOK, NEW r \in Requests, NEW q \in Request,
           q.at # "refresh", reqs[r].at # "refresh", HonestAt(q, taken[r], resent[r], r \in Posts),
           reqs' = [reqs EXCEPT ![r] = q], UNCHANGED <<taken, resent, frames>>
    PROVE  CallsOK'
<1>1. PICK n \in Nat : n = taken[r]
  BY DEF CallsOK
<1>2. PICK m \in Nat : m = resent[r]
  BY DEF CallsOK
<1>3. taken' = [taken EXCEPT ![r] = n] /\ resent' = [resent EXCEPT ![r] = m]
  BY <1>1, <1>2 DEF CallsOK
<1>4. HonestAt(q, n, m, r \in Posts) /\ frames' = frames
  BY <1>1, <1>2
<1> QED BY <1>3, <1>4, RequestChanges

\* The loop that request r waits in.
NewFrame(r) == [req |-> r, grant |-> tokens.grant, reply |-> "none"]

Waits(r) == valid(tokens) /\ frames' = Append(frames, NewFrame(r))

LEMMA RequestWaits ==
    ASSUME CallsOK, tokens \in Tokens, NEW r \in Requests, NEW q \in Request,
           q.at = "refresh", reqs[r].at # "refresh", HonestAt(q, taken[r], resent[r], r \in Posts),
           reqs' = [reqs EXCEPT ![r] = q], Waits(r), UNCHANGED <<taken, resent>>
    PROVE  CallsOK'
<1>1. PICK f : f = NewFrame(r)
  OBVIOUS
<1>2. f \in Frame /\ f.req = r
  BY <1>1 DEF Waits, NewFrame, Frame, Tokens, valid
<1>3. frames \in Seq(Frame) /\ frames' = Append(frames, f)
  BY <1>1 DEF CallsOK, Waits
<1>4. /\ frames' \in Seq(Frame)
      /\ DOMAIN frames' = 1 .. (Len(frames) + 1) /\ DOMAIN frames = 1 .. Len(frames)
      /\ Len(frames) \in Nat
      /\ \A i \in 1 .. Len(frames) : frames'[i] = frames[i]
      /\ frames'[Len(frames) + 1] = f
  BY <1>2, <1>3, Appended
<1>5. /\ reqs' \in [Requests -> Request] /\ taken' \in [Requests -> Nat] /\ resent' \in [Requests -> Nat]
      /\ reqs'[r] = q /\ taken'[r] = taken[r] /\ resent'[r] = resent[r]
      /\ \A s \in Requests \ {r} : reqs'[s] = reqs[s] /\ taken'[s] = taken[s] /\ resent'[s] = resent[s]
  BY DEF CallsOK
<1>6. \A i \in DOMAIN frames : frames[i].req # r
  BY DEF CallsOK, Stacked
<1>7. \A s \in Requests : reqs'[s].at = "refresh" <=> \E i \in DOMAIN frames' : frames'[i].req = s
  <2> SUFFICES ASSUME NEW s \in Requests
               PROVE  reqs'[s].at = "refresh" <=> \E i \in DOMAIN frames' : frames'[i].req = s
    OBVIOUS
  <2>1. CASE s = r
    <3>1. Len(frames) + 1 \in DOMAIN frames'
      BY <1>4
    <3> QED BY <1>2, <1>4, <1>5, <2>1, <3>1
  <2>2. CASE s # r
    <3>1. reqs[s].at = "refresh" <=> \E i \in DOMAIN frames : frames[i].req = s
      BY DEF CallsOK, Stacked
    <3>2. (\E i \in DOMAIN frames' : frames'[i].req = s) <=> \E i \in DOMAIN frames : frames[i].req = s
      BY <1>2, <1>4, <2>2
    <3> QED BY <1>5, <2>2, <3>1, <3>2
  <2> QED BY <2>1, <2>2
<1>8. \A i, j \in DOMAIN frames' : frames'[i].req = frames'[j].req => i = j
  <2>1. \A i, j \in DOMAIN frames : frames[i].req = frames[j].req => i = j
    BY DEF CallsOK, Stacked
  <2> QED BY <1>2, <1>4, <1>6, <2>1
<1>9. Honest'
  <2> SUFFICES ASSUME NEW s \in Requests
               PROVE  HonestAt(reqs'[s], taken'[s], resent'[s], s \in Posts)
    BY DEF Honest
  <2>1. CASE s = r
    BY <1>5, <2>1
  <2>2. CASE s # r
    BY <1>5, <2>2 DEF CallsOK, Honest
  <2> QED BY <2>1, <2>2
<1> QED BY <1>4, <1>5, <1>7, <1>8, <1>9 DEF CallsOK, Stacked

\* sendOnce() of a request of which Gmail took only copies sent again since, if it
\* is a POST.
LEMMA SendOnceStep ==
    ASSUME CallsOK, tokens \in Tokens, NEW r \in Requests, NEW q \in Request, NEW force,
           q.result = "none", reqs[r].at \in {"off", "backoff", "wire"},
           sendOnce(r, q, force), UNCHANGED <<taken, resent>>
    PROVE  CallsOK' /\ (UNCHANGED frames \/ Waits(r))
<1>1. /\ reqs[r] \in Request /\ taken[r] \in Nat /\ resent[r] \in Nat /\ reqs[r].at # "refresh"
      /\ r \in Posts => taken[r] <= resent[r]
  BY DEF CallsOK, Honest, HonestAt
<1>2. CASE ~ valid(tokens)
  <2>1. reqs' = [reqs EXCEPT ![r] = Ended("Auth")] /\ UNCHANGED frames
    BY <1>2 DEF sendOnce
  <2>2. HonestAt(Ended("Auth"), taken[r], resent[r], r \in Posts)
    BY <1>1, RequestTypes DEF HonestAt
  <2> QED BY <1>1, <2>1, <2>2, RequestTypes, RequestChangesOnly
<1>3. CASE valid(tokens) /\ fresh /\ ~ force
  <2>1. PICK p : p = [q EXCEPT !.at = "wire", !.token = tokens.access]
    OBVIOUS
  <2>2. p \in Request /\ p.at = "wire" /\ p.result = "none"
    BY <2>1 DEF Request, Tokens
  <2>3. reqs' = [reqs EXCEPT ![r] = p] /\ UNCHANGED frames
    BY <1>3, <2>1 DEF sendOnce
  <2>4. HonestAt(p, taken[r], resent[r], r \in Posts)
    BY <1>1, <2>2 DEF HonestAt
  <2> QED BY <1>1, <2>2, <2>3, <2>4, RequestChangesOnly
<1>4. CASE valid(tokens) /\ ~ (fresh /\ ~ force)
  <2>1. PICK p : p = [q EXCEPT !.at = "refresh"]
    OBVIOUS
  <2>2. p \in Request /\ p.at = "refresh" /\ p.result = "none"
    BY <2>1 DEF Request
  <2>3. reqs' = [reqs EXCEPT ![r] = p] /\ Waits(r)
    BY <1>4, <2>1 DEF sendOnce, Waits, NewFrame
  <2>4. HonestAt(p, taken[r], resent[r], r \in Posts)
    BY <1>1, <2>2 DEF HonestAt
  <2> QED BY <1>1, <2>2, <2>3, <2>4, RequestWaits
<1> QED BY <1>2, <1>3, <1>4

\* The handler of an answer.  Gmail did nothing before it refuses.
LEMMA FinishedStep ==
    ASSUME CallsOK, tokens \in Tokens, NEW r \in Requests, NEW status,
           \/ reqs[r].at = "taken" /\ status \in {"2xx", "5xx", "none"}
           \/ reqs[r].at = "wire" /\ status \in {"401", "429", "other", "5xx", "none"},
           onFinished(r, status), UNCHANGED <<taken, resent>>
    PROVE  CallsOK' /\ (UNCHANGED frames \/ Waits(r))
<1>1. /\ reqs[r] \in Request /\ taken[r] \in Nat /\ resent[r] \in Nat /\ reqs[r].at # "refresh"
      /\ HonestAt(reqs[r], taken[r], resent[r], r \in Posts)
  BY DEF CallsOK, Honest
<1>2. CASE status = "2xx"
  <2>1. reqs' = [reqs EXCEPT ![r] = Ended("ok")] /\ UNCHANGED frames
    BY <1>2 DEF onFinished, End
  <2>2. HonestAt(Ended("ok"), taken[r], resent[r], r \in Posts)
    BY <1>1, <1>2, RequestTypes DEF HonestAt
  <2> QED BY <1>1, <2>1, <2>2, RequestTypes, RequestChangesOnly
<1>3. CASE status = "401" /\ ~ reqs[r].refreshedOnce
  <2>1. PICK q : q = [reqs[r] EXCEPT !.refreshedOnce = TRUE]
    OBVIOUS
  <2>2. q \in Request /\ q.result = "none" /\ reqs[r].at = "wire"
    BY <1>1, <1>3, <2>1 DEF Request, HonestAt
  <2>3. sendOnce(r, q, TRUE)
    BY <1>3, <2>1 DEF onFinished, refreshOnce
  <2> QED BY <2>2, <2>3, SendOnceStep
<1>4. CASE status # "2xx" /\ ~ (status = "401" /\ ~ reqs[r].refreshedOnce)
  <2>1. /\ UNCHANGED frames
        /\ \/ mayRetry(r, status) /\ backoff(r, Kind(status))
           \/ ~ mayRetry(r, status) /\ reqs' = End(r, Kind(status))
    BY <1>4 DEF onFinished
  <2>2. /\ Kind(status) \in {"Network", "Auth", "RateLimited", "Server", "Other"}
        /\ status \in {"5xx", "none"} => Kind(status) \in {"Server", "Network"}
    BY <1>4 DEF Kind
  <2>3. CASE reqs' = End(r, Kind(status))
    <3>1. PICK res \in {"Network", "Auth", "RateLimited", "Server", "Other"} : res = Kind(status)
      BY <2>2
    <3>2. r \in Posts /\ res \in {"Auth", "RateLimited", "Other"} => taken[r] <= resent[r]
      <4>1. res \in {"Auth", "RateLimited", "Other"} => reqs[r].at = "wire"
        BY <1>4, <2>2, <3>1
      <4> QED BY <1>1, <4>1 DEF HonestAt
    <3>3. r \in Posts => taken[r] <= resent[r] + 1
      BY <1>1 DEF HonestAt
    <3>4. HonestAt(Ended(res), taken[r], resent[r], r \in Posts)
      BY <3>2, <3>3, RequestTypes DEF HonestAt
    <3>5. reqs' = [reqs EXCEPT ![r] = Ended(res)]
      BY <2>3, <3>1 DEF End
    <3> QED BY <1>1, <2>1, <3>4, <3>5, RequestTypes, RequestChangesOnly
  <2>4. CASE mayRetry(r, status) /\ retries(reqs[r].attempt) /\ backoff(r, Kind(status))
    <3>1. PICK q : q = [reqs[r] EXCEPT !.at = "backoff", !.attempt = @ + 1]
      OBVIOUS
    <3>2. q \in Request /\ q.at = "backoff" /\ q.result = "none"
      <4>1. reqs[r].result = "none" /\ reqs[r].attempt \in Nat
        BY <1>1 DEF Request, HonestAt
      <4>2. reqs[r].attempt + 1 \in Nat
        BY <4>1
      <4>3. q \in Request /\ q.at = "backoff" /\ q.result = reqs[r].result
        BY <1>1, <3>1, <4>2 DEF Request
      <4> QED BY <4>1, <4>3
    <3>3. reqs' = [reqs EXCEPT ![r] = q]
      BY <1>1, <2>4, <3>1 DEF backoff, CallsOK
    <3>4. r \in Posts => taken[r] <= resent[r]
      <4>1. r \in Posts => status = "429"
        BY <2>4 DEF mayRetry
      <4> QED BY <1>1, <4>1 DEF HonestAt
    <3>5. HonestAt(q, taken[r], resent[r], r \in Posts)
      BY <1>1, <3>2, <3>4 DEF HonestAt
    <3> QED BY <1>1, <2>1, <3>2, <3>3, <3>5, RequestChangesOnly
  <2> QED BY <2>1, <2>3, <2>4 DEF backoff
<1> QED BY <1>2, <1>3, <1>4

\* The loop on top of the stack has returned, and its request goes on.
LEMMA LoopReturns ==
    ASSUME CallsOK, frames # <<>>, NEW f, f = Last(frames), NEW q \in Request,
           q.at # "refresh", HonestAt(q, taken[f.req], resent[f.req], f.req \in Posts),
           frames' = Front(frames), reqs' = [reqs EXCEPT ![f.req] = q], UNCHANGED <<taken, resent>>
    PROVE  CallsOK'
<1>1. /\ frames' \in Seq(Frame) /\ f \in Frame /\ f = frames[Len(frames)]
      /\ Len(frames) \in Nat \ {0} /\ DOMAIN frames = 1 .. Len(frames)
      /\ DOMAIN frames' = 1 .. (Len(frames) - 1)
      /\ \A i \in 1 .. (Len(frames) - 1) : frames'[i] = frames[i]
  BY Fronted DEF CallsOK
<1>2. f.req \in Requests
  BY <1>1 DEF Frame
<1>3. /\ reqs' \in [Requests -> Request] /\ taken' \in [Requests -> Nat] /\ resent' \in [Requests -> Nat]
      /\ reqs'[f.req] = q
      /\ \A s \in Requests \ {f.req} : reqs'[s] = reqs[s]
  BY <1>2 DEF CallsOK
<1>4. \A i, j \in DOMAIN frames : frames[i].req = frames[j].req => i = j
  BY DEF CallsOK, Stacked
<1>5. \A i \in DOMAIN frames' : frames'[i].req # f.req
  BY <1>1, <1>4
<1>6. \A i, j \in DOMAIN frames' : frames'[i].req = frames'[j].req => i = j
  BY <1>1, <1>4
<1>7. \A s \in Requests : reqs'[s].at = "refresh" <=> \E i \in DOMAIN frames' : frames'[i].req = s
  <2> SUFFICES ASSUME NEW s \in Requests
               PROVE  reqs'[s].at = "refresh" <=> \E i \in DOMAIN frames' : frames'[i].req = s
    OBVIOUS
  <2>1. CASE s = f.req
    BY <1>3, <1>5, <2>1
  <2>2. CASE s # f.req
    <3>1. reqs[s].at = "refresh" <=> \E i \in DOMAIN frames : frames[i].req = s
      BY DEF CallsOK, Stacked
    <3>2. (\E i \in DOMAIN frames : frames[i].req = s) <=> \E i \in DOMAIN frames' : frames'[i].req = s
      BY <1>1, <2>2
    <3> QED BY <1>3, <2>2, <3>1, <3>2
  <2> QED BY <2>1, <2>2
<1>8. Honest'
  <2> SUFFICES ASSUME NEW s \in Requests
               PROVE  HonestAt(reqs'[s], taken'[s], resent'[s], s \in Posts)
    BY DEF Honest
  <2>1. CASE s = f.req
    BY <1>3, <2>1
  <2>2. CASE s # f.req
    BY <1>3, <2>2 DEF CallsOK, Honest
  <2> QED BY <2>1, <2>2
<1> QED BY <1>1, <1>3, <1>6, <1>7, <1>8 DEF CallsOK, Stacked

LEMMA RefreshReturnsCalls ==
    ASSUME CallsOK, tokens \in Tokens, tokens' \in Tokens, refreshReturns
    PROVE  CallsOK'
<1>1. PICK f : f = Last(frames)
  OBVIOUS
<1>2. frames # <<>> /\ frames' = Front(frames) /\ UNCHANGED <<taken, resent>>
  BY DEF refreshReturns, googleVars
<1>3. f \in Frame /\ f = frames[Len(frames)] /\ Len(frames) \in DOMAIN frames
  <2>1. frames \in Seq(Frame)
    BY DEF CallsOK
  <2> QED BY <1>1, <1>2, <2>1, Fronted
<1>4. f.req \in Requests
  BY <1>3 DEF Frame
<1>5. /\ reqs[f.req] \in Request /\ reqs[f.req].at = "refresh"
      /\ taken[f.req] \in Nat /\ resent[f.req] \in Nat
  <2>1. PICK r \in Requests : r = f.req
    BY <1>4
  <2>2. reqs[r] \in Request /\ taken[r] \in Nat /\ resent[r] \in Nat
    BY DEF CallsOK
  <2>3. reqs[r].at = "refresh"
    BY <1>3, <2>1 DEF CallsOK, Stacked
  <2> QED BY <2>1, <2>2, <2>3
<1>6. HonestAt(reqs[f.req], taken[f.req], resent[f.req], f.req \in Posts)
  BY <1>4 DEF CallsOK, Honest
<1>7. CASE f.reply = "ok"
  <2>1. PICK q : q = [reqs[f.req] EXCEPT !.at = "wire", !.token = tokens'.access]
    OBVIOUS
  <2>2. tokens'.access \in Grants \cup {0}
    BY DEF Tokens
  <2>3. q \in Request /\ q.at = "wire" /\ q.result = reqs[f.req].result
    BY <1>5, <2>1, <2>2 DEF Request
  <2>4. reqs' = [reqs EXCEPT ![f.req].at = "wire", ![f.req].token = tokens'.access]
    BY <1>1, <1>7 DEF refreshReturns
  <2>5. reqs' = [reqs EXCEPT ![f.req] = q]
    BY <1>4, <1>5, <2>1, <2>4 DEF CallsOK, Request
  <2>6. HonestAt(q, taken[f.req], resent[f.req], f.req \in Posts)
    BY <1>5, <1>6, <2>3 DEF HonestAt
  <2> QED BY <1>1, <1>2, <2>3, <2>5, <2>6, LoopReturns
<1>8. CASE f.reply # "ok"
  <2>1. reqs' = [reqs EXCEPT ![f.req] = Ended("Auth")]
    BY <1>1, <1>8 DEF refreshReturns, End
  <2>2. HonestAt(Ended("Auth"), taken[f.req], resent[f.req], f.req \in Posts)
    BY <1>5, <1>6, RequestTypes DEF HonestAt
  <2> QED BY <1>1, <1>2, <2>1, <2>2, RequestTypes, LoopReturns
<1> QED BY <1>7, <1>8

\* Only the answer is new.
LEMMA RefreshAnsweredCalls ==
    ASSUME CallsOK, NEW i \in 1 .. Len(frames), RefreshAnswered(i)
    PROVE  /\ CallsOK'
           /\ DOMAIN frames' = DOMAIN frames /\ frames' # <<>> /\ frames # <<>>
           /\ \A j \in DOMAIN frames : frames'[j].grant = frames[j].grant
<1>1. PICK rep \in {"ok", "failed"} : frames' = [frames EXCEPT ![i].reply = rep]
  BY DEF RefreshAnswered
<1>2. /\ frames \in Seq(Frame) /\ i \in DOMAIN frames /\ frames[i] \in Frame
      /\ Len(frames) \in Nat /\ DOMAIN frames = 1 .. Len(frames)
  BY ElementOfSeq, LenProperties DEF CallsOK
<1>3. PICK f : f = [frames[i] EXCEPT !.reply = rep]
  OBVIOUS
<1>4. f \in Frame /\ f.req = frames[i].req /\ f.grant = frames[i].grant
  BY <1>2, <1>3 DEF Frame
<1>5. frames' = [frames EXCEPT ![i] = f]
  BY <1>1, <1>2, <1>3
<1>6. /\ frames' \in Seq(Frame) /\ DOMAIN frames' = DOMAIN frames
      /\ frames'[i] = f /\ \A j \in DOMAIN frames \ {i} : frames'[j] = frames[j]
  BY <1>2, <1>4, <1>5, ExceptSeq
<1>7. \A j \in DOMAIN frames : frames'[j].req = frames[j].req /\ frames'[j].grant = frames[j].grant
  BY <1>4, <1>6
<1>8. UNCHANGED <<reqs, taken, resent>>
  BY DEF RefreshAnswered, googleVars
<1>9. \A r \in Requests : reqs'[r].at = "refresh" <=> \E j \in DOMAIN frames' : frames'[j].req = r
  <2> SUFFICES ASSUME NEW r \in Requests
               PROVE  reqs'[r].at = "refresh" <=> \E j \in DOMAIN frames' : frames'[j].req = r
    OBVIOUS
  <2>1. reqs[r].at = "refresh" <=> \E j \in DOMAIN frames : frames[j].req = r
    BY DEF CallsOK, Stacked
  <2> QED BY <1>6, <1>7, <1>8, <2>1
<1>10. \A j, k \in DOMAIN frames' : frames'[j].req = frames'[k].req => j = k
  BY <1>6, <1>7 DEF CallsOK, Stacked
<1>11. Honest'
  BY <1>8 DEF CallsOK, Honest
<1> QED BY <1>2, <1>6, <1>7, <1>8, <1>9, <1>10, <1>11, EmptySeq DEF CallsOK, Stacked

LEMMA TakeCalls ==
    ASSUME CallsOK, NEW r \in Requests, Take(r)
    PROVE  CallsOK'
<1>1. PICK q : q = [reqs[r] EXCEPT !.at = "taken"]
  OBVIOUS
<1>2. PICK n : n = taken[r] + 1
  OBVIOUS
<1>3. reqs[r] \in Request /\ reqs[r].at = "wire" /\ taken[r] \in Nat /\ resent[r] \in Nat
  BY DEF CallsOK, Take
<1>4. q \in Request /\ q.at = "taken" /\ q.result = reqs[r].result /\ n \in Nat
  BY <1>1, <1>2, <1>3 DEF Request
<1>5. HonestAt(q, n, resent[r], r \in Posts)
  BY <1>2, <1>3, <1>4 DEF CallsOK, Honest, HonestAt
<1>6. /\ reqs' = [reqs EXCEPT ![r] = q] /\ taken' = [taken EXCEPT ![r] = n] /\ UNCHANGED frames
      /\ resent' = [resent EXCEPT ![r] = resent[r]]
  BY <1>1, <1>2 DEF Take, CallsOK
<1> QED BY <1>3, <1>4, <1>5, <1>6, RequestChanges

\* The copy that was taken is one more than those sent again; now it is not.
LEMMA ResentCalls ==
    ASSUME CallsOK, NEW r \in Requests, Resent(r)
    PROVE  CallsOK'
<1>1. PICK q : q = [reqs[r] EXCEPT !.at = "wire"]
  OBVIOUS
<1>2. PICK m : m = resent[r] + 1
  OBVIOUS
<1>3. reqs[r] \in Request /\ reqs[r].at = "taken" /\ taken[r] \in Nat /\ resent[r] \in Nat
  BY DEF CallsOK, Resent
<1>4. q \in Request /\ q.at = "wire" /\ q.result = reqs[r].result /\ m \in Nat
  BY <1>1, <1>2, <1>3 DEF Request
<1>5. HonestAt(q, taken[r], m, r \in Posts)
  BY <1>2, <1>3, <1>4 DEF CallsOK, Honest, HonestAt
<1>6. /\ reqs' = [reqs EXCEPT ![r] = q] /\ resent' = [resent EXCEPT ![r] = m] /\ UNCHANGED frames
      /\ taken' = [taken EXCEPT ![r] = taken[r]]
  BY <1>1, <1>2 DEF Resent, CallsOK
<1> QED BY <1>3, <1>4, <1>5, <1>6, RequestChanges

LEMMA CrashCalls ==
    ASSUME CallsOK, Crash
    PROVE  CallsOK'
<1>1. PICK gone : gone = [NewRequest EXCEPT !.at = "gone"]
  OBVIOUS
<1>2. gone \in Request /\ gone.at = "gone" /\ gone.result = "none"
  BY <1>1, RequestTypes DEF NewRequest, Request
<1>3. \A r \in Requests : /\ reqs[r].at \in {"off", "ended"} => reqs'[r] = reqs[r]
                          /\ reqs[r].at \notin {"off", "ended"} => reqs'[r] = gone
  BY <1>1 DEF Crash
<1>4. reqs' \in [Requests -> Request]
  BY <1>1, <1>2 DEF Crash, CallsOK
<1>5. frames' = <<>> /\ UNCHANGED <<taken, resent>>
  BY DEF Crash
<1>6. frames' \in Seq(Frame) /\ DOMAIN frames' = {}
  BY <1>5
<1>7. Stacked'
  BY <1>2, <1>3, <1>6 DEF Stacked
<1>8. Honest'
  <2> SUFFICES ASSUME NEW r \in Requests
               PROVE  HonestAt(reqs'[r], taken[r], resent[r], r \in Posts)
    BY <1>5 DEF Honest
  <2>1. HonestAt(reqs[r], taken[r], resent[r], r \in Posts) /\ taken[r] \in Nat /\ resent[r] \in Nat
    BY DEF CallsOK, Honest
  <2> QED BY <1>2, <1>3, <2>1 DEF HonestAt
<1> QED BY <1>4, <1>5, <1>6, <1>7, <1>8 DEF CallsOK

-----------------------------------------------------------------------------
(* The tokens and the slot.                                                *)

StoreVars == <<tokens, slot, jobs, signedIn, crossed, faulted>>

\* A step of the requests: loops end, or one begins under the tokens of now.
FramesOK ==
    \/ UNCHANGED frames
    \/ \E r \in Requests : Waits(r)
    \/ /\ frames # <<>>
       /\ \A i \in DOMAIN frames' : \E j \in DOMAIN frames : frames'[i].grant = frames[j].grant

LEMMA FramesStep ==
    ASSUME CallsOK, StoreOK, FramesOK, UNCHANGED StoreVars,
           fresh' \in BOOLEAN, grants' \in 0 .. MaxGrants, revokes' \subseteq Grants, revoked' \subseteq Grants
    PROVE  StoreOK'
<1>1. StoreTypes'
  BY DEF StoreOK, StoreTypes, StoreVars
<1>2. frames = <<>> => frames' = <<>> \/ valid(tokens)
  BY DEF FramesOK, Waits
<1>3. (\E r \in Requests : Waits(r)) => valid(tokens)
  BY DEF Waits
<1>4. (\A i \in DOMAIN frames : frames[i].grant = tokens.grant)
      => \A i \in DOMAIN frames' : frames'[i].grant = tokens.grant
  <2>1. CASE \E r \in Requests : Waits(r)
    <3>1. PICK r \in Requests : Waits(r)
      BY <2>1
    <3>2. PICK f : f = NewFrame(r)
      OBVIOUS
    <3>3. f.grant = tokens.grant /\ f \in Frame /\ frames' = Append(frames, f)
      BY <3>1, <3>2 DEF NewFrame, Waits, Frame, StoreOK, StoreTypes, Tokens, valid
    <3> QED BY <3>3, Appended DEF CallsOK
  <2> QED BY <2>1 DEF FramesOK
<1>5. JobsOK'
  BY <1>2, TokenTypes DEF StoreOK, JobsOK, StoreVars
<1>6. WhenOut'
  <2>1. Erased => Erased'
    BY <1>2 DEF Erased, Erases, Clean, StoreVars, Queued, valid
  <2>2. Back => Back'
    BY <1>2 DEF Back, StoreVars, Queued, valid
  <2> QED BY <2>1, <2>2 DEF StoreOK, WhenOut, StoreVars
<1>7. WhenIn'
  BY <1>4 DEF StoreOK, WhenIn, StoreVars, Queued, Writes, Agree, valid
<1> QED BY <1>1, <1>5, <1>6, <1>7 DEF StoreOK

LEMMA RefreshReturnsStore ==
    ASSUME CallsOK, StoreOK, refreshReturns
    PROVE  StoreOK' /\ tokens' \in Tokens
<1>1. PICK f : f = Last(frames)
  OBVIOUS
<1>2. frames # <<>> /\ frames' = Front(frames) /\ UNCHANGED <<slot, grants, revokes, revoked, signedIn, crossed, faulted>>
  BY DEF refreshReturns, googleVars, userVars
<1>3. /\ f \in Frame /\ f = frames[Len(frames)] /\ Len(frames) \in DOMAIN frames
      /\ frames' \in Seq(Frame) /\ DOMAIN frames' \subseteq DOMAIN frames
      /\ \A i \in DOMAIN frames' : frames'[i] = frames[i]
  <2>1. /\ Front(frames) \in Seq(Frame) /\ Last(frames) \in Frame
        /\ Last(frames) = frames[Len(frames)] /\ Len(frames) \in Nat \ {0}
        /\ DOMAIN frames = 1 .. Len(frames) /\ DOMAIN Front(frames) = 1 .. (Len(frames) - 1)
        /\ \A i \in 1 .. (Len(frames) - 1) : Front(frames)[i] = frames[i]
    BY <1>2, Fronted DEF CallsOK
  <2> QED BY <1>1, <1>2, <2>1
<1>4. CASE f.reply # "ok"
  <2>1. UNCHANGED <<tokens, fresh, jobs>>
    BY <1>1, <1>4 DEF refreshReturns, tokenVars
  <2>2. FramesOK
    BY <1>2, <1>3 DEF FramesOK
  <2>3. UNCHANGED StoreVars
    BY <1>2, <2>1 DEF StoreVars
  <2> QED BY <1>2, <2>1, <2>2, <2>3, FramesStep DEF StoreOK, StoreTypes
<1>5. CASE f.reply = "ok"
  <2>1. PICK t : t = Refreshed(f.grant)
    OBVIOUS
  <2>2. tokens' = t /\ fresh' = TRUE /\ jobs' = Append(jobs, Save(t))
    BY <1>1, <1>5, <2>1 DEF refreshReturns
  <2>3. tokens \in Tokens /\ f.grant \in Grants /\ jobs \in Seq(Job)
    BY <1>3 DEF StoreOK, StoreTypes, Frame
  <2>4. t \in Tokens /\ t.grant = tokens.grant /\ t.access = f.grant
    BY <2>1, <2>3 DEF Refreshed, Tokens
  <2>5. /\ jobs' \in Seq(Job) /\ jobs' # <<>> /\ Len(jobs') = Len(jobs) + 1 /\ Len(jobs) \in Nat
        /\ DOMAIN jobs' = 1 .. (Len(jobs) + 1) /\ DOMAIN jobs = 1 .. Len(jobs)
        /\ \A i \in 1 .. Len(jobs) : jobs'[i] = jobs[i]
        /\ jobs'[Len(jobs) + 1] = Save(t) /\ Last(jobs') = Save(t)
    BY <2>2, <2>3, <2>4, JobTypes, Appended
  <2>6. Queued("load")' => Queued("load")
    BY <2>4, <2>5, JobTypes DEF Queued
  <2>7. StoreTypes'
    BY <1>2, <2>2, <2>4, <2>5 DEF StoreOK, StoreTypes
  <2>8. jobs # <<Load>>
    BY <1>2 DEF StoreOK, JobsOK
  <2>9. JobsOK'
    <3>1. jobs' # <<Load>>
      BY <2>4, <2>5, JobTypes
    <3> QED BY <2>4, <2>5, <3>1, JobTypes DEF StoreOK, JobsOK
  <2>10. WhenOut'
    <3> SUFFICES ASSUME ~ signedIn, "load" \notin crossed
                 PROVE  Erased' \/ Back'
      BY <1>2 DEF WhenOut
    <3>1. CASE Erased
      <4>1. crossed # {} /\ Clean(tokens)
        BY <1>2, <3>1 DEF Erased
      <4>2. Clean(t) /\ Clean(tokens)'
        BY <1>2, <2>2, <2>4, <4>1 DEF Clean, valid
      <4>3. PICK k \in 0 .. Len(jobs) : Erases(k) /\ (k = 0 /\ ~ faulted => Clean(slot))
        BY <3>1 DEF Erased
      <4>4. (\A j \in (k + 1) .. Len(jobs) : Clean(jobs[j].t))
        BY <4>3 DEF Erases
      <4>5. \A j \in (k + 1) .. Len(jobs') : Clean(jobs'[j].t)
        BY <2>4, <2>5, <4>2, <4>4, JobTypes
      <4>6. Erases(k)'
        <5>1. k = 0 \/ jobs'[k] = Erase
          BY <2>5, <4>3 DEF Erases
        <5> QED BY <1>2, <4>1, <4>5, <5>1 DEF Erases, Clean, valid
      <4>7. k \in 0 .. Len(jobs')
        BY <2>5
      <4>8. k = 0 /\ ~ faulted' => Clean(slot)'
        BY <1>2, <4>3 DEF Clean, valid
      <4>9. Queued("load") => Clean(slot)
        BY <2>8, <3>1 DEF Erased
      <4>10. Queued("load")' => Clean(slot)'
        BY <1>2, <2>6, <4>9 DEF Clean, valid
      <4> QED BY <1>2, <4>1, <4>2, <4>6, <4>7, <4>8, <4>10 DEF Erased
    <3>2. CASE Back
      <4>1. valid(tokens) /\ ~ Queued("load")
        BY <1>2, <3>2, TokenTypes DEF Back
      <4>2. valid(t)
        BY <2>4, <4>1 DEF valid
      <4>3. \A i \in DOMAIN jobs' : jobs'[i].op # "load" => valid(jobs'[i].t)
        BY <2>4, <2>5, <3>2, <4>2, JobTypes DEF Back
      <4>4. valid(tokens)'
        BY <2>2, <4>2 DEF valid
      <4>5. \A i \in DOMAIN jobs' : jobs'[i].op # "load" => valid(jobs[i].t)'
        BY <4>3 DEF valid
      <4> QED BY <1>2, <2>6, <3>2, <4>1, <4>4, <4>5 DEF Back
    <3> QED BY <3>1, <3>2 DEF StoreOK, WhenOut
  <2>11. WhenIn'
    <3> SUFFICES ASSUME signedIn, crossed = {}
                 PROVE  WhenIn'
      BY <1>2 DEF WhenIn
    <3>1. f.grant = tokens.grant /\ \A i \in DOMAIN frames' : frames'[i].grant = tokens.grant
      BY <1>3 DEF StoreOK, WhenIn
    <3>2. Agree(t) /\ valid(t)
      BY <2>3, <2>4, <3>1 DEF Agree, valid, Grants
    <3>3. Agree(tokens)' /\ valid(tokens)' /\ Writes'
      BY <2>2, <2>4, <2>5, <3>2, JobTypes DEF Agree, valid, Writes
    <3>4. Queued("load")' => Writes' /\ slot' = NoTokens
      BY <1>2, <2>6, <2>8, <3>3 DEF StoreOK, WhenIn
    <3> QED BY <2>2, <2>4, <2>5, <3>1, <3>3, <3>4 DEF WhenIn
  <2> QED BY <2>2, <2>4, <2>7, <2>9, <2>10, <2>11 DEF StoreOK
<1> QED BY <1>4, <1>5

\* What JobsOK says of a queue whose first job is through.
LEMMA Popped ==
    ASSUME jobs \in Seq(Job), JobsOK, jobs # <<>>, jobs' = Tail(jobs)
    PROVE  /\ jobs' \in Seq(Job) /\ Head(jobs) \in Job /\ Head(jobs) = jobs[1] /\ 1 \in DOMAIN jobs
           /\ Len(jobs') = Len(jobs) - 1 /\ Len(jobs) \in Nat \ {0}
           /\ DOMAIN jobs = 1 .. Len(jobs) /\ DOMAIN jobs' = 1 .. Len(jobs')
           /\ \A i \in 1 .. Len(jobs') : i + 1 \in 1 .. Len(jobs) /\ jobs'[i] = jobs[i + 1]
           /\ \A i \in 1 .. Len(jobs') : jobs'[i].op # "load"
           /\ JobsOK' /\ ~ Queued("load")'
           /\ Queued("load") => Head(jobs).op = "load"
           /\ jobs' # <<>> => Writes /\ Writes' /\ Last(jobs') = Last(jobs)
           /\ jobs' = <<>> => ~ Writes' /\ Last(jobs) = Head(jobs)
<1>1. /\ jobs' \in Seq(Job) /\ Head(jobs) \in Job /\ Head(jobs) = jobs[1]
      /\ Len(jobs') = Len(jobs) - 1 /\ Len(jobs) \in Nat \ {0}
      /\ DOMAIN jobs = 1 .. Len(jobs) /\ DOMAIN jobs' = 1 .. (Len(jobs) - 1)
      /\ \A i \in 1 .. (Len(jobs) - 1) : jobs'[i] = jobs[i + 1]
      /\ jobs' = <<>> => Last(jobs) = Head(jobs)
      /\ jobs' # <<>> => Last(jobs') = Last(jobs) /\ Len(jobs) > 1
  BY Tailed
<1>2. \A i \in 1 .. Len(jobs') : i + 1 \in 1 .. Len(jobs) /\ jobs'[i] = jobs[i + 1]
  BY <1>1
<1>3. \A i \in 1 .. Len(jobs') : jobs'[i].op # "load"
  <2> SUFFICES ASSUME NEW i \in 1 .. Len(jobs')
               PROVE  jobs'[i].op # "load"
    OBVIOUS
  <2>1. i + 1 \in DOMAIN jobs /\ i + 1 # 1 /\ jobs'[i] = jobs[i + 1]
    BY <1>1, <1>2
  <2> QED BY <2>1 DEF JobsOK
<1>4. ~ Queued("load")'
  BY <1>1, <1>3 DEF Queued
<1>5. jobs' # <<Load>>
  <2>1. CASE jobs' = <<Load>>
    <3>1. PICK q : q = <<Load>>
      OBVIOUS
    <3>2. Len(q) = 1 /\ q[1] = Load /\ jobs' = q
      BY <2>1, <3>1
    <3>3. 1 \in 1 .. Len(jobs') /\ jobs'[1] = Load
      BY <3>2
    <3> QED BY <1>3, <3>3, JobTypes
  <2> QED BY <2>1
<1>6. JobsOK'
  <2>1. \A i \in DOMAIN jobs' : jobs'[i].op \in {"load", "erase"} => jobs'[i].t = NoTokens
    BY <1>1, <1>2 DEF JobsOK
  <2> QED BY <1>1, <1>3, <1>5, <2>1 DEF JobsOK
<1>7. Queued("load") => Head(jobs).op = "load"
  BY <1>1 DEF Queued, JobsOK
<1>8. jobs' # <<>> => Writes /\ Writes'
  <2>1. CASE jobs' # <<>>
    <3>1. Len(jobs') \in 1 .. Len(jobs') /\ Last(jobs') = jobs'[Len(jobs')]
      BY <1>1, <2>1 DEF Last
    <3>2. Last(jobs').op # "load"
      BY <1>3, <3>1
    <3> QED BY <1>1, <2>1, <3>2 DEF Writes
  <2> QED BY <2>1
<1> QED BY <1>1, <1>2, <1>3, <1>4, <1>6, <1>7, <1>8 DEF Writes

LEMMA ErasesPopped ==
    ASSUME jobs \in Seq(Job), JobsOK, jobs # <<>>, jobs' = Tail(jobs), UNCHANGED crossed,
           NEW k \in 0 .. Len(jobs), Erases(k)
    PROVE  /\ k = 0 => Erases(0)' /\ Clean(Head(jobs).t)
           /\ k = 1 => Erases(0)' /\ Head(jobs) = Erase
           /\ k > 1 => k - 1 \in 1 .. Len(jobs') /\ Erases(k - 1)'
<1>1. /\ Len(jobs') = Len(jobs) - 1 /\ Len(jobs) \in Nat \ {0}
      /\ Head(jobs) = jobs[1] /\ DOMAIN jobs = 1 .. Len(jobs)
      /\ \A i \in 1 .. Len(jobs') : i + 1 \in 1 .. Len(jobs) /\ jobs'[i] = jobs[i + 1]
  BY Popped
<1>2. \A j \in (k + 1) .. Len(jobs) : Clean(jobs[j].t) /\ (crossed = {} => jobs[j] = Load)
  BY DEF Erases
<1>3. \A j \in 1 .. Len(jobs') :
         j + 1 > k => Clean(jobs'[j].t) /\ (crossed = {} => jobs'[j] = Load)
  <2> SUFFICES ASSUME NEW j \in 1 .. Len(jobs'), j + 1 > k
               PROVE  Clean(jobs'[j].t) /\ (crossed = {} => jobs'[j] = Load)
    OBVIOUS
  <2>1. j + 1 \in (k + 1) .. Len(jobs) /\ jobs'[j] = jobs[j + 1]
    BY <1>1
  <2> QED BY <1>2, <2>1
<1>4. CASE k = 0
  <2>1. Clean(jobs[1].t)
    BY <1>1, <1>2, <1>4
  <2>2. \A j \in 1 .. Len(jobs') : Clean(jobs'[j].t) /\ (crossed = {} => jobs'[j] = Load)
    BY <1>1, <1>3, <1>4
  <2>3. Erases(0)'
    BY <2>2 DEF Erases, Clean, valid
  <2> QED BY <1>1, <1>4, <2>1, <2>3
<1>5. CASE k = 1
  <2>1. jobs[1] = Erase
    BY <1>5 DEF Erases
  <2>2. \A j \in 1 .. Len(jobs') : Clean(jobs'[j].t) /\ (crossed = {} => jobs'[j] = Load)
    BY <1>1, <1>3, <1>5
  <2>3. Erases(0)'
    BY <2>2 DEF Erases, Clean, valid
  <2> QED BY <1>1, <1>5, <2>1, <2>3
<1>6. CASE k > 1
  <2>1. jobs[k] = Erase
    BY <1>6 DEF Erases
  <2>2. k - 1 \in 1 .. Len(jobs') /\ jobs'[k - 1] = jobs[k - 1 + 1]
    BY <1>1, <1>6
  <2>3. jobs'[k - 1] = Erase
    BY <2>1, <2>2
  <2>4. \A j \in ((k - 1) + 1) .. Len(jobs') : Clean(jobs'[j].t) /\ (crossed = {} => jobs'[j] = Load)
    BY <1>1, <1>3, <1>6
  <2>5. Erases(k - 1)'
    BY <2>3, <2>4 DEF Erases, Clean, valid
  <2> QED BY <1>6, <2>2, <2>5
<1> QED BY <1>4, <1>5, <1>6

LEMMA UnderWayIs ==
    /\ UnderWay \subseteq {"load", "refresh"}
    /\ "load" \in UnderWay <=> Queued("load") /\ slot # NoTokens
    /\ "refresh" \in UnderWay <=> frames # <<>>
  BY DEF UnderWay

LEMMA adoptTokensStore ==
    ASSUME CallsOK, StoreOK, adoptTokens
    PROVE  StoreOK'
<1>1. PICK t : t = Issued(grants')
  OBVIOUS
<1>2. /\ grants' \in 0 .. MaxGrants /\ grants' \in Grants
      /\ tokens' = t /\ fresh' = TRUE /\ jobs' = jobs \o <<Save(t), Save(t)>>
      /\ signedIn' = TRUE /\ crossed' = UnderWay
      /\ UNCHANGED <<slot, frames, revokes, revoked, faulted>>
  BY <1>1, SessionAssumption DEF adoptTokens, callVars, Grants, StoreOK, StoreTypes
<1>3. t \in Tokens /\ valid(t) /\ Agree(t)
  BY <1>1, <1>2, TokenTypes
<1>4. PICK e : e = Save(t)
  OBVIOUS
<1>5. e \in Job /\ e.op = "save" /\ jobs \in Seq(Job)
  BY <1>3, <1>4, JobTypes DEF StoreOK, StoreTypes
<1>6. PICK b : b = Append(jobs, e)
  OBVIOUS
<1>7. /\ b \in Seq(Job) /\ Len(b) = Len(jobs) + 1 /\ Len(jobs) \in Nat
      /\ DOMAIN jobs = 1 .. Len(jobs) /\ b[Len(jobs) + 1] = e
      /\ \A i \in 1 .. Len(jobs) : b[i] = jobs[i]
  BY <1>5, <1>6, Appended
<1>8. /\ jobs' \in Seq(Job) /\ jobs' # <<>> /\ Last(jobs') = e
      /\ DOMAIN jobs' = 1 .. (Len(jobs) + 2)
      /\ jobs'[Len(jobs) + 2] = e
      /\ \A i \in 1 .. (Len(jobs) + 1) : jobs'[i] = b[i]
  <2>1. jobs' = Append(b, e)
    BY <1>2, <1>4, <1>5, <1>6
  <2>2. /\ Append(b, e) \in Seq(Job) /\ Append(b, e) # <<>> /\ Last(Append(b, e)) = e
        /\ DOMAIN Append(b, e) = 1 .. (Len(b) + 1) /\ Append(b, e)[Len(b) + 1] = e
        /\ \A i \in 1 .. Len(b) : Append(b, e)[i] = b[i]
    BY <1>5, <1>7, Appended
  <2>3. Len(b) + 1 = Len(jobs) + 2
    BY <1>7
  <2> QED BY <1>7, <2>1, <2>2, <2>3
<1>9. \A i \in DOMAIN jobs' : jobs'[i] = e \/ (i \in DOMAIN jobs /\ jobs'[i] = jobs[i])
  BY <1>7, <1>8
<1>10. StoreTypes'
  BY <1>2, <1>3, <1>8, UnderWayIs DEF StoreOK, StoreTypes
<1>11. Queued("load")' => Queued("load")
  BY <1>5, <1>9 DEF Queued
<1>12. JobsOK'
  <2>1. jobs' # <<Load>>
    <3>1. CASE jobs' = <<Load>>
      <4>1. Last(jobs') = Load
        BY <3>1 DEF Last
      <4> QED BY <1>5, <1>8, <4>1, JobTypes
    <3> QED BY <3>1
  <2> QED BY <1>5, <1>9, <2>1 DEF StoreOK, JobsOK
<1>13. Writes'
  BY <1>5, <1>8 DEF Writes
<1>14. crossed' = {} => frames' = <<>> /\ (Queued("load")' => slot' = NoTokens)
  BY <1>2, <1>11, UnderWayIs
<1>15. WhenIn'
  <2>1. Agree(tokens)' /\ valid(tokens)' /\ Last(jobs') = Save(tokens')
    BY <1>2, <1>3, <1>4, <1>8 DEF Agree, valid
  <2> QED BY <1>13, <1>14, <2>1 DEF WhenIn
<1> QED BY <1>2, <1>10, <1>12, <1>15 DEF StoreOK, WhenOut

LEMMA signOutStore ==
    ASSUME CallsOK, StoreOK, signOut
    PROVE  StoreOK'
<1>1. /\ tokens' = NoTokens /\ fresh' = FALSE /\ jobs' = Append(jobs, Erase)
      /\ signedIn' = FALSE /\ crossed' = UnderWay
      /\ UNCHANGED <<slot, frames, grants, revoked, faulted>>
  BY DEF signOut, callVars
<1>2. revokes' \subseteq Grants
  BY DEF signOut, StoreOK, StoreTypes, valid, Tokens
<1>3. /\ jobs' \in Seq(Job) /\ jobs' # <<>> /\ Len(jobs') = Len(jobs) + 1 /\ Len(jobs) \in Nat
      /\ DOMAIN jobs' = 1 .. (Len(jobs) + 1) /\ DOMAIN jobs = 1 .. Len(jobs)
      /\ \A i \in 1 .. Len(jobs) : jobs'[i] = jobs[i]
      /\ jobs'[Len(jobs) + 1] = Erase /\ Last(jobs') = Erase
  BY <1>1, JobTypes, Appended DEF StoreOK, StoreTypes
<1>4. StoreTypes'
  BY <1>1, <1>2, <1>3, TokenTypes, UnderWayIs DEF StoreOK, StoreTypes
<1>5. Queued("load")' => Queued("load")
  BY <1>3, JobTypes DEF Queued
<1>6. JobsOK'
  <2>1. jobs' # <<Load>>
    <3>1. CASE jobs' = <<Load>>
      <4>1. Last(jobs') = Load
        BY <3>1 DEF Last
      <4> QED BY <1>3, <4>1, JobTypes
    <3> QED BY <3>1
  <2> QED BY <1>3, <2>1, JobTypes DEF StoreOK, JobsOK
<1>7. WhenOut'
  <2> SUFFICES ASSUME "load" \notin crossed'
               PROVE  Erased'
    BY DEF WhenOut
  <2>1. Clean(tokens)'
    BY <1>1, TokenTypes DEF Clean, valid
  <2>2. crossed' = {} => frames' = <<>>
    BY <1>1, UnderWayIs
  <2>3. Queued("load")' => Clean(slot)'
    BY <1>1, <1>5, TokenTypes, UnderWayIs DEF Clean, valid
  <2>4. PICK k \in 0 .. Len(jobs') : k = Len(jobs')
    BY <1>3
  <2>5. Erases(k)' /\ k # 0
    BY <1>3, <2>4 DEF Erases
  <2> QED BY <2>1, <2>2, <2>3, <2>5 DEF Erased
<1>8. WhenIn'
  BY <1>1 DEF WhenIn
<1> QED BY <1>4, <1>6, <1>7, <1>8 DEF StoreOK

LEMMA hydrateFromStoreStep ==
    ASSUME CallsOK, StoreOK, hydrateFromStore
    PROVE  StoreOK'
<1>1. PICK t : t = Hydrated(slot)
  OBVIOUS
<1>2. /\ jobs # <<>> /\ jobs' = Tail(jobs) /\ Head(jobs).op = "load" /\ tokens' = t /\ fresh' \in BOOLEAN
      /\ UNCHANGED <<slot, frames, grants, revokes, revoked, signedIn, crossed, faulted>>
  BY <1>1 DEF hydrateFromStore, callVars, googleVars, userVars, StoreOK, StoreTypes
<1>3. t \in {slot, tokens} /\ (~ valid(tokens) => t = slot)
  BY <1>1 DEF Hydrated
<1>4. JobsOK /\ jobs \in Seq(Job)
  BY DEF StoreOK, StoreTypes
<1>5. /\ jobs' \in Seq(Job) /\ Head(jobs) = jobs[1] /\ 1 \in DOMAIN jobs
      /\ Len(jobs') = Len(jobs) - 1 /\ Len(jobs) \in Nat \ {0}
      /\ DOMAIN jobs = 1 .. Len(jobs) /\ DOMAIN jobs' = 1 .. Len(jobs')
      /\ \A i \in 1 .. Len(jobs') : i + 1 \in 1 .. Len(jobs) /\ jobs'[i] = jobs[i + 1]
      /\ \A i \in 1 .. Len(jobs') : jobs'[i].op # "load"
      /\ JobsOK' /\ ~ Queued("load")'
      /\ jobs' # <<>> => Writes /\ Writes' /\ Last(jobs') = Last(jobs)
      /\ jobs' = <<>> => ~ Writes' /\ Last(jobs) = Head(jobs)
  BY <1>2, <1>4, Popped
<1>6. Queued("load")
  BY <1>2, <1>5 DEF Queued
<1>7. StoreTypes'
  BY <1>2, <1>3, <1>5 DEF StoreOK, StoreTypes
<1>8. jobs = <<Load>> => jobs' = <<>> /\ tokens = NoTokens /\ frames = <<>> /\ t = slot
  BY <1>2, <1>3, TokenTypes DEF StoreOK, JobsOK
<1>9. WhenOut'
  <2> SUFFICES ASSUME ~ signedIn, "load" \notin crossed
               PROVE  Erased' \/ Back'
    BY <1>2 DEF WhenOut
  <2>1. CASE Erased /\ Clean(slot)
    <3>1. PICK k \in 0 .. Len(jobs) : Erases(k)
      BY <2>1 DEF Erased
    <3>2. Clean(tokens)' /\ Clean(slot)'
      BY <1>2, <1>3, <2>1 DEF Erased, Clean, valid
    <3>3. k # 1
      BY <1>2, <1>5, <3>1, JobTypes DEF Erases
    <3>4. CASE k = 0
      <4>1. Erases(0)' /\ 0 \in 0 .. Len(jobs')
        BY <1>2, <1>4, <1>5, <3>1, <3>4, ErasesPopped
      <4> QED BY <1>2, <1>5, <2>1, <3>2, <4>1 DEF Erased
    <3>5. CASE k > 1
      <4>1. k - 1 \in 1 .. Len(jobs') /\ Erases(k - 1)'
        BY <1>2, <1>4, <3>1, <3>5, ErasesPopped
      <4>2. PICK l \in 0 .. Len(jobs') : l = k - 1 /\ l # 0
        BY <1>5, <4>1
      <4> QED BY <1>2, <1>5, <2>1, <3>2, <4>1, <4>2 DEF Erased
    <3> QED BY <3>1, <3>3, <3>4, <3>5
  <2>2. CASE Erased /\ ~ Clean(slot)
    <3>1. jobs = <<Load>>
      BY <1>6, <2>2 DEF Erased
    <3>2. PICK k \in 0 .. Len(jobs) : Erases(k) /\ (k = 0 /\ ~ faulted => Clean(slot))
      BY <2>2 DEF Erased
    <3>3. k # 1
      BY <1>2, <1>5, <3>2, JobTypes DEF Erases
    <3>4. Len(jobs) = 1
      BY <3>1
    <3>5. faulted
      BY <2>2, <3>2, <3>3, <3>4
    <3>6. frames' = <<>> /\ DOMAIN jobs' = {}
      BY <1>2, <1>8, <3>1
    <3> QED BY <1>2, <1>5, <3>5, <3>6 DEF Back
  <2>3. CASE Back
    <3>1. frames = <<>> /\ faulted
      BY <1>6, <2>3, TokenTypes DEF Back
    <3>2. \A i \in DOMAIN jobs' : jobs'[i].op # "load" => valid(jobs'[i].t)
      BY <1>5, <2>3 DEF Back
    <3>3. \A i \in DOMAIN jobs' : jobs'[i].op # "load" => valid(jobs[i].t)'
      BY <3>2 DEF valid
    <3> QED BY <1>2, <1>5, <3>1, <3>3 DEF Back
  <2> QED BY <2>1, <2>2, <2>3 DEF StoreOK, WhenOut
<1>10. WhenIn'
  <2> SUFFICES ASSUME signedIn, crossed = {}
               PROVE  WhenIn'
    BY <1>2 DEF WhenIn
  <2>1. CASE jobs = <<Load>>
    <3>1. ~ Writes
      BY <2>1, JobTypes DEF Writes, Last
    <3>2. ~ faulted => Agree(slot)
      BY <3>1 DEF StoreOK, WhenIn
    <3>3. ~ faulted' => Agree(slot)' /\ Agree(tokens)' /\ slot' = tokens'
      BY <1>2, <1>8, <2>1, <3>2 DEF Agree
    <3>4. DOMAIN frames' = {}
      BY <1>2, <1>8, <2>1
    <3> QED BY <1>5, <1>8, <2>1, <3>3, <3>4 DEF WhenIn
  <2>2. CASE jobs # <<Load>>
    <3>1. Writes /\ slot = NoTokens
      BY <1>6, <2>2 DEF StoreOK, WhenIn
    <3>2. Agree(tokens) /\ valid(tokens) /\ Last(jobs) = Save(tokens)
      BY <3>1 DEF StoreOK, WhenIn
    <3>3. t = tokens
      BY <1>1, <3>1, <3>2, TokenTypes DEF Hydrated
    <3>4. jobs' # <<>>
      BY <1>2, <1>5, <3>1 DEF Writes
    <3>5. Agree(tokens)' /\ valid(tokens)' /\ Last(jobs') = Save(tokens')
      BY <1>2, <1>5, <3>2, <3>3, <3>4 DEF Agree, valid
    <3>6. \A i \in DOMAIN frames' : frames'[i].grant = tokens'.grant
      BY <1>2, <3>3 DEF StoreOK, WhenIn
    <3> QED BY <1>5, <3>4, <3>5, <3>6 DEF WhenIn
  <2> QED BY <2>1, <2>2
<1> QED BY <1>5, <1>7, <1>9, <1>10 DEF StoreOK

LEMMA WriteSlotStore ==
    ASSUME CallsOK, StoreOK, WriteSlot
    PROVE  StoreOK'
<1>1. PICK h : h = Head(jobs)
  OBVIOUS
<1>2. /\ jobs # <<>> /\ jobs' = Tail(jobs) /\ h.op \in {"save", "erase"} /\ slot' = h.t
      /\ faulted' = (faulted /\ signedIn # valid(slot'))
      /\ UNCHANGED <<tokens, fresh, frames, grants, revokes, revoked, signedIn, crossed>>
  BY <1>1 DEF WriteSlot, tokenVars, callVars, googleVars
<1>3. JobsOK /\ jobs \in Seq(Job)
  BY DEF StoreOK, StoreTypes
<1>4. /\ jobs' \in Seq(Job) /\ h \in Job /\ h = jobs[1] /\ 1 \in DOMAIN jobs
      /\ Len(jobs') = Len(jobs) - 1 /\ Len(jobs) \in Nat \ {0}
      /\ DOMAIN jobs = 1 .. Len(jobs) /\ DOMAIN jobs' = 1 .. Len(jobs')
      /\ \A i \in 1 .. Len(jobs') : i + 1 \in 1 .. Len(jobs) /\ jobs'[i] = jobs[i + 1]
      /\ JobsOK' /\ ~ Queued("load")'
      /\ jobs' # <<>> => Writes /\ Writes' /\ Last(jobs') = Last(jobs)
      /\ jobs' = <<>> => ~ Writes' /\ Last(jobs) = h
  BY <1>1, <1>2, <1>3, Popped
<1>5. h.t \in Tokens /\ (h.op = "erase" => h.t = NoTokens)
  BY <1>3, <1>4 DEF Job, JobsOK
<1>6. StoreTypes'
  BY <1>2, <1>4, <1>5 DEF StoreOK, StoreTypes
<1>7. WhenOut'
  <2> SUFFICES ASSUME ~ signedIn, "load" \notin crossed
               PROVE  Erased' \/ Back'
    BY <1>2 DEF WhenOut
  <2>1. CASE Erased
    <3>1. PICK k \in 0 .. Len(jobs) : Erases(k)
      BY <2>1 DEF Erased
    <3>2. Clean(tokens)' /\ (crossed' = {} => frames' = <<>>)
      BY <1>2, <2>1 DEF Erased, Clean, valid
    <3>3. CASE k > 1
      <4>1. k - 1 \in 1 .. Len(jobs') /\ Erases(k - 1)'
        BY <1>2, <1>3, <3>1, <3>3, ErasesPopped
      <4>2. PICK l \in 0 .. Len(jobs') : l = k - 1 /\ l # 0
        BY <1>4, <4>1
      <4> QED BY <1>4, <3>2, <4>1, <4>2 DEF Erased
    <3>4. CASE k \in {0, 1}
      <4>1. Erases(0)' /\ 0 \in 0 .. Len(jobs') /\ (Clean(h.t) \/ h = Erase)
        BY <1>1, <1>2, <1>3, <1>4, <3>1, <3>4, ErasesPopped
      <4>2. Clean(h.t)
        BY <4>1, JobTypes, TokenTypes DEF Clean
      <4>3. Clean(slot)'
        BY <1>2, <4>2 DEF Clean, valid
      <4> QED BY <1>4, <3>2, <4>1, <4>3 DEF Erased
    <3> QED BY <1>4, <3>1, <3>3, <3>4
  <2>2. CASE Back
    <3>1. h.op # "load" /\ valid(h.t)
      BY <1>2, <1>4, <2>2 DEF Back
    <3>2. faulted'
      BY <1>2, <2>2, <3>1 DEF Back, valid
    <3>3. \A i \in DOMAIN jobs' : jobs'[i].op # "load" => valid(jobs'[i].t)
      BY <1>4, <2>2 DEF Back
    <3>4. \A i \in DOMAIN jobs' : jobs'[i].op # "load" => valid(jobs[i].t)'
      BY <3>3 DEF valid
    <3>5. frames' # <<>> => valid(tokens)'
      BY <1>2, <2>2 DEF Back, valid
    <3> QED BY <1>4, <3>2, <3>4, <3>5 DEF Back
  <2> QED BY <2>1, <2>2 DEF StoreOK, WhenOut
<1>8. WhenIn'
  <2> SUFFICES ASSUME signedIn, crossed = {}
               PROVE  WhenIn'
    BY <1>2 DEF WhenIn
  <2>1. Writes
    BY <1>2, <1>4 DEF Writes
  <2>2. Agree(tokens) /\ valid(tokens) /\ Last(jobs) = Save(tokens)
    BY <2>1 DEF StoreOK, WhenIn
  <2>3. Agree(tokens)' /\ valid(tokens)'
    BY <1>2, <2>2 DEF Agree, valid
  <2>4. \A i \in DOMAIN frames' : frames'[i].grant = tokens'.grant
    BY <1>2 DEF StoreOK, WhenIn
  <2>5. CASE jobs' # <<>>
    <3>1. Last(jobs') = Save(tokens')
      BY <1>2, <1>4, <2>2, <2>5
    <3> QED BY <1>4, <2>3, <2>4, <2>5, <3>1 DEF WhenIn
  <2>6. CASE jobs' = <<>>
    <3>1. slot' = tokens
      BY <1>2, <1>4, <2>2, <2>6, JobTypes DEF StoreOK, StoreTypes
    <3>2. slot' = tokens' /\ Agree(slot)'
      BY <1>2, <2>2, <3>1 DEF Agree
    <3> QED BY <1>4, <2>3, <2>4, <2>6, <3>2 DEF WhenIn
  <2> QED BY <2>5, <2>6
<1> QED BY <1>4, <1>6, <1>7, <1>8 DEF StoreOK

LEMMA KeychainFailsStore ==
    ASSUME CallsOK, StoreOK, KeychainFails
    PROVE  StoreOK'
<1>1. /\ jobs # <<>> /\ jobs' = Tail(jobs) /\ faulted' = TRUE
      /\ UNCHANGED <<tokens, fresh, slot, frames, grants, revokes, revoked, signedIn, crossed>>
  BY DEF KeychainFails, tokenVars, callVars, googleVars
<1>2. JobsOK /\ jobs \in Seq(Job)
  BY DEF StoreOK, StoreTypes
<1>3. /\ jobs' \in Seq(Job)
      /\ Len(jobs') = Len(jobs) - 1 /\ Len(jobs) \in Nat \ {0}
      /\ DOMAIN jobs = 1 .. Len(jobs) /\ DOMAIN jobs' = 1 .. Len(jobs')
      /\ \A i \in 1 .. Len(jobs') : i + 1 \in 1 .. Len(jobs) /\ jobs'[i] = jobs[i + 1]
      /\ JobsOK' /\ ~ Queued("load")'
      /\ jobs' # <<>> => Writes /\ Writes' /\ Last(jobs') = Last(jobs)
      /\ jobs' = <<>> => ~ Writes'
  BY <1>1, <1>2, Popped
<1>4. StoreTypes'
  BY <1>1, <1>3 DEF StoreOK, StoreTypes
<1>5. WhenOut'
  <2> SUFFICES ASSUME ~ signedIn, "load" \notin crossed
               PROVE  Erased' \/ Back'
    BY <1>1 DEF WhenOut
  <2>1. CASE Erased
    <3>1. PICK k \in 0 .. Len(jobs) : Erases(k)
      BY <2>1 DEF Erased
    <3>2. Clean(tokens)' /\ (crossed' = {} => frames' = <<>>)
      BY <1>1, <2>1 DEF Erased, Clean, valid
    <3>3. \E l \in 0 .. Len(jobs') : Erases(l)'
      <4>1. CASE k > 1
        BY <1>1, <1>2, <1>3, <3>1, <4>1, ErasesPopped
      <4>2. CASE k \in {0, 1}
        BY <1>1, <1>2, <1>3, <3>1, <4>2, ErasesPopped
      <4> QED BY <1>3, <3>1, <4>1, <4>2
    <3> QED BY <1>1, <1>3, <3>2, <3>3 DEF Erased
  <2>2. CASE Back
    <3>1. \A i \in DOMAIN jobs' : jobs'[i].op # "load" => valid(jobs'[i].t)
      BY <1>3, <2>2 DEF Back
    <3>2. \A i \in DOMAIN jobs' : jobs'[i].op # "load" => valid(jobs[i].t)'
      BY <3>1 DEF valid
    <3>3. frames' # <<>> => valid(tokens)'
      BY <1>1, <2>2 DEF Back, valid
    <3> QED BY <1>1, <1>3, <3>2, <3>3 DEF Back
  <2> QED BY <2>1, <2>2 DEF StoreOK, WhenOut
<1>6. WhenIn'
  <2> SUFFICES ASSUME signedIn, crossed = {}
               PROVE  WhenIn'
    BY <1>1 DEF WhenIn
  <2>1. \A i \in DOMAIN frames' : frames'[i].grant = tokens'.grant
    BY <1>1 DEF StoreOK, WhenIn
  <2>2. Writes' => Agree(tokens)' /\ valid(tokens)' /\ Last(jobs') = Save(tokens')
    BY <1>1, <1>3 DEF StoreOK, WhenIn, Agree, valid
  <2> QED BY <1>1, <1>3, <2>1, <2>2 DEF WhenIn
<1> QED BY <1>3, <1>4, <1>5, <1>6 DEF StoreOK

LEMMA CrashStore ==
    ASSUME CallsOK, StoreOK, Crash
    PROVE  StoreOK'
<1>1. /\ tokens' = NoTokens /\ fresh' = FALSE /\ jobs' = <<Load>> /\ frames' = <<>>
      /\ revokes' = {} /\ faulted' = (faulted \/ Queued("save") \/ Queued("erase"))
      /\ UNCHANGED <<slot, grants, signedIn, crossed>>
  BY DEF Crash
<1>2. revoked' \subseteq Grants
  BY DEF Crash, StoreOK, StoreTypes
<1>3. PICK q : q = <<Load>>
  OBVIOUS
<1>4. /\ q \in Seq(Job) /\ q # <<>> /\ Len(q) = 1 /\ DOMAIN q = 1 .. 1 /\ Last(q) = Load
      /\ \A j \in 1 .. Len(q) : q[j] = Load
  BY <1>3, Loading
<1>5. jobs' = q /\ jobs' # <<>>
  BY <1>1, <1>3
<1>6. StoreTypes'
  BY <1>1, <1>2, <1>4, <1>5, TokenTypes DEF StoreOK, StoreTypes
<1>7. JobsOK'
  BY <1>1, <1>4, <1>5, JobTypes DEF JobsOK
<1>8. WhenOut'
  <2> SUFFICES ASSUME ~ signedIn, "load" \notin crossed
               PROVE  Erased'
    BY <1>1 DEF WhenOut
  <2>1. ~ faulted' => Clean(slot)
    <3> SUFFICES ASSUME ~ faulted'
                 PROVE  Clean(slot)
      OBVIOUS
    <3>1. ~ faulted /\ ~ Queued("erase")
      BY <1>1
    <3>2. PICK k \in 0 .. Len(jobs) : Erases(k) /\ (k = 0 /\ ~ faulted => Clean(slot))
      BY <3>1 DEF StoreOK, WhenOut, Erased, Back
    <3>3. k = 0
      <4>1. k # 0 => jobs[k] = Erase /\ k \in DOMAIN jobs
        BY <3>2, LenProperties DEF Erases, StoreOK, StoreTypes
      <4> QED BY <3>1, <4>1, JobTypes DEF Queued
    <3> QED BY <3>1, <3>2, <3>3
  <2>2. Clean(tokens)' /\ (~ faulted' => Clean(slot)')
    BY <1>1, <2>1, TokenTypes DEF Clean, valid
  <2>3. \A j \in 1 .. Len(jobs') : jobs'[j] = Load
    BY <1>4, <1>5
  <2>4. Erases(0)'
    BY <2>3, JobTypes, TokenTypes DEF Erases, Clean, valid
  <2>5. 0 \in 0 .. Len(jobs')
    BY <1>4, <1>5
  <2> QED BY <1>1, <2>2, <2>4, <2>5 DEF Erased
<1>9. WhenIn'
  <2> SUFFICES ASSUME signedIn, crossed = {}
               PROVE  WhenIn'
    BY <1>1 DEF WhenIn
  <2>1. ~ Writes'
    BY <1>4, <1>5, JobTypes DEF Writes
  <2>2. ~ faulted' => Agree(slot)
    <3>1. ~ faulted' => ~ faulted /\ ~ Queued("save") /\ ~ Queued("erase")
      BY <1>1
    <3>2. ~ Queued("save") /\ ~ Queued("erase") => ~ Writes
      <4> SUFFICES ASSUME Writes
                   PROVE  Queued("save") \/ Queued("erase")
        OBVIOUS
      <4>1. jobs \in Seq(Job) /\ jobs # <<>> /\ Last(jobs).op # "load"
        BY DEF Writes, StoreOK, StoreTypes
      <4>2. Last(jobs) \in Job /\ Last(jobs) = jobs[Len(jobs)] /\ Len(jobs) \in DOMAIN jobs
        BY <4>1, Fronted
      <4> QED BY <4>1, <4>2 DEF Queued, Job
    <3> QED BY <3>1, <3>2 DEF StoreOK, WhenIn
  <2>3. ~ faulted' => Agree(tokens)' /\ Agree(slot)'
    BY <1>1, <2>2, TokenTypes DEF Agree
  <2>4. DOMAIN frames' = {}
    BY <1>1
  <2> QED BY <1>1, <1>5, <2>1, <2>3, <2>4 DEF WhenIn
<1> QED BY <1>6, <1>7, <1>8, <1>9 DEF StoreOK

-----------------------------------------------------------------------------
(* The steps.                                                              *)

LEMMA InitIInv == Init => IInv
<1> SUFFICES ASSUME Init
             PROVE  IInv
  OBVIOUS
<1>1. PICK q : q = <<Load>>
  OBVIOUS
<1>2. /\ q \in Seq(Job) /\ q # <<>> /\ Len(q) = 1 /\ DOMAIN q = 1 .. 1 /\ Last(q) = Load
      /\ \A j \in 1 .. Len(q) : q[j] = Load
  BY <1>1, Loading
<1>3. jobs = q /\ jobs # <<>> /\ frames = <<>> /\ DOMAIN frames = {} /\ tokens = NoTokens
  BY <1>1 DEF Init
<1>4. reqs \in [Requests -> Request] /\ taken \in [Requests -> Nat] /\ resent \in [Requests -> Nat] /\ frames \in Seq(Frame)
  BY RequestTypes DEF Init
<1>5. \A r \in Requests : reqs[r] = NewRequest /\ taken[r] = 0 /\ resent[r] = 0
  BY DEF Init
<1>6. Stacked /\ Honest
  BY <1>3, <1>5, RequestTypes DEF Stacked, Honest, HonestAt
<1>7. slot \in Tokens /\ Agree(slot) /\ (~ signedIn => slot = NoTokens)
  <2>1. grants \in 0 .. 1 /\ slot = IF grants = 0 THEN NoTokens ELSE Issued(1)
    BY DEF Init
  <2>2. 1 \in Grants /\ (grants # 1 => grants = 0)
    BY <2>1, SessionAssumption DEF Grants
  <2>3. signedIn <=> grants = 1
    BY Zenon DEF Init
  <2> QED BY <2>1, <2>2, <2>3, TokenTypes
<1>8. StoreTypes
  <2>1. grants \in 0 .. MaxGrants
    BY SessionAssumption DEF Init
  <2>2. signedIn \in BOOLEAN /\ fresh \in BOOLEAN /\ faulted \in BOOLEAN
    BY Zenon DEF Init
  <2>3. revokes \subseteq Grants /\ revoked \subseteq Grants /\ crossed \subseteq {"load", "refresh"}
    BY DEF Init
  <2> QED BY <1>2, <1>3, <1>7, <2>1, <2>2, <2>3, TokenTypes DEF StoreTypes
<1>9. JobsOK
  BY <1>2, <1>3, JobTypes DEF JobsOK
<1>10. ~ Writes /\ (Queued("load") => jobs = <<Load>>)
  BY <1>1, <1>2, <1>3, JobTypes DEF Writes
<1>11. WhenOut
  <2> SUFFICES ASSUME ~ signedIn
               PROVE  Erased
    BY DEF WhenOut
  <2>1. Clean(tokens) /\ Clean(slot) /\ Clean(NoTokens)
    BY <1>3, <1>7, TokenTypes DEF Clean
  <2>2. \A j \in 1 .. Len(jobs) : jobs[j] = Load
    BY <1>2, <1>3
  <2>3. Erases(0)
    BY <2>1, <2>2, JobTypes DEF Erases
  <2>4. 0 \in 0 .. Len(jobs)
    BY <1>2, <1>3
  <2> QED BY <1>3, <2>1, <2>3, <2>4 DEF Erased
<1>12. WhenIn
  BY <1>1, <1>3, <1>7, <1>10, TokenTypes DEF WhenIn
<1> QED BY <1>4, <1>6, <1>8, <1>9, <1>11, <1>12 DEF IInv, CallsOK, StoreOK

\* A step that leaves the requests alone.
LEMMA CallsQuiet ==
    ASSUME CallsOK, UNCHANGED <<frames, reqs, taken, resent>>
    PROVE  CallsOK'
  BY DEF CallsOK, Stacked, Honest

\* A step of requests that leaves the tokens alone.
LEMMA ClientStep ==
    ASSUME IInv, NEW r \in Requests, send(r) \/ backoffEnds(r) \/ Replied(r) \/ Failed(r)
    PROVE  IInv'
<1>1. CallsOK /\ StoreOK /\ tokens \in Tokens
  BY DEF IInv, StoreOK, StoreTypes
<1>2. /\ UNCHANGED StoreVars /\ UNCHANGED <<taken, resent>>
      /\ fresh' \in BOOLEAN /\ grants' \in 0 .. MaxGrants /\ revokes' \subseteq Grants /\ revoked' \subseteq Grants
  <2>1. StoreTypes
    BY <1>1 DEF StoreOK
  <2> QED BY <2>1 DEF send, backoffEnds, Replied, Failed, StoreVars, StoreTypes,
                      tokenVars, storeVars, googleVars, userVars
<1>3. CallsOK' /\ (UNCHANGED frames \/ Waits(r))
  <2>1. CASE send(r)
    BY <1>1, <1>2, <2>1, RequestTypes, SendOnceStep DEF send
  <2>2. CASE backoffEnds(r)
    <3>1. PICK q : q = reqs[r]
      OBVIOUS
    <3>2. q \in Request /\ q.result = "none" /\ q.at = "backoff"
      BY <1>1, <2>2, <3>1 DEF backoffEnds, CallsOK, Honest, HonestAt
    <3>3. sendOnce(r, q, FALSE)
      BY <2>2, <3>1 DEF backoffEnds
    <3> QED BY <1>1, <1>2, <3>1, <3>2, <3>3, SendOnceStep
  <2>3. CASE Replied(r)
    BY <1>1, <1>2, <2>3, FinishedStep DEF Replied
  <2>4. CASE Failed(r)
    <3>1. CASE reqs[r].at = "wire" /\ \E st \in {"401", "429", "other"} : onFinished(r, st)
      <4>1. PICK st \in {"401", "429", "other"} : onFinished(r, st)
        BY <3>1
      <4>2. st \in {"401", "429", "other", "5xx", "none"}
        BY <4>1
      <4> QED BY <1>1, <1>2, <3>1, <4>1, <4>2, FinishedStep
    <3>2. CASE reqs[r].at \in {"wire", "taken"} /\ \E st \in {"5xx", "none"} : onFinished(r, st)
      <4>1. PICK st \in {"5xx", "none"} : onFinished(r, st)
        BY <3>2
      <4>2. /\ st \in {"2xx", "5xx", "none"} /\ st \in {"401", "429", "other", "5xx", "none"}
            /\ reqs[r].at = "wire" \/ reqs[r].at = "taken"
        BY <3>2, <4>1
      <4> QED BY <1>1, <1>2, <4>1, <4>2, FinishedStep
    <3> QED BY <2>4, <3>1, <3>2 DEF Failed
  <2> QED BY <2>1, <2>2, <2>3, <2>4
<1>4. FramesOK
  BY <1>3 DEF FramesOK
<1> QED BY <1>1, <1>2, <1>3, <1>4, FramesStep DEF IInv

LEMMA NextIInv == IInv /\ [Next]_vars => IInv'
<1> SUFFICES ASSUME IInv, [Next]_vars
             PROVE  IInv'
  OBVIOUS
<1>1. CallsOK /\ StoreOK /\ StoreTypes
  BY DEF IInv, StoreOK
<1>2. CASE adoptTokens
  BY <1>1, <1>2, CallsQuiet, adoptTokensStore DEF IInv, adoptTokens, callVars
<1>3. CASE signOut
  BY <1>1, <1>3, CallsQuiet, signOutStore DEF IInv, signOut, callVars
<1>4. CASE Expire \/ (\E g \in Grants : Revoke(g)) \/ UNCHANGED vars
  <2>1. /\ UNCHANGED StoreVars /\ UNCHANGED <<frames, reqs, taken, resent>>
        /\ fresh' \in BOOLEAN /\ grants' \in 0 .. MaxGrants /\ revokes' \subseteq Grants /\ revoked' \subseteq Grants
    BY <1>1, <1>4 DEF Expire, Revoke, vars, StoreVars, StoreTypes,
                      tokenVars, storeVars, callVars, googleVars, userVars
  <2>2. FramesOK
    BY <2>1 DEF FramesOK
  <2> QED BY <1>1, <2>1, <2>2, CallsQuiet, FramesStep DEF IInv
<1>5. CASE hydrateFromStore
  BY <1>1, <1>5, CallsQuiet, hydrateFromStoreStep DEF IInv, hydrateFromStore, callVars, googleVars
<1>6. CASE WriteSlot
  BY <1>1, <1>6, CallsQuiet, WriteSlotStore DEF IInv, WriteSlot, callVars, googleVars
<1>7. CASE KeychainFails
  BY <1>1, <1>7, CallsQuiet, KeychainFailsStore DEF IInv, KeychainFails, callVars, googleVars
<1>8. CASE refreshReturns
  BY <1>1, <1>8, RefreshReturnsCalls, RefreshReturnsStore DEF IInv, StoreTypes
<1>9. CASE \E r \in Requests : send(r) \/ backoffEnds(r) \/ Replied(r) \/ Failed(r)
  BY <1>9, ClientStep
<1>10. CASE \E i \in 1 .. Len(frames) : RefreshAnswered(i)
  <2>1. PICK i \in 1 .. Len(frames) : RefreshAnswered(i)
    BY <1>10
  <2>2. /\ CallsOK' /\ DOMAIN frames' = DOMAIN frames /\ frames # <<>>
        /\ \A j \in DOMAIN frames : frames'[j].grant = frames[j].grant
    BY <1>1, <2>1, RefreshAnsweredCalls
  <2>3. FramesOK
    BY <2>2 DEF FramesOK
  <2>4. /\ UNCHANGED StoreVars
        /\ fresh' \in BOOLEAN /\ grants' \in 0 .. MaxGrants /\ revokes' \subseteq Grants /\ revoked' \subseteq Grants
    BY <1>1, <2>1 DEF RefreshAnswered, StoreVars, StoreTypes, tokenVars, storeVars, googleVars, userVars
  <2> QED BY <1>1, <2>2, <2>3, <2>4, FramesStep DEF IInv
<1>11. CASE \E r \in Requests : Take(r) \/ Resent(r)
  <2>1. PICK r \in Requests : Take(r) \/ Resent(r)
    BY <1>11
  <2>2. /\ UNCHANGED StoreVars /\ UNCHANGED frames
        /\ fresh' \in BOOLEAN /\ grants' \in 0 .. MaxGrants /\ revokes' \subseteq Grants /\ revoked' \subseteq Grants
    BY <1>1, <2>1 DEF Take, Resent, StoreVars, StoreTypes, tokenVars, storeVars, userVars
  <2>3. FramesOK
    BY <2>2 DEF FramesOK
  <2> QED BY <1>1, <2>1, <2>2, <2>3, TakeCalls, ResentCalls, FramesStep DEF IInv
<1>12. CASE Crash
  BY <1>1, <1>12, CrashCalls, CrashStore DEF IInv
<1> QED BY <1>2, <1>3, <1>4, <1>5, <1>6, <1>7, <1>8, <1>9, <1>10, <1>11, <1>12
       DEF Next, Keychain, Client, Google

\* The inductive invariant of the session: the requests and the frames of the nested loops as
\* the code leaves them, and what the tokens and the keychain owe to the user.
THEOREM IInvAlways == Spec => []IInv
<1> QED BY InitIInv, NextIInv, PTL DEF Spec

\* The variables keep their types, and the requests in a nested loop are those on
\* the stack, one frame each.
THEOREM TypeOKAlways == Spec => []TypeOK
<1>1. IInv => TypeOK
  BY DEF IInv, CallsOK, Stacked, StoreOK, StoreTypes, TypeOK
<1> QED BY <1>1, IInvAlways, PTL

\* RestClient adds no copy of a POST to those the network stack sends again below
\* it, a request that reported success was taken, and of a POST that reported a
\* refusal Gmail took only copies that were sent again.
THEOREM RequestsHonestAlways == Spec => []RequestsHonest
<1>1. IInv => RequestsHonest
  <2> SUFFICES ASSUME IInv, NEW r \in Requests
               PROVE  /\ r \in Posts => taken[r] <= resent[r] + 1
                      /\ reqs[r].result = "ok" => taken[r] >= 1
                      /\ r \in Posts /\ reqs[r].result \in {"Auth", "RateLimited", "Other"} => taken[r] <= resent[r]
    BY DEF RequestsHonest
  <2>1. HonestAt(reqs[r], taken[r], resent[r], r \in Posts)
    BY DEF IInv, CallsOK, Honest
  <2> QED BY <2>1 DEF HonestAt
<1> QED BY <1>1, IInvAlways, PTL

\* OAuthClient::signOut() leaves no tokens in memory and, once the keychain has
\* worked its jobs off, none in the slot, unless a load or a refresh was under way.
THEOREM SignedOutStaysOutAlways == Spec => []SignedOutStaysOut
<1>1. IInv => SignedOutStaysOut
  <2> SUFFICES ASSUME IInv, ~ signedIn, ~ faulted, "load" \notin crossed
               PROVE  /\ ~ valid(tokens) /\ (~ valid(slot) \/ Queued("erase"))
                      /\ crossed = {} => tokens = NoTokens /\ (slot = NoTokens \/ Queued("erase"))
    BY DEF SignedOutStaysOut
  <2>1. Erased /\ jobs \in Seq(Job)
    BY DEF IInv, StoreOK, StoreTypes, WhenOut, Back
  <2>2. PICK k \in 0 .. Len(jobs) : Erases(k) /\ (k = 0 => Clean(slot))
    BY <2>1 DEF Erased
  <2>3. k # 0 => Queued("erase")
    <3>1. k # 0 => k \in DOMAIN jobs /\ jobs[k] = Erase
      BY <2>1, <2>2, LenProperties DEF Erases
    <3> QED BY <3>1, JobTypes DEF Queued
  <2> QED BY <2>1, <2>2, <2>3 DEF Erased, Clean
<1> QED BY <1>1, IInvAlways, PTL

\* The access token in memory and the refresh token are of one sign-in, and a slot
\* that no job is about to write holds what memory does.
THEOREM TokensAgreeAlways == Spec => []TokensAgree
<1>1. IInv => TokensAgree
  <2> SUFFICES ASSUME IInv, crossed = {}, ~ faulted
               PROVE  tokens.access = tokens.grant /\ (jobs = <<>> => slot = tokens)
    BY DEF TokensAgree
  <2>1. CASE signedIn
    BY <2>1 DEF IInv, StoreOK, WhenIn, Agree, Writes
  <2>2. CASE ~ signedIn
    <3>1. Erased
      BY <2>2 DEF IInv, StoreOK, WhenOut, Back
    <3>2. tokens = NoTokens
      BY <3>1 DEF Erased, Clean
    <3>3. jobs = <<>> => slot = NoTokens
      <4> SUFFICES ASSUME jobs = <<>>
                   PROVE  slot = NoTokens
        OBVIOUS
      <4>1. Len(jobs) = 0
        OBVIOUS
      <4>2. Clean(slot)
        BY <3>1, <4>1 DEF Erased
      <4> QED BY <4>2 DEF Clean
    <3> QED BY <3>2, <3>3, TokenTypes DEF Agree
  <2> QED BY <2>1, <2>2
<1> QED BY <1>1, IInvAlways, PTL
=============================================================================
