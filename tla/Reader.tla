------------------------------- MODULE Reader -------------------------------
(***************************************************************************)
(* Opening a message, and what is done to the message that is open: the      *)
(* selection MainWindow keeps (the view's current index, currentRow_,        *)
(* currentMessage_), what ReaderPane shows, the messages fetched because the  *)
(* cache does not have all of them, the edits of the toolbar, the shortcuts,  *)
(* the cards of the reader and the modal questions, and snoozed mail.        *)
(*                                                                         *)
(* The list is the conversation view, and short enough to be loaded at once  *)
(* (MessageList has the paging).  An edit ends with a modify queued for       *)
(* PendingOps.  The dry-run mode and signing out are left out.              *)
(***************************************************************************)
EXTENDS Integers, Sequences, FiniteSets, SequencesExt

CONSTANTS
    Mail,        \* the messages, from the oldest on: each has an account and a thread
    Start,       \* the labels of those in the cache at the start
    Whole,       \* those cached with their bodies and attachments at the start
    Fresh,       \* those that arrive while the program runs
    Home,        \* the account shown at the start
    MaxOpens,    \* bound: messages opened by clicks and keys
    MaxEdits,    \* bound: edits begun by the user
    MaxMoves,    \* bound: labels and accounts chosen, keys that only move
    MaxSyncs,    \* bound: changes a sync brings in
    MaxFaults    \* bound: fetches that fail, and crashes

Ids      == DOMAIN Mail
Accounts == {Mail[m].account : m \in Ids}
None     == 0

Inbox      == "INBOX"
AllMail    == "__all_mail"
UserLabels == {"Work"}
\* The labels table; Gmail has no MUTE label, and applyLabelDiff adds none it does not know.
Known      == UserLabels \cup {Inbox, "UNREAD", "STARRED", "SPAM", "TRASH", "IMPORTANT"}

ASSUME ReaderAssumption ==
    /\ Len(Mail) \in Nat /\ Ids = 1 .. Len(Mail) /\ Home \in Accounts
    /\ Fresh \subseteq Ids /\ Whole \subseteq Ids \ Fresh /\ Start \in [Ids -> SUBSET Known]
    /\ \A m, n \in Ids : Mail[m].thread = Mail[n].thread => Mail[m].account = Mail[n].account
    /\ {MaxOpens, MaxEdits, MaxMoves, MaxSyncs, MaxFaults} \subseteq Nat

VARIABLES
    stored,     \* the messages in the cache
    box,        \* message_labels
    whole,      \* the messages for which cacheLooksComplete
    snooze,     \* snooze_until: "never", "later" or "due"
    account,    \* currentAccountId_
    labelId,    \* currentLabelId_
    cross,      \* crossAccountView_
    ui,         \* the list's rows, its current index and what is open; see Ui
    fetching,   \* getMessage calls, with the labels the message had when it was asked for
    answers,    \* their results, on their way through the event loop
    dialog,     \* the modal question, and the message it was about
    queued,     \* the messages the last handler queued a modify for
    opens, edits, moves, syncs, faults,
    lost        \* messages whose wake-up a crash cut short

placeVars == <<account, labelId, cross>>
netVars   == <<fetching, answers>>
boundVars == <<opens, edits, moves, syncs, faults>>
vars == <<stored, box, whole, snooze, placeVars, ui, netVars, dialog, queued, boundVars, lost>>

\* The list and the reader.  Rows count from 1, and 0 is the code's -1.
Ui == [rows: Seq(Ids), selected: Nat, row: Nat, current: Ids \cup {None},
       shows: {"nothing", "loading", "failed", "mail"}, focus: Ids \cup {None},
       cards: SUBSET Ids]

\* by: how the edit was begun; of: the messages it is about; read: those opening marked read.
NoEdit   == [by |-> "nobody", of |-> {}, read |-> {}]
NoDialog == [kind |-> "none", about |-> None, applied |-> {}]

-----------------------------------------------------------------------------
(* The cache.                                                              *)

byThread(m) == {n \in stored : Mail[n].thread = Mail[m].thread}

\* applyLabelDiff for every message of S.
Diffed(B, S, add, remove) ==
    [m \in Ids |-> IF m \in S \cap stored THEN (B[m] \cup (add \cap Known)) \ remove ELSE B[m]]

Lists(l, B, m) ==
    \/ l = AllMail /\ B[m] \cap {"SPAM", "TRASH"} = {}
    \/ l \in B[m]

\* What a label lists of the cache C.
Listed(l, c, a, C, B) == {m \in C : Lists(l, B, m) /\ (c \/ Mail[m].account = a)}

\* The rows: of each conversation the latest message listed, the newest first.
Heads(S)    == {m \in S : \A n \in S : Mail[n].thread = Mail[m].thread => n <= m}
RowAt(H, m) == Cardinality({n \in H : n >= m})
Rows(S)     == LET H == Heads(S)
               IN  [i \in 1 .. Cardinality(H) |-> CHOOSE m \in H : RowAt(H, m) = i]

\* The row of message m, or 0.
RowOf(S, m) == IF m \in Heads(S) THEN RowAt(Heads(S), m) ELSE 0

\* The row of its conversation, or 0.
RowOfThread(S, m) ==
    LET same == {n \in Heads(S) : m # None /\ Mail[n].thread = Mail[m].thread}
    IN  IF same = {} THEN 0 ELSE RowAt(Heads(S), CHOOSE n \in same : TRUE)

-----------------------------------------------------------------------------
(* The list and the reader.                                                *)

Closed(rows) == [rows |-> rows, selected |-> 0, row |-> 0, current |-> None,
                 shows |-> "nothing", focus |-> None, cards |-> {}]

\* Mutant of rowRestored: the message itself or nothing.
rowRestoredById(S, m) == RowOf(S, m)

\* The row the selection goes to when the list is loaded again.
rowRestored(S, m) == IF RowOf(S, m) # 0 THEN RowOf(S, m) ELSE RowOfThread(S, m)

\* Mutant of reloaded: the reader is emptied, currentMessage_ is not.
reloadedUncleared(u, S) ==
    LET at == rowRestored(S, u.current)
    IN  IF at # 0 THEN [u EXCEPT !.rows = Rows(S), !.selected = at, !.row = at]
        ELSE [Closed(Rows(S)) EXCEPT !.current = u.current]

\* reloadCurrentLabel: the open message keeps its row, or else its conversation does, or else
\* nothing is open any more.
reloaded(u, S) ==
    LET at == rowRestored(S, u.current)
    IN  IF at # 0 THEN [u EXCEPT !.rows = Rows(S), !.selected = at, !.row = at]
        ELSE Closed(Rows(S))

\* The handler of messagesUpdated: refreshFromSource resets the model, and only the open
\* message itself is selected again.
refreshed(u, S) == [u EXCEPT !.rows = Rows(S), !.selected = RowOf(S, u.current)]

\* showThread or showMessage.
rendered(u, m) ==
    LET thread == byThread(m)
        many   == Cardinality(thread) > 1
    IN  [u EXCEPT !.current = m, !.shows = "mail",
                  !.focus = IF many /\ m \notin thread
                            THEN CHOOSE n \in thread : \A k \in thread : k <= n ELSE m,
                  !.cards = IF many THEN thread ELSE {m}]

showLoading(u)  == [u EXCEPT !.shows = "loading", !.cards = {}]
showFailed(u)   == [u EXCEPT !.shows = "failed", !.cards = {}]

Here(B) == Listed(labelId, cross, account, stored, B)

\* renderThread: the message is shown and its conversation marked read, which reloads the list.
\* E: the edit the handler made before.
renderThread(u, m, B, E) ==
    IF \E n \in byThread(m) : "UNREAD" \in B[n]
    THEN /\ box' = Diffed(B, byThread(m), {}, {"UNREAD"})
         /\ \E S \in {Here(box')} : ui' = reloaded(rendered(u, m), S)
         /\ queued' = [E EXCEPT !.read = byThread(m)]
    ELSE box' = B /\ ui' = rendered(u, m) /\ queued' = E

\* onMessageActivated for a row of the list.
onMessageActivated(u, i, B, E) ==
    LET m == u.rows[i]
        v == [u EXCEPT !.row = i]
    IN  IF m \in whole \cap stored
        THEN renderThread(v, m, B, E) /\ UNCHANGED fetching
        ELSE /\ ui' = showLoading(v) /\ box' = B /\ queued' = E
             /\ fetching' = Append(fetching, [msg |-> m, was |-> B[m]])

-----------------------------------------------------------------------------
(* The start, and what bounds the rest.                                    *)

Init ==
    /\ stored = Ids \ Fresh /\ box = Start /\ whole = Whole
    /\ snooze = [m \in Ids |-> "never"]
    /\ account = Home /\ labelId = Inbox /\ cross = FALSE
    /\ ui = Closed(Rows(Listed(Inbox, FALSE, Home, stored, box)))
    /\ fetching = <<>> /\ answers = <<>> /\ dialog = NoDialog /\ queued = NoEdit
    /\ opens = 0 /\ edits = 0 /\ moves = 0 /\ syncs = 0 /\ faults = 0 /\ lost = {}

\* A modal question blocks every key and click but its own.
Free == dialog.kind = "none"

Opening == Free /\ opens < MaxOpens /\ opens' = opens + 1
Editing == Free /\ edits < MaxEdits /\ edits' = edits + 1
Moving  == Free /\ moves < MaxMoves /\ moves' = moves + 1

cacheOnly == <<stored, whole, snooze, placeVars, answers, dialog, lost>>

-----------------------------------------------------------------------------
(* Opening.                                                                *)

\* A click on a row, or Enter there.
click(i) ==
    /\ Opening /\ i \in DOMAIN ui.rows
    /\ onMessageActivated([ui EXCEPT !.selected = i], i, box, NoEdit)
    /\ UNCHANGED <<cacheOnly, edits, moves, syncs, faults>>

\* Arrow keys move the view's current index and open nothing.
arrow(i) ==
    /\ Moving /\ i \in DOMAIN ui.rows /\ i # ui.selected
    /\ ui' = [ui EXCEPT !.selected = i] /\ queued' = NoEdit
    /\ UNCHANGED <<cacheOnly, box, fetching, opens, edits, syncs, faults>>

\* j and k: one row on or back, from the view's index or else from currentRow_.  The footer,
\* if there is one, is a row more; it can be selected and has nothing to open.
selectAt(step, footer) ==
    LET n    == Len(ui.rows) + footer
        from == IF ui.selected # 0 THEN ui.selected ELSE ui.row
        i    == IF from + step < 1 THEN 1 ELSE IF from + step > n THEN n ELSE from + step
        v    == [ui EXCEPT !.selected = i]
    IN  /\ Opening /\ n > 0
        /\ IF i \in DOMAIN ui.rows
           THEN onMessageActivated(v, i, box, NoEdit)
           ELSE ui' = v /\ queued' = NoEdit /\ UNCHANGED <<box, fetching>>
        /\ UNCHANGED <<cacheOnly, edits, moves, syncs, faults>>

onOpenCurrent ==
    /\ Opening /\ ui.selected \in DOMAIN ui.rows
    /\ onMessageActivated(ui, ui.selected, box, NoEdit)
    /\ UNCHANGED <<cacheOnly, edits, moves, syncs, faults>>

onBackToList ==
    /\ Moving /\ ui.row \in DOMAIN ui.rows /\ ui.row # ui.selected
    /\ ui' = [ui EXCEPT !.selected = ui.row] /\ queued' = NoEdit
    /\ UNCHANGED <<cacheOnly, box, fetching, opens, edits, syncs, faults>>

\* The open message is rendered again, over "Loading" and over a failure too.
onToggleLinkDisplay ==
    /\ Moving /\ ui.current \in stored
    /\ ui' = rendered(ui, ui.current) /\ queued' = NoEdit
    /\ UNCHANGED <<cacheOnly, box, fetching, opens, edits, syncs, faults>>

\* Gmail answers getMessage; what the user did to the message since may not have reached it.
\* The row is replaced at once, the window hears of it through its event loop.
messageArrives(f) ==
    LET m == f.msg
    IN  /\ stored' = stored \cup {m} /\ whole' = whole \cup {m}
        /\ \E labels \in {f.was, box[m]} : box' = [box EXCEPT ![m] = labels]
        /\ answers' = Append(answers, [msg |-> m, err |-> FALSE])
        /\ UNCHANGED faults

getMessageFails(f) ==
    /\ faults < MaxFaults /\ faults' = faults + 1
    /\ answers' = Append(answers, [msg |-> f.msg, err |-> TRUE])
    /\ UNCHANGED <<stored, whole, box>>

gmailAnswers ==
    /\ \E i \in DOMAIN fetching :
          /\ messageArrives(fetching[i]) \/ getMessageFails(fetching[i])
          /\ fetching' = RemoveAt(fetching, i)
    /\ queued' = NoEdit
    /\ UNCHANGED <<snooze, placeVars, ui, dialog, opens, edits, moves, syncs, lost>>

\* The answer is shown, whatever the user has opened or chosen since.
answerShown ==
    /\ answers # <<>> /\ answers' = Tail(answers)
    /\ IF Head(answers).err
       THEN ui' = showFailed(ui) /\ queued' = NoEdit /\ UNCHANGED box
       ELSE renderThread(ui, Head(answers).msg, box, NoEdit)
    /\ UNCHANGED <<stored, whole, snooze, placeVars, fetching, dialog, boundVars, lost>>

-----------------------------------------------------------------------------
(* Edits.                                                                  *)

\* The labels change, a modify is queued, the list is loaded again.
edited(by, S, add, remove) ==
    /\ box' = Diffed(box, S, add, remove)
    /\ \E L \in {Here(box')} : ui' = reloaded(ui, L)
    /\ queued' = [NoEdit EXCEPT !.by = by, !.of = S]

\* What the toolbar and the keys do to the conversation of currentMessage_.
ThreadEdits ==
    {[add |-> {}, remove |-> {Inbox}], [add |-> {"MUTE"}, remove |-> {Inbox}],
     [add |-> {"SPAM"}, remove |-> {Inbox}], [add |-> {}, remove |-> {"UNREAD"}],
     [add |-> {"UNREAD"}, remove |-> {}]}

guardedThreadAction(e) ==
    /\ Editing /\ ui.current # None
    /\ edited("keys", byThread(ui.current), e.add, e.remove)
    /\ UNCHANGED <<cacheOnly, fetching, opens, moves, syncs, faults>>

\* Important or not: the list is not loaded again.
onMarkImportant ==
    /\ Editing /\ ui.current # None
    /\ \E e \in {[add |-> {"IMPORTANT"}, remove |-> {}], [add |-> {}, remove |-> {"IMPORTANT"}]} :
          box' = Diffed(box, byThread(ui.current), e.add, e.remove)
    /\ queued' = [NoEdit EXCEPT !.by = "keys", !.of = byThread(ui.current)]
    /\ UNCHANGED <<cacheOnly, ui, fetching, opens, moves, syncs, faults>>

\* Archive and go to the row before or after: the position is read before the list changes.
onArchiveAndGo(step, footer) ==
    /\ Editing /\ ui.current # None
    /\ \E B \in {Diffed(box, byThread(ui.current), {}, {Inbox})} :
       \E u \in {reloaded(ui, Here(B))} :
          LET n == Len(u.rows) + footer
              i == IF step = "prev" THEN IF ui.row > 1 THEN ui.row - 1 ELSE 1
                   ELSE IF ui.row < n THEN ui.row ELSE n
              v == IF i \in 1 .. n THEN [u EXCEPT !.selected = i] ELSE u
              E == [NoEdit EXCEPT !.by = "keys", !.of = byThread(ui.current)]
          IN  IF i \in DOMAIN u.rows THEN onMessageActivated(v, i, B, E)
              ELSE ui' = v /\ box' = B /\ queued' = E /\ UNCHANGED fetching
    /\ UNCHANGED <<cacheOnly, opens, moves, syncs, faults>>

\* The star of a row or of the open message, turned over as the cache has it.
onToggleStarFor(m) ==
    /\ Editing /\ m \in stored
    /\ LET on == "STARRED" \in box[m]
       IN  edited("star", {m}, IF on THEN {} ELSE {"STARRED"}, IF on THEN {"STARRED"} ELSE {})
    /\ UNCHANGED <<cacheOnly, fetching, opens, moves, syncs, faults>>

\* A card's own archive and read buttons.
onCardAction(m) ==
    /\ Editing /\ m \in ui.cards
    /\ \E e \in {[add |-> {}, remove |-> {Inbox}], [add |-> {}, remove |-> {"UNREAD"}],
                 [add |-> {"UNREAD"}, remove |-> {}]} :
          edited("card", {m}, e.add, e.remove)
    /\ UNCHANGED <<cacheOnly, fetching, opens, moves, syncs, faults>>

-----------------------------------------------------------------------------
(* Edits after a question.  Its event loop goes on taking answers, syncs and  *)
(* wake-ups.                                                               *)

OfCurrent == {"delete", "snooze", "labels", "move"}
OfCard    == {"deleteCard", "snoozeCard"}

\* applied: the labels some message of the conversation has, read before the dialog.
ask(kind, m) ==
    /\ Editing
    /\ \/ kind \in OfCurrent /\ m = ui.current /\ m # None
       \/ kind \in OfCard /\ m \in ui.cards
    /\ dialog' = [kind |-> kind, about |-> m,
                  applied |-> IF kind \in {"labels", "move"}
                              THEN UNION {box[n] : n \in byThread(m)} ELSE {}]
    /\ queued' = NoEdit
    /\ UNCHANGED <<stored, box, whole, snooze, placeVars, ui, netVars, opens, moves, syncs, faults,
                   lost>>

cancel ==
    /\ ~Free /\ dialog' = NoDialog /\ queued' = NoEdit
    /\ UNCHANGED <<stored, box, whole, snooze, placeVars, ui, netVars, boundVars, lost>>

Current == IF ui.current = None THEN {} ELSE {ui.current}
CurrentThread == UNION {byThread(m) : m \in Current}

\* Mutant of confirmDelete: the card's question, too, is answered for currentMessage_.
confirmDeleteOfCurrent ==
    /\ dialog.kind \in {"delete", "deleteCard"}
    /\ edited(dialog.kind, Current, {"TRASH"}, {Inbox})
    /\ UNCHANGED snooze

confirmDelete ==
    /\ dialog.kind \in {"delete", "deleteCard"}
    /\ edited(dialog.kind, IF dialog.kind = "delete" THEN Current ELSE {dialog.about},
              {"TRASH"}, {Inbox})
    /\ UNCHANGED snooze

confirmSnooze ==
    LET S == IF dialog.kind = "snooze" THEN CurrentThread ELSE {dialog.about}
    IN  /\ dialog.kind \in {"snooze", "snoozeCard"}
        /\ snooze' = [m \in Ids |-> IF m \in S \cap stored THEN "later" ELSE snooze[m]]
        /\ edited(dialog.kind, S, {}, {Inbox})

\* The dialog lists user labels; what was ticked is compared with what it found applied.
confirmLabels ==
    /\ dialog.kind = "labels"
    /\ \E ticked \in SUBSET UserLabels :
          LET add    == ticked \ dialog.applied
              remove == (dialog.applied \cap UserLabels) \ ticked
          IN  IF add \cup remove = {}
              THEN UNCHANGED <<box, ui>> /\ queued' = NoEdit
              ELSE edited("labels", CurrentThread, add, remove)
    /\ UNCHANGED snooze

\* From the label the sidebar is on by now, to the one chosen.
confirmMove ==
    /\ dialog.kind = "move"
    /\ \E chosen \in UserLabels :
          LET add    == {chosen} \ dialog.applied
              remove == {labelId} \ {chosen}
          IN  IF add \cup remove = {}
              THEN UNCHANGED <<box, ui>> /\ queued' = NoEdit
              ELSE edited("move", CurrentThread, add, remove)
    /\ UNCHANGED snooze

confirm ==
    /\ confirmDelete \/ confirmSnooze \/ confirmLabels \/ confirmMove
    /\ dialog' = NoDialog
    /\ UNCHANGED <<stored, whole, placeVars, netVars, boundVars, lost>>

-----------------------------------------------------------------------------
(* Snoozed mail.                                                           *)

\* Time passes.
snoozeLapses ==
    /\ \E m \in Ids : snooze[m] = "later" /\ snooze' = [snooze EXCEPT ![m] = "due"]
    /\ queued' = NoEdit
    /\ UNCHANGED <<stored, box, whole, placeVars, ui, netVars, dialog, boundVars, lost>>

\* Of the current account only.
dueSnoozeWakeups == {m \in stored : snooze[m] = "due" /\ Mail[m].account = account}

\* Mutant of Woken: the stamps stay.
WokenKept(S) == snooze

Woken(S) == [m \in Ids |-> IF m \in S THEN "never" ELSE snooze[m]]

\* The timer of a minute: the stamps are cleared, then whole conversations get INBOX back.
wakeDueSnoozedMessages ==
    LET due == dueSnoozeWakeups
    IN  /\ due # {}
        /\ snooze' = Woken(due)
        /\ edited("wake", UNION {byThread(m) : m \in due}, {Inbox}, {})
        /\ UNCHANGED <<stored, whole, placeVars, netVars, dialog, boundVars, lost>>

\* The window as it comes up after a crash, at the label that was saved.
Restarted(B) ==
    /\ ui' = Closed(Rows(Here(B))) /\ fetching' = <<>> /\ answers' = <<>> /\ dialog' = NoDialog
    /\ queued' = NoEdit
    /\ UNCHANGED <<stored, whole, placeVars, opens, edits, moves, syncs>>

\* A crash, perhaps in the middle of a wake-up: some stamps are cleared, and only if all are
\* did some messages get their INBOX.
crash ==
    LET due == dueSnoozeWakeups
    IN  /\ faults < MaxFaults /\ faults' = faults + 1
        /\ \E cleared \in SUBSET due, back \in SUBSET UNION {byThread(m) : m \in due} :
              /\ back # {} => cleared = due
              /\ snooze' = Woken(cleared) /\ lost' = lost \cup (cleared \ back)
              /\ box' = Diffed(box, back, {Inbox}, {})
        /\ Restarted(box')

-----------------------------------------------------------------------------
(* Syncs, labels and accounts.                                             *)

\* messagesUpdated reaches the list if the account is the current one, or if its service is
\* the one the window was built with.
shownAfterSync(m) ==
    \/ \E L \in {Listed(labelId, cross, account, stored', box')} : ui' = refreshed(ui, L)
    \/ Mail[m].account # account /\ UNCHANGED ui

arrives(m) ==
    /\ m \in Fresh \ stored
    /\ stored' = stored \cup {m} /\ box' = [box EXCEPT ![m] = {Inbox, "UNREAD"}]
    /\ whole' \in {whole, whole \cup {m}}

\* Archived, read or deleted elsewhere.
changesAtGmail(m) ==
    /\ m \in stored
    /\ \/ \E l \in box[m] \cap {Inbox, "UNREAD"} :
             box' = [box EXCEPT ![m] = @ \ {l}] /\ UNCHANGED <<stored, whole>>
       \/ /\ stored' = stored \ {m} /\ whole' = whole \ {m} /\ box' = [box EXCEPT ![m] = {}]

syncLands ==
    /\ syncs < MaxSyncs /\ syncs' = syncs + 1
    /\ \E m \in Ids :
          /\ arrives(m) \/ changesAtGmail(m)
          /\ snooze' = [snooze EXCEPT ![m] = IF m \in stored' THEN @ ELSE "never"]
          /\ shownAfterSync(m)
    /\ queued' = NoEdit
    /\ UNCHANGED <<placeVars, netVars, dialog, opens, edits, moves, faults, lost>>

\* onLabelSelected; the account's own handler has emptied the reader if that changed too.
onLabelSelected(a, l, c) ==
    LET left == IF a = account THEN ui ELSE Closed(<<>>)
    IN  /\ Moving /\ <<a, l, c>> # placeVars
        /\ account' = a /\ labelId' = l /\ cross' = c /\ queued' = NoEdit
        /\ \E L \in {Listed(l, c, a, stored, box)} : ui' = reloaded(left, L)
        /\ UNCHANGED <<stored, box, whole, snooze, netVars, dialog, opens, edits, syncs, faults,
                       lost>>

-----------------------------------------------------------------------------
openNext == \/ \E i \in DOMAIN ui.rows : click(i)
            \/ \E step \in {-1, 1}, footer \in {0, 1} : selectAt(step, footer)
            \/ onOpenCurrent
moveNext == \/ \E i \in DOMAIN ui.rows : arrow(i)
            \/ onBackToList \/ onToggleLinkDisplay
            \/ \E a \in Accounts, l \in {Inbox, AllMail} \cup UserLabels :
                  onLabelSelected(a, l, FALSE)
            \/ onLabelSelected(account, Inbox, TRUE)
editNext == \/ \E e \in ThreadEdits : guardedThreadAction(e)
            \/ onMarkImportant
            \/ \E step \in {"prev", "next"}, footer \in {0, 1} : onArchiveAndGo(step, footer)
            \/ \E m \in {ui.rows[i] : i \in DOMAIN ui.rows} \cup Current : onToggleStarFor(m)
            \/ \E m \in ui.cards : onCardAction(m)
            \/ \E kind \in OfCurrent \cup OfCard, m \in Current \cup ui.cards : ask(kind, m)

runNext ==
    \/ openNext \/ moveNext \/ editNext
    \/ cancel \/ confirm
    \/ gmailAnswers \/ answerShown
    \/ snoozeLapses \/ wakeDueSnoozedMessages
    \/ syncLands

Next == runNext \/ crash

Spec == Init /\ [][Next]_vars

\* The timer fires.
Fairness == WF_vars(wakeDueSnoozedMessages)

FairSpec == Spec /\ Fairness

-----------------------------------------------------------------------------
(* Properties.                                                             *)

TypeOK ==
    /\ stored \subseteq Ids /\ whole \subseteq stored
    /\ box \in [Ids -> SUBSET Known] /\ snooze \in [Ids -> {"never", "later", "due"}]
    /\ account \in Accounts /\ cross \in BOOLEAN /\ ui \in Ui

Together(m) == {n \in Ids : Mail[n].thread = Mail[m].thread}

\* What the toolbar acts on is what the reader shows: mail in the reader is the conversation
\* of currentMessage_, and an empty reader has no current message behind it.  Only "Loading"
\* and a failure stand over the message that was open before.
ReaderAgrees ==
    /\ ui.shows = "mail" => ui.current # None /\ ui.cards \subseteq Together(ui.current)
                                             /\ ui.focus \in ui.cards
    /\ ui.shows = "nothing" => ui.current = None

\* Opening marks the whole conversation read, after which the list is loaded again and the
\* selection found again: what was marked read is what the reader then shows, and stays shown,
\* as long as the list has the conversation.  (An answer that comes after the user has gone
\* to another label marks mail read that nobody gets to see, and so does one about a message
\* that was deleted elsewhere while it was fetched: the rest of its conversation.)
ReadIsSeen ==
    [][\A m \in queued'.read :
          \/ ui'.shows = "mail" /\ m \in ui'.cards
          \/ ui'.current \notin stored \cup {None}
          \/ \A i \in DOMAIN ui'.rows : ui'.rows[i] \notin Together(m)]_vars

\* An edit touches what it was aimed at, whatever syncs, answers and wake-ups came in while
\* it was being asked about: a card's button and a card's question that one message, the keys
\* the conversation last shown.  The toolbar's questions read currentMessage_ again when they
\* are answered; they hit the conversation they asked about unless an answer took its place.
EditsAsAimed ==
    [][LET edit == queued'
       IN  /\ edit.by = "keys" => edit.of \subseteq Together(ui.focus)
           /\ edit.by = "card" => edit.of \subseteq ui.cards
           /\ edit.by \in OfCard => edit.of = {dialog.about}
           /\ edit.by \in OfCurrent /\ ui.current = dialog.about =>
                 /\ edit.of \subseteq Together(dialog.about)
                 /\ edit.by = "delete" => edit.of = {dialog.about}]_vars

\* The stamp of a message that is due goes only with the label: INBOX is back by then, or the
\* message was snoozed again or deleted, except where a crash fell between the two.
StampGoesWithInbox ==
    [][\A m \in Ids : snooze[m] = "due" /\ snooze'[m] # "due" =>
          \/ Inbox \in box'[m] \/ snooze'[m] = "later"
          \/ m \in lost' \/ m \notin stored']_vars

\* A snoozed message that is due gets INBOX back while its account is the current one: its stamp
\* does not stay, and does not go without the label.
SnoozedComesBack == []<>(dueSnoozeWakeups = {}) /\ StampGoesWithInbox

=============================================================================
