---------------------------- MODULE Attachments ----------------------------
(***************************************************************************)
(* The attachments of the messages in the reader: chips that open them in a *)
(* temporary file, "Save as" and "Download all", which write them where the *)
(* user says, the rows that remember where, and the files.  Reader has the  *)
(* cards, the messages and the modal questions; Window is the two together.  *)
(*                                                                         *)
(* A name is chosen when a download is asked for and written when its       *)
(* answer comes.  Gmail's ids of attachments may change with every answer;   *)
(* parts that have no id of their own are left out.                         *)
(***************************************************************************)
EXTENDS Reader

CONSTANTS
    Attached,    \* the attachments: each has a message and a file name
    Present,     \* names taken in the user's folder at the start
    MaxNames     \* bound: numbers tried after a name, 999 in the code

Parts == DOMAIN Attached

ASSUME AttachmentsAssumption ==
    /\ Len(Attached) \in Nat /\ Parts = 1 .. Len(Attached)
    /\ \A a \in Parts : Attached[a].msg \in Ids
    /\ MaxNames \in Nat \ {0}

VARIABLES
    files,      \* what is in the file of each path
    saved,      \* the rows of attachments: local_path, or NoPath
    picked,     \* the attachments an open file dialog is about
    downloads   \* getAttachment calls, and what they are to write

attachmentVars == <<files, saved, picked, downloads>>
windowVars == <<vars, attachmentVars>>

\* "report (2).pdf" is the name "report.pdf" with the number 2; 0 is no number.
Names  == {Attached[a].name : a \in Parts} \cup Present
Paths  == [dir : {"home", "temp"}, name : Names, number : 0 .. MaxNames]
NoPath == [dir |-> "none", name |-> "", number |-> 0]
Home0  == {[dir |-> "home", name |-> n, number |-> 0] : n \in Present}

\* Contents: an attachment, one that was cut short, or something of the user's.
Empty == 0
Own   == Len(Attached) + 1
Cut   == Len(Attached) + 2

AttachmentsOf(m) == {a \in Parts : Attached[a].msg = m}

\* Mutant of uniqueTargetPath: the name as it is.
uniqueTargetPathPlain(dir, name) == [dir |-> dir, name |-> name, number |-> 0]

\* The name, or the name with the first number that gives a file that does not exist.
uniqueTargetPath(dir, name) ==
    CHOOSE p \in Paths :
        /\ p.dir = dir /\ p.name = name
        /\ files[p] = Empty \/ p.number = MaxNames
        /\ \A q \in Paths : q.dir = dir /\ q.name = name /\ q.number < p.number
                            => files[q] # Empty

\* found: what the path was taken for; met: another download has written it since.
Download(a, path, found) == [of |-> a, path |-> path, found |-> found, met |-> FALSE]

-----------------------------------------------------------------------------
(* What the reader does to the rows.                                       *)

\* The message whose row an answer replaces, its attachments with it.
Replaced ==
    {m \in Ids : /\ Len(answers') > Len(answers)
                 /\ Last(answers').msg = m /\ ~Last(answers').err}

\* Rows go with their message and come back without a path.
RowsFollow ==
    saved' = [a \in Parts |-> IF Attached[a].msg \in Replaced \/ Attached[a].msg \notin stored'
                              THEN NoPath ELSE saved[a]]

\* A new process has a new temporary directory.
TempEmptied == [p \in Paths |-> IF p.dir = "temp" THEN Empty ELSE files[p]]

PickerKinds == {"saveAs", "saveAll"}

\* The start, where the user has files.
WindowInit ==
    /\ Init
    /\ files = [p \in Paths |-> IF p \in Home0 THEN Own ELSE Empty]
    /\ saved = [a \in Parts |-> NoPath]
    /\ picked = {} /\ downloads = {}

\* A crash ends the calls, with their answers on the way.
readerNext ==
    /\ \/ runNext /\ UNCHANGED <<files, downloads>>
       \/ crash /\ files' = TempEmptied /\ downloads' = {}
    /\ RowsFollow
    /\ picked' = IF dialog'.kind \in PickerKinds THEN picked ELSE {}

-----------------------------------------------------------------------------
(* The chips.                                                              *)

\* A card opened up by the user has chips from the next time it is drawn.
Shown(m) == m \in ui.cards \cap whole

Chips == {a \in Parts : Shown(Attached[a].msg)}

readerIdle == <<stored, box, whole, snooze, placeVars, ui, netVars, opens, moves, syncs, lost>>

onOpenAttachment(a) ==
    /\ Editing /\ a \in Chips
    /\ downloads' = downloads \cup {Download(a, NoPath, Empty)}
    /\ queued' = NoEdit
    /\ UNCHANGED <<readerIdle, dialog, faults, files, saved, picked>>

askWhere(kind, m, S) ==
    /\ Editing
    /\ dialog' = [kind |-> kind, about |-> m, applied |-> {}] /\ picked' = S
    /\ queued' = NoEdit
    /\ UNCHANGED <<readerIdle, faults, files, saved, downloads>>

\* "Save as" of one chip, and "Download all" of a card that shows two or more.
onSaveAs(a) == a \in Chips /\ askWhere("saveAs", Attached[a].msg, {a})

onDownloadAll(m) ==
    /\ Shown(m) /\ Cardinality(AttachmentsOf(m)) >= 2
    /\ askWhere("saveAll", m, AttachmentsOf(m))

\* The dialog lets the user take any name, and asks before it returns one that is taken.
saveAsPicked ==
    /\ dialog.kind = "saveAs"
    /\ \E a \in picked, p \in Paths :
          /\ p.dir = "home" /\ p.name = Attached[a].name
          /\ downloads' = downloads \cup {Download(a, p, files[p])}

\* All names are chosen before anything is written.
saveAllPicked ==
    /\ dialog.kind = "saveAll"
    /\ downloads' = downloads \cup
          {Download(a, uniqueTargetPath("home", Attached[a].name), Empty) : a \in picked}

pickedWhere ==
    /\ saveAsPicked \/ saveAllPicked
    /\ dialog' = NoDialog /\ picked' = {} /\ queued' = NoEdit
    /\ UNCHANGED <<readerIdle, edits, faults, files, saved>>

-----------------------------------------------------------------------------
(* The answers.                                                            *)

\* Other downloads to path p are told of it.
Met(D, p) == {[d EXCEPT !.met = d.met \/ d.path = p] : d \in D}

Target(d) ==
    IF d.path = NoPath THEN uniqueTargetPath("temp", Attached[d.of].name) ELSE d.path

\* markDownloaded finds the row, unless it was replaced by one under a newer id.
markDownloaded(d) ==
    \/ saved' = [saved EXCEPT ![d.of] = IF Attached[d.of].msg \in whole THEN d.path ELSE @]
    \/ UNCHANGED saved

attachmentArrives(d) ==
    /\ files' = [files EXCEPT ![Target(d)] = d.of]
    /\ downloads' = Met(downloads \ {d}, Target(d))
    /\ IF d.path = NoPath THEN UNCHANGED saved ELSE markDownloaded(d)
    /\ UNCHANGED faults

\* The request fails; or the file was emptied and could not be written to the end.
downloadFails(d) ==
    /\ faults < MaxFaults /\ faults' = faults + 1
    /\ \/ UNCHANGED files /\ downloads' = downloads \ {d}
       \/ /\ files' = [files EXCEPT ![Target(d)] = Cut]
          /\ downloads' = Met(downloads \ {d}, Target(d))
    /\ UNCHANGED saved

downloadEnds ==
    /\ \E d \in downloads : attachmentArrives(d) \/ downloadFails(d)
    /\ queued' = NoEdit
    /\ UNCHANGED <<readerIdle, dialog, edits, picked>>

-----------------------------------------------------------------------------
attachmentNext ==
    \/ \E a \in Parts : onOpenAttachment(a) \/ onSaveAs(a)
    \/ \E m \in Ids : onDownloadAll(m)
    \/ pickedWhere \/ downloadEnds

WindowNext == readerNext \/ attachmentNext

WindowSpec == WindowInit /\ [][WindowNext]_windowVars /\ Fairness

-----------------------------------------------------------------------------
(* Properties.                                                             *)

\* The files, rows and downloads keep their types; only a file dialog is about attachments.
WindowTypeOK ==
    /\ files \in [Paths -> 0 .. Cut] /\ saved \in [Parts -> Paths \cup {NoPath}]
    /\ picked \subseteq Parts /\ (picked # {} => dialog.kind \in PickerKinds)
    /\ downloads \subseteq [of: Parts, path: Paths \cup {NoPath}, found: 0 .. Cut, met: BOOLEAN]

\* A file is written over only if the user was asked, or if it was written while the download
\* that overwrites it was under way already (MainWindow.cpp:3235-3238).  Files chosen together
\* by "Download all", or by two downloads at once, have their names from before either was
\* written: of two attachments of one name the second takes the place of the first.  And once
\* every number is taken the last one is overwritten.
FilesKept ==
    [][\A p \in Paths : files[p] # Empty /\ files'[p] \notin {files[p], Empty} =>
          \/ \E d \in downloads : d.path = p /\ (d.found = files[p] \/ d.met)
          \/ p.number = MaxNames]_windowVars

=============================================================================
