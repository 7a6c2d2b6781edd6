--------------------------- MODULE WorkbenchEditors ---------------------------
(***************************************************************************)
(* What administrators edit in the workbench: rows in dialogs, templates in*)
(* an editor that stays open, the system account behind a second password, *)
(* and a draft that realtime snapshots arrive beside. Several people have  *)
(* the same rows open; queries are repeated whenever the window gets the   *)
(* focus; answers are lost, and a dialog can be submitted twice, cancelled *)
(* and opened for another row while its first command is under way.        *)
(***************************************************************************)
EXTENDS Naturals, FiniteSets

CONSTANTS People,         \* administrators, each with a page
          DialogRows,     \* rows that are edited in dialogs
          Templates,      \* templates
          EditTexts,      \* what the rows can contain
          Fields,         \* fields of a draft
          MaxSaves,       \* bound: commands under way
          MaxEditRevision \* bound: revisions of a row, one less than snapshots of a draft

ASSUME EditorsAssumption == MaxEditRevision \in Nat /\ MaxSaves \in Nat /\ EditTexts # {}

Editable == DialogRows \cup Templates

VARIABLES
  savedRows,   \* the server: revision and text of each row
  shownRows,   \* per person: the rows as fetched last
  editing,     \* per person: the row of the open dialog as it was when opened, or none
  typed,       \* per person and row: the text in the editor
  saves,       \* commands under way: number, person, row, expected revision, text, text seen
  overwrites,  \* history: the text an accepted command replaced, and the one that was seen
  passwordStep,  \* per person: the password dialog, the check that runs, the editor it opens
  merging        \* a draft beside realtime snapshots

editorVars == <<savedRows, shownRows, editing, typed, saves, overwrites, passwordStep, merging>>

Revised == [revision : 0 .. MaxEditRevision, text : EditTexts]
NoDialog == [row |-> "none"]
Blank == CHOOSE text \in EditTexts : TRUE
DraftVersions == 1 .. MaxEditRevision + 2

EditorsTypeOK ==
  /\ savedRows \in [Editable -> Revised]
  /\ shownRows \in [People -> [Editable -> Revised]]
  /\ editing \in [People -> {NoDialog} \cup [row : DialogRows, seen : Revised]]
  /\ typed \in [People -> [Editable -> EditTexts]]
  /\ saves \subseteq [no : 1 .. MaxSaves, by : People, row : Editable,
                      expected : 0 .. MaxEditRevision, text : EditTexts, seen : EditTexts,
                      answer : {"none", "ok", "failed"}]
  /\ overwrites \subseteq EditTexts \X EditTexts
  /\ passwordStep \in [People -> SUBSET {"dialog", "checking", "editor", "cancelled"}]
  /\ merging.basedOn \in DraftVersions /\ merging.version \in DraftVersions
  /\ merging.snapshot \in [Fields -> EditTexts]
  /\ merging.edited \subseteq Fields /\ merging.local \in [Fields -> EditTexts]
  /\ merging.conflicts \subseteq Fields /\ merging.unread \subseteq Fields

EditorsInit ==
  /\ savedRows = [r \in Editable |-> [revision |-> 0, text |-> Blank]]
  /\ shownRows = [u \in People |-> savedRows]
  /\ editing = [u \in People |-> NoDialog]
  /\ typed = [u \in People |-> [r \in Editable |-> Blank]]
  /\ saves = {} /\ overwrites = {}
  /\ passwordStep = [u \in People |-> {}]
  /\ merging = [basedOn |-> 1, version |-> 1, snapshot |-> [f \in Fields |-> Blank], edited |-> {},
              local |-> [f \in Fields |-> Blank], conflicts |-> {}, unread |-> {}]

-----------------------------------------------------------------------------
(* Dialogs and templates.                                                  *)

(* The dialog keeps the row with the revision it has when it is opened.    *)
OpenDialog(u, r) ==
  /\ editing[u] = NoDialog
  /\ editing' = [editing EXCEPT ![u] = [row |-> r, seen |-> shownRows[u][r]]]
  /\ typed' = [typed EXCEPT ![u][r] = shownRows[u][r].text]
  /\ UNCHANGED <<savedRows, shownRows, saves, overwrites, passwordStep, merging>>

CancelDialog(u) ==
  /\ editing[u] # NoDialog
  /\ editing' = [editing EXCEPT ![u] = NoDialog]
  /\ typed' = [typed EXCEPT ![u][editing[u].row] = Blank]
  /\ UNCHANGED <<savedRows, shownRows, saves, overwrites, passwordStep, merging>>

TypeText(u, r, text) ==
  /\ r \in Templates \/ editing[u].row = r
  /\ typed[u][r] # text
  /\ typed' = [typed EXCEPT ![u][r] = text]
  /\ UNCHANGED <<savedRows, shownRows, editing, saves, overwrites, passwordStep, merging>>

SendSave(u, r, over) ==
  /\ Cardinality(saves) < MaxSaves
  /\ LET no == CHOOSE n \in 1 .. MaxSaves : \A s \in saves : s.no # n
     IN  saves' = saves \cup {[no |-> no, by |-> u, row |-> r, expected |-> over.revision,
                               text |-> typed[u][r], seen |-> over.text, answer |-> "none"]}
  /\ UNCHANGED <<savedRows, shownRows, editing, typed, overwrites, passwordStep, merging>>

(* Also while a command of this dialog is under way.                       *)
SubmitDialog(u) == editing[u] # NoDialog /\ SendSave(u, editing[u].row, editing[u].seen)

(* A template is saved over the draft that was fetched last.               *)
SaveTemplate(u, r) == r \in Templates /\ SendSave(u, r, shownRows[u][r])

(* What arrives at the server is written if the revision is still the one; *)
(* a session that is over, a refusal and a lost answer fail alike.         *)
ServeSave(s) ==
  /\ s \in saves /\ s.answer = "none"
  /\ \/ /\ savedRows[s.row].revision = s.expected
        /\ s.expected < MaxEditRevision
        /\ savedRows' = [savedRows EXCEPT ![s.row] = [revision |-> s.expected + 1, text |-> s.text]]
        /\ overwrites' = overwrites \cup {<<savedRows[s.row].text, s.seen>>}
        /\ \E a \in {"ok", "failed"} : saves' = (saves \ {s}) \cup {[s EXCEPT !.answer = a]}
     \/ /\ saves' = (saves \ {s}) \cup {[s EXCEPT !.answer = "failed"]}
        /\ UNCHANGED <<savedRows, overwrites>>
  /\ UNCHANGED <<shownRows, editing, typed, passwordStep, merging>>

(* A query is answered: an editor takes the text where it has changed, and *)
(* a dialog that is closed forgets its own.                                *)
Fetched(u, closed) ==
  /\ shownRows' = [shownRows EXCEPT ![u] = savedRows]
  /\ typed' = [typed EXCEPT ![u] = [r \in Editable |->
       CASE r \in closed -> Blank
         [] r \in Templates /\ shownRows[u][r] # savedRows[r] -> savedRows[r].text
         [] OTHER -> typed[u][r]]]

Refetches(u) ==
  /\ shownRows[u] # savedRows
  /\ Fetched(u, {})
  /\ UNCHANGED <<savedRows, editing, saves, overwrites, passwordStep, merging>>

(* The dialog that is open is closed, whichever it is, and all is fetched. *)
SaveSucceeds(s) ==
  /\ s \in saves /\ s.answer = "ok"
  /\ saves' = saves \ {s}
  /\ editing' = IF s.row \in DialogRows THEN [editing EXCEPT ![s.by] = NoDialog] ELSE editing
  /\ Fetched(s.by, IF s.row \in DialogRows THEN DialogRows ELSE {})
  /\ UNCHANGED <<savedRows, overwrites, passwordStep, merging>>

(* The dialog stays as it is and can be submitted again.                   *)
SaveFails(s) ==
  /\ s \in saves /\ s.answer = "failed"
  /\ saves' = saves \ {s}
  /\ UNCHANGED <<savedRows, shownRows, editing, typed, overwrites, passwordStep, merging>>

-----------------------------------------------------------------------------
(* The password before the system account is edited.                       *)

Confirms(u, state) ==
  /\ passwordStep' = [passwordStep EXCEPT ![u] = state]
  /\ UNCHANGED <<savedRows, shownRows, editing, typed, saves, overwrites, merging>>

AskPassword(u) ==
  passwordStep[u] \cap {"dialog", "editor"} = {} /\ Confirms(u, {"dialog"})

SubmitPassword(u) ==
  /\ "dialog" \in passwordStep[u] /\ "checking" \notin passwordStep[u]
  /\ Confirms(u, passwordStep[u] \cup {"checking"})

(* The editor opens in its place; a wrong password leaves the dialog open. *)
PasswordIsRight(u) ==
  /\ "checking" \in passwordStep[u]
  /\ Confirms(u, (passwordStep[u] \ {"dialog", "checking"}) \cup {"editor"})

PasswordIsWrong(u) ==
  "checking" \in passwordStep[u] /\ Confirms(u, passwordStep[u] \ {"checking"})

(* Not while the password is checked.                                      *)
CancelPassword(u) ==
  /\ "dialog" \in passwordStep[u] /\ "checking" \notin passwordStep[u]
  /\ Confirms(u, (passwordStep[u] \ {"dialog"}) \cup {"cancelled"})

CloseEditor(u) == "editor" \in passwordStep[u] /\ Confirms(u, {})

-----------------------------------------------------------------------------
(* A draft beside realtime snapshots.                                      *)

DraftChanges ==
  UNCHANGED <<savedRows, shownRows, editing, typed, saves, overwrites, passwordStep>>

EditDraft(f, text) ==
  /\ merging' = [merging EXCEPT !.edited = @ \cup {f}, !.local[f] = text]
  /\ DraftChanges

(* A snapshot may be late; conflicts are those with the snapshot before.   *)
ReceiveSnapshot(v, snapshot) ==
  /\ LET changed ==
           {f \in merging.edited : snapshot[f] \notin {merging.snapshot[f], merging.local[f]}}
     IN  merging' = IF v <= merging.version THEN merging
                      ELSE [merging EXCEPT !.version = v, !.snapshot = snapshot,
                                           !.conflicts = changed, !.unread = @ \cup changed]
  /\ DraftChanges

AcceptLatest ==
  /\ merging' = [merging EXCEPT !.basedOn = merging.version, !.conflicts = {}, !.unread = {}]
  /\ DraftChanges

CanSubmit == merging.conflicts = {} /\ merging.basedOn = merging.version

EditNext(rows) ==
  \/ \E u \in People :
       \/ \E r \in rows \cap DialogRows : OpenDialog(u, r)
       \/ CancelDialog(u) \/ SubmitDialog(u) \/ Refetches(u)
       \/ \E r \in rows \cap Templates : SaveTemplate(u, r)
       \/ \E r \in rows, text \in EditTexts : TypeText(u, r, text)
  \/ \E s \in saves : ServeSave(s) \/ SaveSucceeds(s) \/ SaveFails(s)

PasswordsNext ==
  \E u \in People : \/ AskPassword(u) \/ SubmitPassword(u)
                    \/ PasswordIsRight(u) \/ PasswordIsWrong(u)
                    \/ CancelPassword(u) \/ CloseEditor(u)

MergeNext ==
  \/ \E f \in Fields, text \in EditTexts : EditDraft(f, text)
  \/ \E v \in DraftVersions, snapshot \in [Fields -> EditTexts] : ReceiveSnapshot(v, snapshot)
  \/ AcceptLatest

EditorsSpec == EditorsInit /\ [][EditNext(Editable) \/ PasswordsNext \/ MergeNext]_editorVars

-----------------------------------------------------------------------------
(* Properties.                                                             *)

(* What an accepted command replaces is what was on the screen of who sent *)
(* it, however old the dialog is and however often it was submitted.       *)
SavedOverSeen == \A o \in overwrites : o[1] = o[2]

(* An editor does not open for who has cancelled the question before it.   *)
CancelledStaysClosed == \A u \in People : ~({"editor", "cancelled"} \subseteq passwordStep[u])

(* A draft is not submitted before every change of somebody else to what   *)
(* is edited was accepted, although a later snapshot hides an earlier one. *)
SubmittedIsAccepted == CanSubmit => merging.unread = {}
=============================================================================
