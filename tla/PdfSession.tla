----------------------------- MODULE PdfSession -----------------------------
(* One open PDF: its annotation model, its PDFium backing, its undo history  *)
(* and the file it is saved to                                               *)
(* (podofo_frontend_one/lib/src/services/pdf_session.dart).  Operations hold *)
(* the session lock from their first step to their last; the UI, which reads *)
(* the model without the lock, and other programs, which write the files,    *)
(* run between any two steps.                                                *)
EXTENDS DocumentHistory, FiniteSets

CONSTANTS
    Ids,        \* annotations
    Colors,     \* what a recolour changes
    Sizes,      \* history bytes an edit may retain
    MaxRevision, \* bound: edits, undos and redos applied
    MaxWrites   \* bound: bytes other programs write

Absent == 0
ASSUME ColorsAssumption == Colors \subseteq Nat \ {Absent}

Paths == {"own", "other"}  \* the document's file and a Save As destination
Models == [Ids -> Colors \cup {Absent}]

(* The bytes of a file: an export of a model, or another program's.  Equal   *)
(* fingerprints are equal bytes.                                             *)
Ours(m) == [by |-> "session", model |-> m, n |-> 0]
Foreign(n) == [by |-> "program", model |-> [i \in Ids |-> Absent], n |-> n]
Missing == [by |-> "missing", model |-> [i \in Ids |-> Absent], n |-> 0]

VARIABLES
    model, native,     \* _model, and the annotations in the PDFium backing
    history, revision,
    failed,            \* _editingFailure
    closed,            \* the lease
    path, files,       \* the session's path, and what is on disk
    fingerprint, savedBytes,
    op,                \* the operation that holds the lock, and its locals
    menu,              \* an open annotation menu: the revision it captured
    dialog,            \* a Save As dialog: the target bytes it captured
    modelOf,           \* for the properties: the model each state id names
    writes             \* foreign writes so far

session == <<model, native, history, revision, failed, closed, path, fingerprint, savedBytes>>
sessionVars == <<session, files, op, menu, dialog, modelOf, writes>>

Broken == [i \in Ids |-> -1]  \* a backing whose native rollback failed
Unlocked == [step |-> "idle"]
NoDialog == [by |-> "nobody"]
NoMenu == [revision |-> -1, model |-> [i \in Ids |-> Absent]]

SessionInit ==
    /\ model \in {[i \in Ids |-> Absent]} \cup {[i \in Ids |-> c] : c \in Colors}
    /\ native = model /\ history = NewHistory /\ revision = 0
    /\ failed = FALSE /\ closed = FALSE
    /\ path = "own" /\ savedBytes = Ours(model) /\ fingerprint = Ours(model)
    /\ files = [own |-> Ours(model), other |-> Missing]
    /\ op = Unlocked /\ menu = NoMenu /\ dialog = NoDialog /\ modelOf = <<model>> /\ writes = 0

Open == op = Unlocked /\ ~closed /\ ~failed
NameOf(id) == modelOf[id + 1]

-----------------------------------------------------------------------------
(* Edits, undo and redo: _apply.                                             *)

Applied(edit, m) == [m EXCEPT ![edit.id] = edit.after]
Reversed(edit) == [edit EXCEPT !.before = edit.after, !.after = edit.before]

BeginApply(edit, next) ==
    /\ op' = [step |-> "apply", edit |-> edit, next |-> next]
    /\ UNCHANGED <<session, files, dialog, modelOf, writes>>

(* highlight, underline, recolour, remove: one record changes.  A text       *)
(* selection adds a record; an edit from an annotation menu is refused when  *)
(* the revision moved since the menu was opened.                             *)
Edits == {e \in [id : Ids, before : Colors \cup {Absent}, after : Colors \cup {Absent},
                 bytes : Sizes] : e.before # e.after}
MenuIgnored == TRUE
MenuCurrent == menu.revision = revision
StartEdit ==
    /\ Open /\ revision < MaxRevision
    /\ \E edit \in Edits :
          /\ edit.before = model[edit.id]
          /\ \/ edit.before = Absent /\ UNCHANGED menu
             \/ menu # NoMenu /\ MenuCurrent /\ menu' = NoMenu
          /\ IF Accepts(history, edit) THEN BeginApply(edit, Commit(history, edit))
             ELSE UNCHANGED <<session, files, op, dialog, modelOf, writes>>

StartTravel ==
    /\ Open /\ revision < MaxRevision
    /\ \/ CanUndo(history) /\ BeginApply(Reversed(history.entries[history.cursor].edit),
                                         Undo(history))
       \/ CanRedo(history) /\ BeginApply(history.entries[history.cursor + 1].edit, Redo(history))
    /\ UNCHANGED menu

(* The PDFium worker applied the edit; model, history and revision follow in *)
(* the same turn.                                                            *)
ApplySucceeds ==
    /\ op.step = "apply"
    /\ native' = Applied(op.edit, native)
    /\ model' = Applied(op.edit, model)
    /\ history' = op.next /\ revision' = revision + 1
    /\ modelOf' = IF op.next.currentId < Len(modelOf) THEN modelOf ELSE Append(modelOf, model')
    /\ op' = [step |-> "collect"]
    /\ UNCHANGED <<failed, closed, path, fingerprint, savedBytes, files, menu, dialog, writes>>

(* A failed edit was rolled back natively, or the backing must be rebuilt.   *)
ApplyFails ==
    /\ op.step = "apply"
    /\ \/ op' = Unlocked /\ native' = native
       \/ op' = [step |-> "recover"] /\ native' = Broken
    /\ UNCHANGED <<model, history, revision, failed, closed, path, fingerprint, savedBytes,
                   files, menu, dialog, modelOf, writes>>

(* Unreachable tombstones are reclaimed and pages reloaded.                  *)
Collect ==
    /\ op.step = "collect"
    /\ \/ op' = Unlocked /\ native' = native
       \/ op' = [step |-> "recover"] /\ native' = Broken
    /\ UNCHANGED <<model, history, revision, failed, closed, path, fingerprint, savedBytes,
                   files, menu, dialog, modelOf, writes>>

RecoverPartly ==
    /\ op.step = "recover" /\ op' = Unlocked
    /\ UNCHANGED <<session, files, menu, dialog, modelOf, writes>>
(* _recover: a fresh backing from the baseline bytes and the current model,  *)
(* or editing and saving are disabled for good.                              *)
Recover ==
    /\ op.step = "recover"
    /\ \/ native' = model /\ failed' = failed
       \/ native' = native /\ failed' = TRUE
    /\ op' = Unlocked
    /\ UNCHANGED <<model, history, revision, closed, path, fingerprint, savedBytes, files, menu,
                   dialog, modelOf, writes>>

OpenMenu ==
    /\ ~closed /\ ~failed /\ menu = NoMenu
    /\ menu' = [revision |-> revision, model |-> model]
    /\ UNCHANGED <<session, files, op, dialog, modelOf, writes>>
DismissMenu ==
    /\ menu # NoMenu /\ menu' = NoMenu
    /\ UNCHANGED <<session, files, op, dialog, modelOf, writes>>

-----------------------------------------------------------------------------
(* Saving: AtomicPdfFile.write.                                              *)

OtherPath == CHOOSE q \in Paths : q # path

(* The fingerprint of the destination is captured before the user confirms.  *)
OpenSaveAs ==
    /\ ~closed /\ dialog = NoDialog
    /\ dialog' = files[OtherPath]
    /\ UNCHANGED <<session, files, op, menu, modelOf, writes>>

(* Only a changed document is exported; a clean Save As copies the bytes     *)
(* last read or written.  An export or a validation that fails ends the save.*)
BeginSave(target, expected) ==
    op' \in {Unlocked, [step |-> "check", target |-> target, expected |-> expected,
                        looked |-> writes,
                        bytes |-> IF Dirty(history) THEN Ours(native) ELSE savedBytes]}

StartSave ==
    /\ Open
    /\ \/ Dirty(history) /\ BeginSave(path, fingerprint) /\ UNCHANGED dialog
       \/ dialog # NoDialog /\ BeginSave(OtherPath, dialog) /\ dialog' = NoDialog
    /\ UNCHANGED <<session, files, menu, modelOf, writes>>

TargetUnchanged == files[op.target] = op.expected

(* Checked before the staging file is written and again after; a failed      *)
(* check or write leaves the target alone.  looked: when it was last checked.*)
CheckOnce ==
    /\ op.step \in {"check", "recheck"}
    /\ op.step = "check" => TargetUnchanged
    /\ op' = [op EXCEPT !.step = IF @ = "check" THEN "recheck" ELSE "rename", !.looked = writes]
    /\ UNCHANGED <<session, files, menu, dialog, modelOf, writes>>
Check ==
    /\ op.step \in {"check", "recheck"}
    /\ \/ op' = Unlocked
       \/ /\ TargetUnchanged
          /\ op' = [op EXCEPT !.step = IF @ = "check" THEN "recheck" ELSE "rename",
                              !.looked = writes]
    /\ UNCHANGED <<session, files, menu, dialog, modelOf, writes>>

(* rename commits the save, and the session follows in the same turn.        *)
Rename ==
    /\ op.step = "rename"
    /\ files' = [files EXCEPT ![op.target] = op.bytes]
    /\ path' = op.target /\ fingerprint' = op.bytes /\ savedBytes' = op.bytes
    /\ history' = MarkSaved(history)
    /\ op' = Unlocked
    /\ UNCHANGED <<model, native, revision, failed, closed, menu, dialog, modelOf, writes>>

RenameFails ==
    /\ op.step = "rename" /\ op' = Unlocked
    /\ UNCHANGED <<session, files, menu, dialog, modelOf, writes>>

(* close refuses to drop unsaved edits, unless the user chose to discard     *)
(* them, which he always may.                                                *)
Close ==
    /\ op = Unlocked /\ ~closed
    /\ closed' = TRUE /\ menu' = NoMenu /\ dialog' = NoDialog
    /\ UNCHANGED <<model, native, history, revision, failed, path, fingerprint, savedBytes,
                   files, op, modelOf, writes>>

(* Another program writes a file.                                            *)
ExternalWrite ==
    /\ writes < MaxWrites /\ writes' = writes + 1
    /\ \E target \in Paths : files' = [files EXCEPT ![target] = Foreign(writes')]
    /\ UNCHANGED <<session, op, menu, dialog, modelOf>>

SessionNext ==
    \/ StartEdit \/ StartTravel \/ ApplySucceeds \/ ApplyFails \/ Collect \/ Recover
    \/ OpenMenu \/ DismissMenu \/ OpenSaveAs \/ StartSave \/ Check \/ Rename \/ RenameFails
    \/ Close \/ ExternalWrite

SessionSpec == SessionInit /\ [][SessionNext]_sessionVars

-----------------------------------------------------------------------------
(* Properties.                                                               *)

(* Type invariant; every model is named by at most one state id in use.      *)
SessionTypes ==
    /\ model \in Models /\ native \in Models \cup {Broken}
    /\ revision \in Nat /\ failed \in BOOLEAN /\ closed \in BOOLEAN /\ path \in Paths
    /\ WellFormed(history)
    /\ history.nextId = Len(modelOf) \/ op.step = "apply"
    /\ op.step \in {"idle", "apply", "collect", "recover", "check", "recheck", "rename"}

(* The history tells the truth about the model: the current state id names   *)
(* it, whatever mixture of edits, undo, redo, truncation, failures and saves *)
(* led there; the saved id names what the session last wrote or read, so a   *)
(* document that looks clean can be closed without a question.               *)
IdsNameModels ==
    /\ SessionTypes
    /\ NameOf(history.currentId) = model
    /\ Ours(NameOf(history.savedStateId)) = savedBytes

(* Outside an edit the PDFium backing shows the model, unless editing has    *)
(* been given up; so an export writes the model.                             *)
BackingShowsModel ==
    /\ op.step \in {"idle", "check", "recheck", "rename"} /\ ~failed => native = model
    /\ op.step \in {"check", "recheck", "rename"} => op.bytes = Ours(model)

(* The user gets what was shown: undo and redo return to exactly the model   *)
(* their state id names, and a menu edit is applied only to the model its    *)
(* menu was opened on, however many edits the menu outlived.                 *)
EditsAsShown ==
    [][/\ history'.currentId # history.currentId /\ history'.nextId = history.nextId
          => model' = NameOf(history'.currentId)
       /\ menu # NoMenu /\ op = Unlocked /\ op'.step = "apply" /\ menu' = NoMenu
          => menu.model = model]_sessionVars

(* Saving replaces only the bytes it expected, except bytes another program  *)
(* wrote after the save last looked at the target: the window between the    *)
(* second fingerprint check and the rename.                                  *)
ForeignKept ==
    op.step = "rename" /\ files[op.target] # op.expected => writes > op.looked
=============================================================================
