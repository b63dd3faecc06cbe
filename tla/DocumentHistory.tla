--------------------------- MODULE DocumentHistory ---------------------------
(* The immutable undo history of one open PDF                                *)
(* (podofo_frontend_one/lib/src/editing/document_history.dart).  A state id  *)
(* names every model a commit ever produced; an entry leads from the id      *)
(* before its edit to the id after it.                                       *)
EXTENDS Integers, Sequences, SequencesExt

CONSTANTS
    EntryLimit,  \* entries retained
    ByteLimit    \* bytes retained; an edit weighs edit.bytes

ASSUME HistoryAssumption == EntryLimit \in Nat \ {0} /\ ByteLimit \in Nat \ {0}

NewHistory == [entries |-> <<>>, cursor |-> 0, currentId |-> 0, savedStateId |-> 0, nextId |-> 1]

Dirty(h) == h.currentId # h.savedStateId
CanUndo(h) == h.cursor > 0
CanRedo(h) == h.cursor < Len(h.entries)

(* retainedBytes.  A record that two entries share is counted once by the    *)
(* code and in both weights here, so truncation may start an edit earlier.   *)
BytesOf(entries) == FoldSeq(LAMBDA e, total : e.edit.bytes + total, 0, entries)

(* commit: the redo tail is dropped, the oldest entries are dropped until    *)
(* both limits hold or one entry is left.                                    *)
TailFrom(entries, i) == SubSeq(entries, i, Len(entries))
Fits(entries) == Len(entries) <= EntryLimit /\ BytesOf(entries) <= ByteLimit
Retained(entries) ==
    LET fits == {i \in 1 .. Len(entries) : i = Len(entries) \/ Fits(TailFrom(entries, i))}
    IN  TailFrom(entries, CHOOSE i \in fits : \A k \in fits : i <= k)

Committed(h, edit) ==
    Append(SubSeq(h.entries, 1, h.cursor),
           [edit |-> edit, beforeId |-> h.currentId, afterId |-> h.nextId])

(* An edit that alone exceeds the byte budget is refused: StateError.        *)
Accepts(h, edit) == BytesOf(Retained(Committed(h, edit))) <= ByteLimit

CommitReusingId(h, edit) ==
    LET entries == Retained(Committed(h, edit))
    IN  [h EXCEPT !.entries = entries, !.cursor = Len(entries), !.currentId = Len(entries)]
Commit(h, edit) ==
    LET entries == Retained(Committed(h, edit))
    IN  [h EXCEPT !.entries = entries, !.cursor = Len(entries),
                  !.currentId = h.nextId, !.nextId = h.nextId + 1]

Undo(h) == IF CanUndo(h)
           THEN [h EXCEPT !.cursor = h.cursor - 1, !.currentId = h.entries[h.cursor].beforeId]
           ELSE h
Redo(h) == IF CanRedo(h)
           THEN [h EXCEPT !.cursor = h.cursor + 1, !.currentId = h.entries[h.cursor + 1].afterId]
           ELSE h

MarkSaved(h) == [h EXCEPT !.savedStateId = h.currentId]

(* The ids form one path: each entry starts where the one before it ended,   *)
(* and the cursor stands on the current id.                                  *)
IdBefore(h, i) == IF i = 1 THEN h.entries[1].beforeId ELSE h.entries[i - 1].afterId
WellFormed(h) ==
    /\ h.cursor \in 0 .. Len(h.entries) /\ Len(h.entries) <= EntryLimit
    /\ h.currentId \in 0 .. h.nextId - 1 /\ h.savedStateId \in 0 .. h.nextId - 1
    /\ \A i \in DOMAIN h.entries : /\ h.entries[i].beforeId = IdBefore(h, i)
                                   /\ h.entries[i].beforeId \in 0 .. h.nextId - 1
                                   /\ h.entries[i].afterId \in 1 .. h.nextId - 1
    /\ h.entries # <<>> => h.currentId = IF h.cursor = 0 THEN h.entries[1].beforeId
                                         ELSE h.entries[h.cursor].afterId
=============================================================================
