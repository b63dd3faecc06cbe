---------------------------- MODULE MCPdfSession ----------------------------
(* PdfSession on one annotation that can be added, recoloured and removed.   *)
(* Three revisions fill a history of two entries, undo, redo and truncate    *)
(* its redo tail; an edit of size 3 fills the byte budget and evicts what    *)
(* was there before it.                                                      *)
EXTENDS PdfSession
=============================================================================
