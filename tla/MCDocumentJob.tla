--------------------------- MODULE MCDocumentJob ---------------------------
(* DocumentJob on small documents.  Both limits of the update queue bind on  *)
(* their own: one pending update of maximal size leaves no room in bytes for *)
(* another reservation, two minimal ones leave room in bytes but none left   *)
(* in number.                                                                *)
EXTENDS DocumentJob

(* One code of each class load tells apart: the page alone fails, or the job *)
(* fails.                                                                    *)
MCSourceCodes == {"PageSource", "SourceChanged"}
=============================================================================
