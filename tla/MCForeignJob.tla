---------------------------- MODULE MCForeignJob ----------------------------
(* ForeignJob with two pages, one content update and the terminal notice: a  *)
(* second request can meet what is left of the first one.                    *)
EXTENDS ForeignJob
=============================================================================
