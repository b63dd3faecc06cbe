--------------------------- MODULE MCAnalyzerLane ---------------------------
(* AnalyzerLane with interchangeable jobs: two fill a queue of one before    *)
(* the worker pops, so that a submission can be refused; a third finds the   *)
(* lane after a failure.                                                     *)
EXTENDS AnalyzerLane, TLC

JobSymmetry == Permutations(Jobs)

(* A loader over the C ABI may report any code (podoco_source_fail); an      *)
(* honest one reports what went wrong with its page.                         *)
MCAnyCodes == {"SourceChanged", "Backend"}
=============================================================================
