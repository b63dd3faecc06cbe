------------------------ MODULE MCBundlePreparation ------------------------
(* BundlePreparation with interchangeable calls and interchangeable ids.     *)
EXTENDS BundlePreparation, TLC

TwoArtifacts == 1 .. 2
Interchangeable == Permutations(Preparers) \cup Permutations(Processes)
=============================================================================
