-------------------------- MODULE MCPackPublication --------------------------
(* PackPublication with interchangeable runs.                                *)
EXTENDS PackPublication, TLC

Interchangeable == Permutations(Tools)
=============================================================================
