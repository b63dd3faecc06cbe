-------------------------- MODULE MCFormulaSession --------------------------
(* FormulaSession with caches of two and four slots, every cap up to the     *)
(* large cache, and native states that may or may not fit the budget.        *)
EXTENDS FormulaSession
=============================================================================
