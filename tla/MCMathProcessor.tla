-------------------------- MODULE MCMathProcessor --------------------------
(* MathProcessor with two callers, so that one may meet a full queue and may *)
(* follow the other's failure, two closers and two speech settings.          *)
EXTENDS MathProcessor
=============================================================================
