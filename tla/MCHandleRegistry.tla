-------------------------- MODULE MCHandleRegistry --------------------------
(* HandleRegistry with two threads, two leases and a job: one thread can     *)
(* release what the other reads, publishes or has just been refused.         *)
EXTENDS HandleRegistry
=============================================================================
