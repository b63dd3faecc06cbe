--------------------------- MODULE BoundedWriter ---------------------------
(* Encoding an update within its reservation: BoundedWriter of               *)
(* podoco/src/results.rs under serde_json, to_json and the capacity check of *)
(* emit in podoco/src/jobs/engine.rs.  The job's accounting charges the      *)
(* capacity of the encoded bytes, so neither they nor the allocation behind  *)
(* them may outgrow what was reserved.                                       *)
EXTENDS Naturals, FiniteSetsExt

CONSTANTS
    Limits,    \* reservations tried
    Chunks,    \* sizes of the pieces the serializer writes
    MaxTotal   \* bound on what one update writes

ASSUME WriterAssumption == Limits \subseteq Nat /\ Chunks \subseteq Nat /\ MaxTotal \in Nat

VARIABLES
    limit,      \* the reservation
    length, capacity,   \* the vector
    asked,      \* bytes the serializer asked to write so far
    exceeded,   \* a write did not fit
    result      \* "writing", then "encoded", "limit", "invalid" or "memory"

vars == <<limit, length, capacity, asked, exceeded, result>>

Init ==
    /\ limit \in Limits
    /\ length = 0 /\ capacity = 0 /\ asked = 0
    /\ exceeded = FALSE /\ result = "writing"

Minus(a, b) == IF a > b THEN a - b ELSE 0

Fits(n) == n <= Minus(limit, length)

(* Doubling, at least what is needed, at most the reservation; an exact      *)
(* reservation is taken to give what was asked for.                          *)
GrowsFreely(needed) == Max({2 * capacity, needed})
Grown(needed) == Min({Max({2 * capacity, needed}), limit})

Write(n) ==
    LET needed == length + n IN
    /\ result = "writing" /\ asked + n <= MaxTotal
    /\ asked' = asked + n
    /\ IF Fits(n)
       THEN /\ length' = needed
            /\ capacity' = IF needed > capacity THEN Grown(needed) ELSE capacity
            /\ UNCHANGED <<exceeded, result>>
       ELSE exceeded' = TRUE /\ result' = "limit" /\ UNCHANGED <<length, capacity>>
    /\ UNCHANGED limit

(* The allocator may refuse a growth, the serializer may fail on its own;    *)
(* both are reported as an invalid result.                                   *)
WriteFails ==
    /\ result = "writing"
    /\ result' = IF exceeded THEN "limit" ELSE "invalid"
    /\ UNCHANGED <<limit, length, capacity, asked, exceeded>>

(* emit compares the capacity with the reservation once more.                *)
Charges == capacity <= limit
Finish ==
    /\ result = "writing"
    /\ result' = IF Charges THEN "encoded" ELSE "limit"
    /\ UNCHANGED <<limit, length, capacity, asked, exceeded>>

Next == (\E n \in Chunks : Write(n)) \/ WriteFails \/ Finish
Spec == Init /\ [][Next]_vars

-----------------------------------------------------------------------------
(* Properties.                                                               *)

(* Type invariant.                                                           *)
TypeOK ==
    /\ limit \in Limits /\ length \in Nat /\ capacity \in Nat /\ length <= capacity
    /\ exceeded \in BOOLEAN
    /\ result \in {"writing", "encoded", "limit", "invalid"}

(* At no moment, also while a payload too large is being refused, is more    *)
(* allocated than was reserved for the update (jobs/engine.rs:316).          *)
AllocationReserved == capacity <= limit

(* An update that fits its reservation is never refused, whatever pieces the *)
(* serializer writes it in, and one that does not fit is never cut short.    *)
RefusesOnlyExcess ==
    /\ result = "limit" => asked > limit
    /\ result = "encoded" => length = asked

(* What the job charges for an update is what the update really took.        *)
WithinReservation == TypeOK /\ AllocationReserved /\ RefusesOnlyExcess
=============================================================================
