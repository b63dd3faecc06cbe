-------------------------- MODULE LayoutDecoding ---------------------------
(* From a detector's outputs to a page's regions: decode of                  *)
(* podoco/src/pipelines/layout/mod.rs.  Candidates are pairs of a query and  *)
(* a class; the best by score are kept, the queries vote pairwise on their   *)
(* reading order, and the regions come out in that order.  Scores and        *)
(* probabilities are small integers: what matters is how they compare, with  *)
(* ties, not their floating-point value.                                     *)
EXTENDS Naturals, Sequences, SequencesExt, FiniteSets, FiniteSetsExt

CONSTANTS
    NumQueries, NumClasses,   \* 300 and 25
    Best,        \* 300: candidates kept by score
    Threshold,   \* 0.30
    Scores,      \* detector scores
    Certain,     \* a probability of one; p ranges over 0 .. Certain
    Formulas     \* the classes that are formulas

Queries == 0 .. NumQueries - 1
Flats == 0 .. NumQueries * NumClasses - 1   \* flat index of a query and a class
Query(flat) == flat \div NumClasses
Class(flat) == flat % NumClasses
Pairs == {pair \in Queries \X Queries : pair[1] < pair[2]}

VARIABLES
    score,      \* of each flat index
    prefers,    \* for r < q: how sure it is that r is read before q
    finite,     \* all outputs are finite and all boxes in the raster
    phase,
    candidates, \* the sequence decode works on
    regions     \* the page's regions: ids and formula flags

outputs == <<score, prefers, finite>>
vars == <<outputs, phase, candidates, regions>>

Init ==
    /\ score \in [Flats -> Scores] /\ prefers \in [Pairs -> 0 .. Certain]
    /\ finite \in BOOLEAN
    /\ phase = "outputs" /\ candidates = <<>> /\ regions = <<>>

-----------------------------------------------------------------------------
(* Selecting by score, ties by index.                                        *)

Better(a, b) == score[a] > score[b] \/ (score[a] = score[b] /\ a < b)
IsSure(flat) == score[flat] >= Threshold

Select ==
    /\ phase = "outputs"
    /\ IF finite
       THEN /\ phase' = "selected"
            /\ candidates' = SelectSeq(SubSeq(SetToSortSeq(Flats, Better), 1, Best), IsSure)
       ELSE phase' = "failed" /\ UNCHANGED candidates
    /\ UNCHANGED <<outputs, regions>>

-----------------------------------------------------------------------------
(* Ordering by votes: how many of the others a query is read after.          *)

Above(q) == MapThenSumSet(LAMBDA r : prefers[<<r, q>>], {r \in Queries : r < q})
Below(q) == MapThenSumSet(LAMBDA r : Certain - prefers[<<q, r>>], {r \in Queries : r > q})
Vote(q) == Above(q) + Below(q)

Before(a, b) ==
    \/ Vote(Query(a)) < Vote(Query(b))
    \/ Vote(Query(a)) = Vote(Query(b)) /\ a < b

Order ==
    /\ phase = "selected"
    /\ candidates' = SortSeq(candidates, Before)
    /\ phase' = "ordered"
    /\ UNCHANGED <<outputs, regions>>

-----------------------------------------------------------------------------
(* The page.                                                                 *)

RegionId(flat) == flat
Assemble ==
    /\ phase = "ordered"
    /\ regions' = [i \in DOMAIN candidates |->
                     [id |-> RegionId(candidates[i]), formula |-> Class(candidates[i]) \in Formulas]]
    /\ phase' = "page"
    /\ UNCHANGED <<outputs, candidates>>

Next == Select \/ Order \/ Assemble
Spec == Init /\ [][Next]_vars

-----------------------------------------------------------------------------
(* Properties.                                                               *)

(* A candidate is kept exactly when it is sure enough and fewer than Best    *)
(* others are better: ties are broken by index, so equal scores at the cut   *)
(* never make two runs of one raster disagree.                               *)
KeepsTheBest ==
    phase = "selected" =>
      ToSet(candidates) = {c \in Flats : score[c] >= Threshold
                             /\ Cardinality({d \in Flats : Better(d, c)}) < Best}

(* Where the pairwise votes are unanimous and consistent, the reading order  *)
(* is theirs: a region the model puts before another one comes first.        *)
Precedes(r, q) == IF r < q THEN prefers[<<r, q>>] = Certain ELSE prefers[<<q, r>>] = 0
Consistent ==
    /\ \A pair \in Pairs : prefers[pair] \in {0, Certain}
    /\ \A a, b, c \in Queries : a # b /\ b # c /\ a # c /\ Precedes(a, b) /\ Precedes(b, c)
                                => Precedes(a, c)
FollowsVotes ==
    phase = "ordered" /\ Consistent =>
      \A i, j \in DOMAIN candidates : LET q == Query(candidates[i])  r == Query(candidates[j]) IN
        i < j /\ q # r => Precedes(q, r)

(* Ties in the votes leave nothing to chance: the order of the regions is a  *)
(* function of the outputs, by query and class, whatever sorting did.        *)
TiesByIndex ==
    phase = "ordered" =>
      \A i, j \in DOMAIN candidates : LET a == candidates[i]  b == candidates[j] IN
        i < j => \/ Vote(Query(a)) < Vote(Query(b))
                 \/ Vote(Query(a)) = Vote(Query(b)) /\ a < b

(* The page passes the validators: no id twice, although one query may give  *)
(* several regions, and so one formula state and one place in the order each.*)
IdsDiffer == phase = "page" => IsInjective([i \in DOMAIN regions |-> regions[i].id])
=============================================================================
