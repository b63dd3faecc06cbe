----------------------- MODULE SequentialPartsProofs -----------------------
(* Theorems about the sequential parts: the bounded encoding of an update,   *)
(* for every reservation and every sequence of pieces; the verification of   *)
(* assets, for every set of paths and every contract; what an analysis job   *)
(* tells its sink, for every number of pages and answer of the pipeline; and *)
(* the pixels a model sees, for every raster, map and size: the resized page *)
(* of the layout model, and the crop and the thumbnail of a formula.         *)
EXTENDS SequentialParts, FiniteSetTheorems, WellFoundedInduction, TLAPS

-----------------------------------------------------------------------------
(* The bounded writer.                                                       *)

(* The smaller and the larger of two numbers.                                *)
LEMMA MinOfTwo ==
  ASSUME NEW a \in Nat, NEW b \in Nat
  PROVE  Min({a, b}) = IF a <= b THEN a ELSE b
  BY DEF Min

LEMMA MaxOfTwo ==
  ASSUME NEW a \in Nat, NEW b \in Nat
  PROVE  Max({a, b}) = IF a >= b THEN a ELSE b
  BY DEF Max

(* A vector that has to grow to a size within the reservation grows to at    *)
(* least that size and at most the reservation.                              *)
LEMMA GrownFits ==
  ASSUME limit \in Nat, capacity \in Nat, NEW needed \in Nat, needed <= limit
  PROVE  Grown(needed) \in Nat /\ needed <= Grown(needed) /\ Grown(needed) <= limit
<1>1. Max({2 * capacity, needed}) \in Nat /\ needed <= Max({2 * capacity, needed})
  BY MaxOfTwo
<1> QED BY <1>1, MinOfTwo DEF Grown

(* The inductive invariant: next to the properties, what was asked for is    *)
(* what was written until a piece is refused, and a refusal means that more  *)
(* was asked for than is reserved.                                           *)
WriterInv ==
    /\ TypeOK
    /\ limit \in Nat /\ asked \in Nat
    /\ AllocationReserved
    /\ result \in {"writing", "encoded"} => asked = length /\ ~exceeded
    /\ exceeded \/ result = "limit" => asked > limit

LEMMA WriterInit == Init => WriterInv
<1> SUFFICES ASSUME Init PROVE WriterInv
  OBVIOUS
<1>1. limit \in Limits /\ limit \in Nat BY WriterAssumption DEF Init
<1>2. ~exceeded /\ exceeded \in BOOLEAN BY DEF Init
<1>3. length = 0 /\ capacity = 0 /\ asked = 0 /\ result = "writing" BY DEF Init
<1> QED BY <1>1, <1>2, <1>3 DEF WriterInv, TypeOK, AllocationReserved

LEMMA WriterStep == WriterInv /\ [Next]_vars => WriterInv'
<1> SUFFICES ASSUME WriterInv, [Next]_vars PROVE WriterInv'
  OBVIOUS
<1>t. /\ limit \in Limits /\ limit \in Nat /\ length \in Nat /\ capacity \in Nat /\ asked \in Nat
      /\ length <= capacity /\ capacity <= limit
  BY DEF WriterInv, TypeOK, AllocationReserved
<1>1. CASE \E n \in Chunks : Write(n)
  <2> PICK n \in Chunks : Write(n) BY <1>1
  <2>1. n \in Nat BY WriterAssumption
  <2>2. CASE Fits(n)
    <3>1. length + n \in Nat /\ length + n <= limit
      BY <1>t, <2>1, <2>2 DEF Fits, Minus
    <3>2. /\ Grown(length + n) \in Nat /\ length + n <= Grown(length + n)
          /\ Grown(length + n) <= limit
      BY <1>t, <3>1, GrownFits
    <3>3. /\ length' = length + n /\ asked' = asked + n /\ limit' = limit
          /\ capacity' = IF length + n > capacity THEN Grown(length + n) ELSE capacity
          /\ exceeded' = exceeded /\ result' = result /\ result = "writing"
      BY <2>2 DEF Write
    <3> QED BY <1>t, <2>1, <3>1, <3>2, <3>3 DEF WriterInv, TypeOK, AllocationReserved
  <2>3. CASE ~Fits(n)
    <3>1. asked' = asked + n /\ asked + n > limit
      BY <1>t, <2>1, <2>3 DEF Write, Fits, Minus, WriterInv
    <3> QED BY <1>t, <2>1, <2>3, <3>1 DEF Write, WriterInv, TypeOK, AllocationReserved
  <2> QED BY <2>2, <2>3
<1>2. CASE WriteFails
  BY <1>2 DEF WriteFails, WriterInv, TypeOK, AllocationReserved
<1>3. CASE Finish
  BY <1>3, <1>t DEF Finish, Charges, WriterInv, TypeOK, AllocationReserved
<1>4. CASE UNCHANGED vars
  BY <1>4 DEF vars, WriterInv, TypeOK, AllocationReserved
<1> QED BY <1>1, <1>2, <1>3, <1>4 DEF Next

LEMMA WriterInvariant == Spec => []WriterInv
  BY WriterInit, WriterStep, PTL DEF Spec

(* However an update is cut into pieces and whatever is refused on the way,  *)
(* nothing beyond its reservation is ever allocated for it, it is refused    *)
(* only when it does not fit, and what is encoded is all of it.              *)
THEOREM ReservationKept == Spec => []WithinReservation
<1>1. WriterInv => RefusesOnlyExcess BY DEF WriterInv, RefusesOnlyExcess
<1>2. WriterInv => WithinReservation BY <1>1 DEF WriterInv, WithinReservation
<1> QED BY <1>2, WriterInvariant, PTL

-----------------------------------------------------------------------------
(* Accepting assets.                                                         *)

Verdicts == {"accepted", "pinned", "refused"}

(* Types of what is verified; nothing of it changes.                         *)
AssetTypes ==
    /\ kind \in Assets!Kinds /\ oddity \in Assets!Oddities
    /\ listed \in [Paths -> Assets!Contents \cup {Assets!None}]
    /\ tree \in [Paths -> Assets!Contents \cup {Assets!None}]
    /\ phase \in {"manifest", "inventory", "payloads", "rejected"} \cup Verdicts

(* What a verification has established when it stands at a phase: the checks *)
(* before it hold of the very manifest and directory it started with, and a  *)
(* rejection is the fault of one of them.                                    *)
Genuine == \A p \in Assets!Files(listed) : tree[p] = listed[p]
Established ==
    /\ phase \in {"inventory", "payloads"} \cup Verdicts => Assets!Supported
    /\ phase \in {"payloads"} \cup Verdicts => Assets!Matches /\ ~Assets!Refuses
    /\ phase \in Verdicts => Genuine
    /\ phase = "pinned" => Assets!HasPin
    /\ phase = "refused" => ~Assets!HasPin
    /\ phase = "rejected" => \/ ~Assets!Supported
                             \/ ~Assets!Matches \/ Assets!Refuses
                             \/ ~Genuine

AssetInv == part = "assets" => AssetTypes /\ Established

LEMMA AssetInit == PartsInit => AssetInv
<1> SUFFICES ASSUME PartsInit, part = "assets" PROVE AssetTypes /\ Established
  BY DEF AssetInv
<1>1. Assets!Init
  BY DEF PartsInit
<1> QED
  BY <1>1 DEF Assets!Init, AssetTypes, Established, Verdicts

LEMMA AssetStep ==
  AssetInv /\ [PartsNext]_<<part, phase, assetVars, rasterVars, ofPixels, resultVars, vars>>
    => AssetInv'
<1> SUFFICES ASSUME AssetTypes, Established, part = "assets",
                    Assets!Next \/ UNCHANGED <<phase, assetVars>>
             PROVE  (AssetTypes /\ Established)'
  BY DEF AssetInv, PartsNext
<1>1. CASE Assets!ReadManifest
  <2>1. UNCHANGED <<kind, listed, tree, oddity>>
    BY <1>1 DEF Assets!ReadManifest, Assets!Goto, Assets!asset
  <2>2. phase' = IF Assets!Supported THEN "inventory" ELSE "rejected"
    BY <1>1 DEF Assets!ReadManifest, Assets!Goto
  <2> QED
    BY <2>1, <2>2 DEF AssetTypes, Established, Verdicts, Assets!Supported, Assets!LayoutManifest,
       Assets!Files, Assets!Pins, Assets!Exact
<1>2. CASE Assets!Inventory
  <2>1. UNCHANGED <<kind, listed, tree, oddity>> /\ phase = "inventory"
    BY <1>2 DEF Assets!Inventory, Assets!Goto, Assets!asset
  <2>2. phase' = IF Assets!Matches /\ ~Assets!Refuses THEN "payloads" ELSE "rejected"
    BY <1>2 DEF Assets!Inventory, Assets!Goto
  <2> QED
    BY <2>1, <2>2 DEF AssetTypes, Established, Verdicts, Assets!Supported, Assets!LayoutManifest,
       Assets!Files, Assets!Pins, Assets!Exact, Assets!Matches, Assets!Scope, Assets!Refuses
<1>3. CASE Assets!VerifyFiles
  <2>1. UNCHANGED <<kind, listed, tree, oddity>> /\ phase = "payloads"
    BY <1>3 DEF Assets!VerifyFiles, Assets!Goto, Assets!asset
  <2>2. phase' = IF Genuine THEN "accepted" ELSE "rejected"
    BY <1>3 DEF Assets!VerifyFiles, Assets!Goto, Genuine
  <2> QED
    BY <2>1, <2>2 DEF AssetTypes, Established, Verdicts, Assets!Supported, Assets!LayoutManifest,
       Assets!Files, Assets!Pins, Assets!Exact, Assets!Matches, Assets!Scope, Assets!Refuses,
       Genuine
<1>4. CASE Assets!VerifyComponent
  <2>1. UNCHANGED <<kind, listed, tree, oddity>> /\ phase = "accepted"
    BY <1>4 DEF Assets!VerifyComponent, Assets!Goto, Assets!asset
  <2>2. phase' = IF Assets!HasPin THEN "pinned" ELSE "refused"
    BY <1>4 DEF Assets!VerifyComponent, Assets!Goto
  <2> QED
    BY <2>1, <2>2 DEF AssetTypes, Established, Verdicts, Assets!Supported, Assets!LayoutManifest,
       Assets!Files, Assets!Pins, Assets!Exact, Assets!Matches, Assets!Scope, Assets!Refuses,
       Assets!HasPin, Genuine
<1>5. CASE UNCHANGED <<phase, assetVars>>
  BY <1>5 DEF assetVars, AssetTypes, Established, Verdicts, Assets!Supported,
     Assets!LayoutManifest, Assets!Files, Assets!Pins, Assets!Exact, Assets!Matches, Assets!Scope,
     Assets!Refuses, Assets!HasPin, Genuine
<1> QED BY <1>1, <1>2, <1>3, <1>4, <1>5 DEF Assets!Next

LEMMA AssetInvariant == PartsSpec => []AssetInv
  BY AssetInit, AssetStep, PTL DEF PartsSpec

(* What is accepted answers for every payload in its scope.                  *)
LEMMA AcceptedAnswers ==
  ASSUME AssetTypes, Established, phase \in Verdicts
  PROVE  /\ \A p \in Assets!Scope : tree[p] = listed[p]
         /\ oddity # "link inside"
<1>1. Assets!Matches /\ ~Assets!Refuses /\ Genuine
  BY DEF Established
<1>2. ASSUME NEW p \in Assets!Scope PROVE tree[p] = listed[p]
  <2>1. p \in Paths BY DEF Assets!Scope
  <2>2. CASE listed[p] # Assets!None
    BY <1>1, <2>1, <2>2 DEF Genuine, Assets!Files
  <2>3. CASE listed[p] = Assets!None
    BY <1>1, <2>1, <2>3 DEF Assets!Matches, Assets!Files
  <2> QED BY <2>2, <2>3
<1> QED BY <1>1, <1>2 DEF Assets!Refuses

(* The pinned assets pass every check.                                       *)
LEMMA PinnedPasses ==
  ASSUME AssetTypes, listed = Assets!Exact, tree = Assets!Exact,
         oddity \in {Assets!None, "metadata"}
  PROVE  Assets!Supported /\ Assets!Matches /\ ~Assets!Refuses /\ Genuine /\ Assets!HasPin
<1>1. /\ Contract \subseteq {p \in Paths : Location[p] = "upstream"}
      /\ Compiled \subseteq {p \in Paths : Location[p] = "compiled"} /\ Contract # {}
  BY PartsAssumption
<1>2. Assets!Files(listed) = Contract \cup Compiled /\ Assets!Files(tree) = Contract \cup Compiled
  BY <1>1 DEF Assets!Files, Assets!Exact, Assets!None
<1>3. \A p \in Assets!Files(listed) : p \in Paths /\ Location[p] # "elsewhere"
  BY <1>1, <1>2
<1>4. Assets!LayoutManifest
  BY <1>1, <1>2, <1>3 DEF Assets!LayoutManifest
<1>5. \A p \in Assets!Files(listed) : Assets!Pins(p)
  BY <1>1, <1>2 DEF Assets!Pins, Assets!Upstream, Assets!Exact
<1>6. Assets!Required \subseteq Assets!Files(listed)
  BY <1>2 DEF Assets!Required
<1>7. Assets!Supported
  BY <1>3, <1>4, <1>5, <1>6 DEF Assets!Supported, AssetTypes, Assets!Kinds
<1>8. Assets!Matches
  BY <1>2, <1>3 DEF Assets!Matches, Assets!Scope, Assets!Beside
<1> QED
  BY <1>7, <1>8 DEF Assets!Refuses, Assets!None, Genuine, Assets!HasPin

(* Whatever a manifest claims and a directory holds: an accepted directory   *)
(* holds nothing its manifest does not answer for, and from upstream only    *)
(* what the contract pins; with the pinned manifest exactly the pinned       *)
(* files; and the pinned directory is never turned away.                     *)
THEOREM AcceptsOnlyPinned == PartsSpec => []OnlyPinnedAccepted
<1> SUFFICES ASSUME AssetInv PROVE OnlyPinnedAccepted
  BY AssetInvariant, PTL
<1> SUFFICES ASSUME AssetTypes, Established
             PROVE  /\ Assets!UpstreamIsPinned /\ Assets!NothingUnlisted
                    /\ Assets!PinFixesContent /\ Assets!GenuineAccepted
  BY DEF AssetInv, OnlyPinnedAccepted
<1>a. Assets!Accepted <=> phase \in Verdicts
  BY DEF Assets!Accepted, Verdicts
<1>1. Assets!NothingUnlisted
  BY <1>a, AcceptedAnswers DEF Assets!NothingUnlisted
<1>2. Assets!UpstreamIsPinned
  <2> SUFFICES ASSUME phase \in Verdicts, kind # "layout"
               PROVE  /\ \A p \in Paths : Assets!Upstream(p) => tree[p] \in {Assets!None, "pinned"}
                      /\ (Contract \ Optional) \cup Compiled \subseteq Assets!Files(tree)
    BY <1>a DEF Assets!UpstreamIsPinned
  <2>1. tree = listed
    <3>1. \A p \in Paths : tree[p] = listed[p]
      BY AcceptedAnswers DEF Assets!Scope
    <3> QED BY <3>1 DEF AssetTypes
  <2>2. Assets!Supported
    BY DEF Established
  <2>3. Contract \cup Compiled \subseteq Paths
    BY PartsAssumption
  <2>4. CASE kind = "formula"
    BY <2>1, <2>2, <2>4 DEF Assets!Supported, Assets!Pins, Assets!Required, Assets!Files
  <2>5. CASE kind = "math"
    <3>1. listed = Assets!Exact BY <2>2, <2>5 DEF Assets!Supported
    <3> QED BY <2>1, <2>3, <3>1 DEF Assets!Exact, Assets!Files, Assets!None
  <2> QED BY <2>4, <2>5 DEF AssetTypes, Assets!Kinds
<1>3. Assets!PinFixesContent
  <2> SUFFICES ASSUME phase = "pinned" PROVE \A p \in Assets!Scope : tree[p] = Assets!Exact[p]
    BY DEF Assets!PinFixesContent
  <2>1. listed = Assets!Exact BY DEF Established, Assets!HasPin
  <2> QED BY <2>1, AcceptedAnswers DEF Verdicts
<1>4. Assets!GenuineAccepted
  <2> SUFFICES ASSUME listed = Assets!Exact, tree = Assets!Exact,
                      oddity \in {Assets!None, "metadata"}
               PROVE  phase \notin {"rejected", "refused"}
    BY DEF Assets!GenuineAccepted
  <2> QED BY PinnedPasses DEF Established
<1> QED BY <1>1, <1>2, <1>3, <1>4

-----------------------------------------------------------------------------
(* What an analysis job tells its sink.  A sequence, of whatever items.      *)
Items(s) == {s[i] : i \in DOMAIN s}
IsSequence(s) == s \in Seq(Items(s))

LEMMA SequenceFacts ==
  ASSUME NEW s, IsSequence(s)
  PROVE  Len(s) \in Nat /\ DOMAIN s = 1 .. Len(s)
  BY DEF IsSequence

LEMMA OwnItems ==
  ASSUME NEW S, NEW a \in Seq(S)
  PROVE  IsSequence(a)
<1>1. a = [i \in 1 .. Len(a) |-> a[i]] /\ Len(a) \in Nat /\ DOMAIN a = 1 .. Len(a)
  OBVIOUS
<1>2. \A i \in 1 .. Len(a) : a[i] \in Items(a)
  BY <1>1 DEF Items
<1>3. [i \in 1 .. Len(a) |-> a[i]] \in Seq(Items(a))
  BY <1>1, <1>2
<1> QED BY <1>1, <1>3 DEF IsSequence

LEMMA AppendFacts ==
  ASSUME NEW s, IsSequence(s), NEW u
  PROVE  /\ IsSequence(Append(s, u)) /\ Len(Append(s, u)) = Len(s) + 1
         /\ DOMAIN Append(s, u) = 1 .. Len(s) + 1
         /\ \A i \in 1 .. Len(s) : Append(s, u)[i] = s[i]
         /\ Append(s, u)[Len(s) + 1] = u
<1> DEFINE both == Items(s) \cup {u}
           t == Append(s, u)
<1>1. s \in Seq(both) /\ u \in both
  BY DEF IsSequence
<1>2. t \in Seq(both) /\ Len(t) = Len(s) + 1 /\ DOMAIN t = 1 .. Len(s) + 1
      /\ (\A i \in 1 .. Len(s) : t[i] = s[i]) /\ t[Len(s) + 1] = u
  BY <1>1
<1> HIDE DEF t
<1>3. IsSequence(t)
  BY <1>2, OwnItems
<1> QED BY <1>2, <1>3 DEF t

(* Where the updates of a type stand, and the formulas told to have ended so.*)
Typed(s, type) == {i \in DOMAIN s : s[i].type = type}
Ending(s, is) == {i \in DOMAIN s : s[i].type = "FormulaFinished" /\ s[i].outcome.is = is}

LEMMA TypedGrow ==
  ASSUME NEW s, IsSequence(s), NEW u, NEW type
  PROVE  /\ Cardinality(Typed(s, type)) \in Nat
         /\ Cardinality(Typed(Append(s, u), type))
              = Cardinality(Typed(s, type)) + (IF u.type = type THEN 1 ELSE 0)
<1>0. Len(s) \in Nat /\ DOMAIN s = 1 .. Len(s)
  BY SequenceFacts
<1>1. Typed(s, type) \subseteq 1 .. Len(s)
  BY <1>0 DEF Typed
<1>2. IsFiniteSet(Typed(s, type))
  <2>1. IsFiniteSet(1 .. Len(s))
    BY <1>0, FS_Interval
  <2> QED BY <1>1, <2>1, FS_Subset
<1>3. Len(s) + 1 \notin Typed(s, type)
  BY <1>0, <1>1
<1>4. Typed(Append(s, u), type)
        = IF u.type = type THEN Typed(s, type) \cup {Len(s) + 1} ELSE Typed(s, type)
  BY <1>0, AppendFacts DEF Typed
<1> QED BY <1>2, <1>3, <1>4, FS_AddElement, FS_CardinalityType

LEMMA EndingGrow ==
  ASSUME NEW s, IsSequence(s), NEW u, NEW is
  PROVE  /\ Cardinality(Ending(s, is)) \in Nat
         /\ Cardinality(Ending(Append(s, u), is))
              = Cardinality(Ending(s, is))
                  + (IF u.type = "FormulaFinished" /\ u.outcome.is = is THEN 1 ELSE 0)
<1>0. Len(s) \in Nat /\ DOMAIN s = 1 .. Len(s)
  BY SequenceFacts
<1>1. Ending(s, is) \subseteq 1 .. Len(s)
  BY <1>0 DEF Ending
<1>2. IsFiniteSet(Ending(s, is))
  <2>1. IsFiniteSet(1 .. Len(s))
    BY <1>0, FS_Interval
  <2> QED BY <1>1, <2>1, FS_Subset
<1>3. Len(s) + 1 \notin Ending(s, is)
  BY <1>0, <1>1
<1>4. Ending(Append(s, u), is)
        = IF u.type = "FormulaFinished" /\ u.outcome.is = is THEN Ending(s, is) \cup {Len(s) + 1}
          ELSE Ending(s, is)
  BY <1>0, AppendFacts DEF Ending
<1> QED BY <1>2, <1>3, <1>4, FS_AddElement, FS_CardinalityType

(* The updates of a page stand right before its final snapshot: its layout   *)
(* notice and then what it told of so many formulas.                         *)
FollowsWith(s, i, told) ==
    LET final == s[i].page
        start == i - told - 1
    IN /\ start >= 1 /\ s[start].type = "PageLayoutReady"
       /\ \A j \in 1 .. i - 1 : s[j].at = s[i].at <=> j >= start
       /\ s[start].page.regions = final.regions
       /\ s[start].page.order = final.order
       /\ \A f \in 1 .. told :
             /\ s[start + f].type = "FormulaFinished"
             /\ s[start + f].id = final.formulas[f].id
             /\ s[start + f].outcome = final.formulas[f].state
FormulasTold(all, p) == IF all THEN Len(p.formulas) ELSE 0
Follows(s, all, i) == /\ FormulasTold(all, s[i].page) \in Nat
                      /\ FollowsWith(s, i, FormulasTold(all, s[i].page))

LEMMA FollowsStays ==
  ASSUME NEW s, IsSequence(s), NEW u, NEW all, NEW i \in 1 .. Len(s), Follows(s, all, i)
  PROVE  Follows(Append(s, u), all, i)
<1> DEFINE t == Append(s, u)
           told == FormulasTold(all, s[i].page)
           start == i - told - 1
<1>0. Len(s) \in Nat /\ \A j \in 1 .. Len(s) : t[j] = s[j]
  BY SequenceFacts, AppendFacts
<1>1. told \in Nat /\ start >= 1
  BY DEF Follows, FollowsWith
<1>2. /\ s[start].type = "PageLayoutReady"
      /\ \A j \in 1 .. i - 1 : s[j].at = s[i].at <=> j >= start
      /\ s[start].page.regions = s[i].page.regions /\ s[start].page.order = s[i].page.order
      /\ \A f \in 1 .. told : /\ s[start + f].type = "FormulaFinished"
                              /\ s[start + f].id = s[i].page.formulas[f].id
                              /\ s[start + f].outcome = s[i].page.formulas[f].state
  BY DEF Follows, FollowsWith
<1> HIDE DEF told, t
<1>3. start \in 1 .. Len(s) /\ \A f \in 1 .. told : start + f \in 1 .. Len(s)
  BY <1>0, <1>1
<1>4. \A j \in 1 .. i - 1 : j \in 1 .. Len(s)
  BY <1>0
<1> HIDE DEF start
<1>5. /\ t[i] = s[i] /\ t[start] = s[start] /\ \A j \in 1 .. i - 1 : t[j] = s[j]
      /\ \A f \in 1 .. told : t[start + f] = s[start + f]
  BY <1>0, <1>3, <1>4
<1>6. /\ t[start].type = "PageLayoutReady"
      /\ \A j \in 1 .. i - 1 : t[j].at = t[i].at <=> j >= start
      /\ t[start].page.regions = t[i].page.regions /\ t[start].page.order = t[i].page.order
      /\ \A f \in 1 .. told : /\ t[start + f].type = "FormulaFinished"
                              /\ t[start + f].id = t[i].page.formulas[f].id
                              /\ t[start + f].outcome = t[i].page.formulas[f].state
  BY <1>2, <1>5
<1>7. FollowsWith(t, i, told)
  BY <1>1, <1>6 DEF FollowsWith, start
<1>8. FormulasTold(all, t[i].page) = told
  BY <1>5 DEF told
<1> QED BY <1>1, <1>7, <1>8 DEF Follows, t

(* What a page under assembly has told: its layout notice opens the updates  *)
(* that carry its number, and the formulas so far follow it in their order.  *)
Begun(s, p, n, a) ==
    LET start == Len(s) - n
    IN /\ start >= 1 /\ s[start].type = "PageLayoutReady"
       /\ \A j \in 1 .. Len(s) : s[j].at = a <=> j >= start
       /\ s[start].page.regions = p.regions /\ s[start].page.order = p.order
       /\ \A f \in 1 .. n : /\ s[start + f].type = "FormulaFinished"
                            /\ s[start + f].id = p.formulas[f].id
                            /\ s[start + f].outcome = p.formulas[f].state

LEMMA Begins ==
  ASSUME NEW s, IsSequence(s), NEW u, NEW p, NEW a \in Nat,
         u.type = "PageLayoutReady", u.at = a, u.page = p,
         \A j \in 1 .. Len(s) : s[j].at \in Nat /\ s[j].at < a
  PROVE  Begun(Append(s, u), p, 0, a)
<1> DEFINE t == Append(s, u)
<1>1. /\ Len(s) \in Nat /\ Len(t) = Len(s) + 1 /\ t[Len(s) + 1] = u
      /\ \A j \in 1 .. Len(s) : t[j] = s[j]
  BY SequenceFacts, AppendFacts
<1> HIDE DEF t
<1>2. Len(t) - 0 = Len(s) + 1 /\ Len(t) >= 1 /\ t[Len(t) - 0] = u
  BY <1>1
<1>3. \A j \in 1 .. Len(t) : t[j].at = a <=> j >= Len(t) - 0
  <2> SUFFICES ASSUME NEW j \in 1 .. Len(t) PROVE t[j].at = a <=> j >= Len(t) - 0
    OBVIOUS
  <2>1. CASE j = Len(s) + 1
    BY <1>1, <1>2, <2>1
  <2>2. CASE j \in 1 .. Len(s)
    <3>1. t[j].at = s[j].at /\ s[j].at \in Nat /\ s[j].at < a
      BY <1>1, <2>2
    <3>2. t[j].at # a
      BY <3>1
    <3> QED BY <1>1, <2>2, <3>2
  <2> QED BY <1>1, <2>1, <2>2
<1>4. \A f \in 1 .. 0 : FALSE
  OBVIOUS
<1> QED BY <1>1, <1>2, <1>3, <1>4 DEF Begun, t

LEMMA TellsOneMore ==
  ASSUME NEW s, IsSequence(s), NEW u, NEW p, NEW q, NEW n \in Nat, NEW a,
         Begun(s, p, n, a), q.regions = p.regions, q.order = p.order,
         \A f \in 1 .. n : q.formulas[f] = p.formulas[f],
         u.type = "FormulaFinished", u.at = a,
         u.id = q.formulas[n + 1].id, u.outcome = q.formulas[n + 1].state
  PROVE  Begun(Append(s, u), q, n + 1, a)
<1> DEFINE t == Append(s, u)
           start == Len(s) - n
<1>1. /\ Len(s) \in Nat /\ Len(t) = Len(s) + 1 /\ t[Len(s) + 1] = u
      /\ \A j \in 1 .. Len(s) : t[j] = s[j]
  BY SequenceFacts, AppendFacts
<1>2. /\ start >= 1 /\ s[start].type = "PageLayoutReady"
      /\ \A j \in 1 .. Len(s) : s[j].at = a <=> j >= start
      /\ s[start].page.regions = p.regions /\ s[start].page.order = p.order
      /\ \A f \in 1 .. n : /\ s[start + f].type = "FormulaFinished"
                           /\ s[start + f].id = p.formulas[f].id
                           /\ s[start + f].outcome = p.formulas[f].state
  BY DEF Begun
<1> HIDE DEF t
<1>3. Len(t) - (n + 1) = start /\ start \in 1 .. Len(s) /\ start + (n + 1) = Len(s) + 1
  BY <1>1, <1>2
<1>4. t[start] = s[start] /\ \A f \in 1 .. n : t[start + f] = s[start + f]
  <2>1. \A f \in 1 .. n : start + f \in 1 .. Len(s)
    BY <1>1, <1>2
  <2> HIDE DEF start
  <2> QED BY <1>1, <1>3, <2>1
<1> HIDE DEF start
<1>5. \A j \in 1 .. Len(t) : t[j].at = a <=> j >= start
  <2> SUFFICES ASSUME NEW j \in 1 .. Len(t) PROVE t[j].at = a <=> j >= start
    OBVIOUS
  <2>1. CASE j = Len(s) + 1
    BY <1>1, <1>3, <2>1
  <2>2. CASE j \in 1 .. Len(s)
    BY <1>1, <1>2, <2>2
  <2> QED BY <1>1, <2>1, <2>2
<1>6. \A f \in 1 .. n + 1 : /\ t[start + f].type = "FormulaFinished"
                            /\ t[start + f].id = q.formulas[f].id
                            /\ t[start + f].outcome = q.formulas[f].state
  <2> SUFFICES ASSUME NEW f \in 1 .. n + 1
               PROVE  /\ t[start + f].type = "FormulaFinished"
                      /\ t[start + f].id = q.formulas[f].id
                      /\ t[start + f].outcome = q.formulas[f].state
    OBVIOUS
  <2>1. CASE f = n + 1
    BY <1>1, <1>3, <2>1
  <2>2. CASE f \in 1 .. n
    BY <1>2, <1>4, <2>2
  <2> QED BY <2>1, <2>2
<1>7. /\ t[start].type = "PageLayoutReady" /\ t[start].page.regions = q.regions
      /\ t[start].page.order = q.order
  BY <1>2, <1>4
<1> QED BY <1>2, <1>3, <1>5, <1>6, <1>7 DEF Begun, t

LEMMA Concludes ==
  ASSUME NEW s, IsSequence(s), NEW u, NEW p, NEW all, NEW n \in Nat, NEW a,
         Begun(s, p, n, a), n = FormulasTold(all, p),
         u.at = a, u.page = p
  PROVE  Follows(Append(s, u), all, Len(s) + 1)
<1> DEFINE t == Append(s, u)
           start == Len(s) - n
<1>1. /\ Len(s) \in Nat /\ t[Len(s) + 1] = u /\ \A j \in 1 .. Len(s) : t[j] = s[j]
  BY SequenceFacts, AppendFacts
<1>2. /\ start >= 1 /\ s[start].type = "PageLayoutReady"
      /\ \A j \in 1 .. Len(s) : s[j].at = a <=> j >= start
      /\ s[start].page.regions = p.regions /\ s[start].page.order = p.order
      /\ \A f \in 1 .. n : /\ s[start + f].type = "FormulaFinished"
                           /\ s[start + f].id = p.formulas[f].id
                           /\ s[start + f].outcome = p.formulas[f].state
  BY DEF Begun
<1> HIDE DEF t
<1>3. /\ Len(s) + 1 - n - 1 = start /\ start \in 1 .. Len(s)
      /\ Len(s) + 1 - 1 = Len(s) /\ \A f \in 1 .. n : start + f \in 1 .. Len(s)
  BY <1>1, <1>2
<1> HIDE DEF start
<1>4. t[start] = s[start] /\ \A f \in 1 .. n : t[start + f] = s[start + f]
  BY <1>1, <1>3
<1>5. t[Len(s) + 1].page = p /\ t[Len(s) + 1].at = a
  BY <1>1
<1>6. \A j \in 1 .. Len(s) : t[j].at = t[Len(s) + 1].at <=> j >= start
  BY <1>1, <1>2, <1>5
<1>7. /\ t[start].type = "PageLayoutReady"
      /\ t[start].page.regions = t[Len(s) + 1].page.regions
      /\ t[start].page.order = t[Len(s) + 1].page.order
      /\ \A f \in 1 .. n : /\ t[start + f].type = "FormulaFinished"
                           /\ t[start + f].id = t[Len(s) + 1].page.formulas[f].id
                           /\ t[start + f].outcome = t[Len(s) + 1].page.formulas[f].state
  BY <1>2, <1>4, <1>5
<1>8. FormulasTold(all, t[Len(s) + 1].page) = n
  BY <1>5
<1>9. FollowsWith(t, Len(s) + 1, n)
  BY <1>2, <1>3, <1>6, <1>7 DEF FollowsWith
<1> QED BY <1>8, <1>9 DEF Follows, t

(* What a stream told of: pages and formulas, by how they ended.             *)
Tally(s) == [pages |-> Cardinality(Typed(s, "PageFinished")),
             pagesFailed |-> Cardinality(Typed(s, "PageFailed")),
             recognized |-> Cardinality(Ending(s, "recognized")),
             failed |-> Cardinality(Ending(s, "failed")),
             truncated |-> Cardinality(Ending(s, "truncated"))]
Tallies == [pages : Nat, pagesFailed : Nat, recognized : Nat, failed : Nat, truncated : Nat]

LEMMA TallyGrows ==
  ASSUME NEW s, IsSequence(s), NEW u
  PROVE  /\ Tally(s) \in Tallies
         /\ u.type = "PageFinished" =>
              Tally(Append(s, u)) = [Tally(s) EXCEPT !.pages = @ + 1]
         /\ u.type = "PageFailed" =>
              Tally(Append(s, u)) = [Tally(s) EXCEPT !.pagesFailed = @ + 1]
         /\ u.type \in {"PageLayoutReady", "DocumentFinished"} => Tally(Append(s, u)) = Tally(s)
         /\ u.type = "FormulaFinished" /\ u.outcome.is \in {"recognized", "failed", "truncated"} =>
              Tally(Append(s, u)) = [Tally(s) EXCEPT ![u.outcome.is] = @ + 1]
<1> DEFINE T(type) == Cardinality(Typed(s, type))
           TT(type) == Cardinality(Typed(Append(s, u), type))
           E(is) == Cardinality(Ending(s, is))
           EE(is) == Cardinality(Ending(Append(s, u), is))
<1>1. \A type : T(type) \in Nat /\ TT(type) = T(type) + (IF u.type = type THEN 1 ELSE 0)
  BY TypedGrow
<1>2. \A is : /\ E(is) \in Nat
              /\ EE(is) = E(is)
                   + (IF u.type = "FormulaFinished" /\ u.outcome.is = is THEN 1 ELSE 0)
  BY EndingGrow
<1>3. /\ Tally(s) = [pages |-> T("PageFinished"), pagesFailed |-> T("PageFailed"),
                     recognized |-> E("recognized"), failed |-> E("failed"),
                     truncated |-> E("truncated")]
      /\ Tally(Append(s, u)) =
           [pages |-> TT("PageFinished"), pagesFailed |-> TT("PageFailed"),
            recognized |-> EE("recognized"), failed |-> EE("failed"),
            truncated |-> EE("truncated")]
  BY DEF Tally
<1> HIDE DEF T, TT, E, EE
<1>4. Tally(s) \in Tallies
  BY <1>1, <1>2, <1>3 DEF Tallies
<1>5. ASSUME u.type = "PageFinished"
      PROVE  Tally(Append(s, u)) = [Tally(s) EXCEPT !.pages = @ + 1]
  <2>1. TT("PageFinished") = T("PageFinished") + 1 /\ TT("PageFailed") = T("PageFailed")
    BY <1>1, <1>5
  <2>2. \A is : EE(is) = E(is)
    BY <1>2, <1>5
  <2> QED BY <1>3, <2>1, <2>2
<1>6. ASSUME u.type = "PageFailed"
      PROVE  Tally(Append(s, u)) = [Tally(s) EXCEPT !.pagesFailed = @ + 1]
  <2>1. TT("PageFailed") = T("PageFailed") + 1 /\ TT("PageFinished") = T("PageFinished")
    BY <1>1, <1>6
  <2>2. \A is : EE(is) = E(is)
    BY <1>2, <1>6
  <2> QED BY <1>3, <2>1, <2>2
<1>7. ASSUME u.type \in {"PageLayoutReady", "DocumentFinished"}
      PROVE  Tally(Append(s, u)) = Tally(s)
  <2>1. TT("PageFailed") = T("PageFailed") /\ TT("PageFinished") = T("PageFinished")
    BY <1>1, <1>7
  <2>2. \A is : EE(is) = E(is)
    BY <1>2, <1>7
  <2> QED BY <1>3, <2>1, <2>2
<1>8. ASSUME u.type = "FormulaFinished", u.outcome.is \in {"recognized", "failed", "truncated"}
      PROVE  Tally(Append(s, u)) = [Tally(s) EXCEPT ![u.outcome.is] = @ + 1]
  <2>1. TT("PageFailed") = T("PageFailed") /\ TT("PageFinished") = T("PageFinished")
    BY <1>1, <1>8
  <2>2. \A is : EE(is) = IF u.outcome.is = is THEN E(is) + 1 ELSE E(is)
    BY <1>2, <1>8
  <2>3. CASE u.outcome.is = "recognized"
    BY <1>3, <2>1, <2>2, <2>3
  <2>4. CASE u.outcome.is = "failed"
    BY <1>3, <2>1, <2>2, <2>4
  <2>5. CASE u.outcome.is = "truncated"
    BY <1>3, <2>1, <2>2, <2>5
  <2> QED BY <1>8, <2>3, <2>4, <2>5
<1> QED BY <1>4, <1>5, <1>6, <1>7, <1>8

-----------------------------------------------------------------------------
(* The inductive invariant of an analysis job's story.                       *)
Working == {"page", "ready", "recognize", "finish", "last"}
Assembled == {"ready", "recognize", "finish", "last"}
Codes == {"invalid", "backend", "cancelled", "sink"}
Counts == [pages : Nat, pagesFailed : Nat, detected : Nat, recognized : Nat, failed : Nat,
           truncated : Nat, pending : Nat, notRequested : Nat]
FormulasOf(p) == 1 .. Len(p.formulas)
Shaped(p) ==
    /\ p = [regions |-> p.regions, formulas |-> p.formulas, order |-> p.order]
    /\ IsSequence(p.formulas)
    /\ \A f \in FormulasOf(p) :
         p.formulas[f] = [id |-> p.formulas[f].id, state |-> p.formulas[f].state]

(* The validator of a page (ValidPage), with the scope as an argument.       *)
StateFits(all, p, f, final) ==
    \/ ~all /\ f.state.is = "not requested"
    \/ all /\ f.state.is = "pending" /\ ~final
    \/ /\ all /\ f.state \in Results!Outcomes /\ Results!ValidOutcome(f.state)
       /\ f.state.is = "recognized" => f.state.kind = Results!KindOf(p, f.id)
PageFits(all, p, final) ==
    /\ Results!Distinct(Results!IdsOf(p.regions)) /\ Results!Distinct(Results!IdsOf(p.formulas))
    /\ Results!ToSet(Results!IdsOf(p.formulas))
         = Results!ToSet(Results!IdsOf(Results!FormulaRegions(p)))
    /\ \A f \in Results!ToSet(p.formulas) : StateFits(all, p, f, final)
    /\ Results!ValidOrder(p)

LEMMA ValidFits ==
  ASSUME scope \in {"all", "none"}, NEW p, NEW final
  PROVE  Results!ValidPage(p, final) <=> PageFits(scope = "all", p, final)
<1>1. \A f : Results!ValidState(p, f, final) <=> StateFits(scope = "all", p, f, final)
  BY DEF Results!ValidState, StateFits
<1> QED BY <1>1 DEF Results!ValidPage, PageFits

StoryTypes ==
    /\ scope \in {"all", "none"} /\ at \in 1 .. NumPages + 1 /\ formula \in Nat
    /\ pc \in Working \cup {"summary", "done"} /\ Shaped(page)
    /\ counts \in Counts /\ IsSequence(stream) /\ refused = FALSE
    /\ error \in Codes \cup {Nothing} /\ stop \in {Nothing, "cancelled", "sink"}

(* The page under assembly passes the validator, and its formulas have their *)
(* outcomes up to the one recognized next.                                   *)
Assembly ==
    /\ pc \in Working => at <= NumPages /\ error = Nothing
    /\ pc \in {"ready", "recognize"} => scope = "all"
    /\ pc \in Assembled => PageFits(scope = "all", page, FALSE)
    /\ pc \in Assembled /\ scope = "none" =>
         \A f \in FormulasOf(page) : page.formulas[f].state = Results!Initial
    /\ pc \in Assembled /\ scope = "all" =>
         /\ formula \in 1 .. Len(page.formulas) + 1
         /\ \A f \in FormulasOf(page) :
              IF f < formula THEN page.formulas[f].state \in Results!Outcomes
              ELSE page.formulas[f].state = Results!Initial
    /\ pc = "ready" => formula = 1
    /\ pc = "recognize" => formula <= Len(page.formulas)
    /\ pc \in {"finish", "last"} /\ scope = "all" => formula = Len(page.formulas) + 1

(* The counts add up, to the pages gone through and the formulas detected.   *)
Adds(c) == c.recognized + c.failed + c.truncated + c.pending + c.notRequested = c.detected
Through == counts.pages + counts.pagesFailed
Open == IF pc \in Assembled /\ scope = "all" THEN Len(page.formulas) + 1 - formula ELSE 0
Balanced ==
    /\ Adds(counts) /\ Through <= NumPages
    /\ pc \in Working => Through = IF pc = "last" THEN at ELSE at - 1
    /\ error = Nothing /\ pc \in {"summary", "done"} => Through = NumPages
    /\ error = Nothing => counts.pending = Open

(* Nothing was told that is not counted; and until the pages break off,      *)
(* nothing counted that was not told, but for the page about to be.          *)
Below(t, c) == \A k \in {"pages", "pagesFailed", "recognized", "failed", "truncated"} : t[k] <= c[k]
Tells(t, c, last) ==
    /\ t.pages = c.pages - (IF last THEN 1 ELSE 0)
    /\ \A k \in {"pagesFailed", "recognized", "failed", "truncated"} : t[k] = c[k]
Tallied == /\ Below(Tally(stream), counts)
           /\ error = Nothing => Tells(Tally(stream), counts, pc = "last")

(* A summary is the last word.                                               *)
Summarized ==
    \A i \in Typed(stream, "DocumentFinished") :
      pc = "done" /\ stream[i].counts = counts /\ stream[i].status = Results!Status

(* What was told of the page under assembly, and of those before it.         *)
Telling == pc \in {"recognize", "last"} \/ (pc = "finish" /\ scope = "all")
ToldSoFar == IF scope = "all" THEN formula - 1 ELSE 0
Story ==
    pc \in Working =>
      /\ \A j \in 1 .. Len(stream) : stream[j].at \in Nat /\ stream[j].at <= at
      /\ ~Telling => \A j \in 1 .. Len(stream) : stream[j].at < at
      /\ Telling => Begun(stream, page, ToldSoFar, at)
Snapshots == \A i \in Typed(stream, "PageFinished") : Follows(stream, scope = "all", i)

StoryInv == StoryTypes /\ Assembly /\ Balanced /\ Tallied /\ Summarized /\ Story /\ Snapshots

ResultsInv == part = "results" => StoryInv

LEMMA EmptyStream ==
  ASSUME NEW s, s = <<>>
  PROVE  /\ IsSequence(s) /\ Len(s) = 0 /\ \A type : Typed(s, type) = {}
         /\ Tally(s) = [pages |-> 0, pagesFailed |-> 0, recognized |-> 0, failed |-> 0,
                        truncated |-> 0]
<1>1. IsSequence(s) /\ Len(s) = 0 /\ DOMAIN s = {}
  BY DEF IsSequence
<1>2. (\A type : Typed(s, type) = {}) /\ (\A is : Ending(s, is) = {})
  BY <1>1 DEF Typed, Ending
<1>3. Cardinality({}) = 0
  BY FS_EmptySet
<1> QED BY <1>1, <1>2, <1>3 DEF Tally

LEMMA NoPageShaped == Shaped(Results!NoPage)
<1> DEFINE p == Results!NoPage
<1>1. p = [regions |-> <<>>, formulas |-> <<>>, order |-> Nothing]
  BY DEF Results!NoPage
<1>2. IsSequence(p.formulas) /\ FormulasOf(p) = {}
  BY <1>1, EmptyStream DEF FormulasOf
<1> QED BY <1>1, <1>2 DEF Shaped

LEMMA ResultsInit == PartsInit => ResultsInv
<1> SUFFICES ASSUME part = "results", Results!Init PROVE StoryInv
  BY DEF PartsInit, ResultsInv
<1> USE DEF Results!Init
<1>1. /\ stream = <<>> /\ at = 1 /\ error = Nothing /\ stop = Nothing /\ refused = FALSE
      /\ formula = 1 /\ scope \in {"all", "none"}
      /\ pc = IF NumPages = 0 THEN "summary" ELSE "page"
  OBVIOUS
<1>2. counts \in Counts /\ \A f \in DOMAIN counts : counts[f] = 0
  BY DEF Results!Zero, Counts
<1>3. NumPages \in Nat /\ Nothing \notin Codes
  BY PartsAssumption DEF Codes
<1>4. /\ IsSequence(stream) /\ Len(stream) = 0 /\ \A type : Typed(stream, type) = {}
      /\ Tally(stream) = [pages |-> 0, pagesFailed |-> 0, recognized |-> 0, failed |-> 0,
                          truncated |-> 0]
  BY <1>1, EmptyStream
<1>5. Shaped(page)
  BY NoPageShaped
<1>6. StoryTypes
  BY <1>1, <1>2, <1>3, <1>4, <1>5 DEF StoryTypes, Working
<1>7. Assembly
  BY <1>1, <1>3 DEF Assembly, Working, Assembled
<1>8. Balanced
  BY <1>1, <1>2, <1>3 DEF Balanced, Adds, Through, Open, Working, Assembled, Counts
<1>9. Tallied
  BY <1>1, <1>2, <1>4 DEF Tallied, Below, Tells, Counts
<1>10. Summarized /\ Snapshots
  BY <1>4 DEF Summarized, Snapshots
<1>11. Story
  BY <1>1, <1>4 DEF Story, Telling
<1> QED BY <1>6, <1>7, <1>8, <1>9, <1>10, <1>11 DEF StoryInv

(* Until the end nothing was summarized, and an update leaves what was told. *)
LEMMA NothingSummarized ==
  ASSUME StoryInv, pc # "done"
  PROVE  Typed(stream, "DocumentFinished") = {}
  BY DEF StoryInv, Summarized

LEMMA Unsaid ==
  ASSUME StoryInv, pc # "done", stream' = stream, scope' = scope
  PROVE  Summarized' /\ Snapshots' /\ IsSequence(stream')
<1>1. Typed(stream, "DocumentFinished") = {}
  BY NothingSummarized
<1> QED BY <1>1 DEF StoryInv, StoryTypes, Summarized, Snapshots

LEMMA SnapshotsGrow ==
  ASSUME StoryInv, scope' = scope, NEW u, stream' = Append(stream, u),
         u.type = "PageFinished" => Follows(Append(stream, u), scope = "all", Len(stream) + 1)
  PROVE  Snapshots' /\ IsSequence(stream')
<1>1. IsSequence(stream) /\ Snapshots
  BY DEF StoryInv, StoryTypes
<1>2. /\ IsSequence(stream') /\ Len(stream) \in Nat
      /\ DOMAIN stream = 1 .. Len(stream) /\ DOMAIN stream' = 1 .. Len(stream) + 1
      /\ \A i \in 1 .. Len(stream) : stream'[i] = stream[i]
      /\ stream'[Len(stream) + 1] = u
  BY <1>1, AppendFacts, SequenceFacts
<1>3. Snapshots'
  <2> SUFFICES ASSUME NEW i \in 1 .. Len(stream) + 1, stream'[i].type = "PageFinished"
               PROVE  Follows(stream', scope = "all", i)
    BY <1>2 DEF Snapshots, Typed
  <2>1. CASE i = Len(stream) + 1
    BY <1>2, <2>1
  <2>2. CASE i \in 1 .. Len(stream)
    <3>1. Follows(stream, scope = "all", i)
      BY <1>1, <1>2, <2>2 DEF Snapshots, Typed
    <3> QED BY <1>1, <2>2, <3>1, FollowsStays
  <2> QED BY <1>2, <2>1, <2>2
<1> QED BY <1>2, <1>3

LEMMA Publishes ==
  ASSUME StoryInv, pc # "done", scope' = scope, NEW u, stream' = Append(stream, u),
         u.type # "DocumentFinished",
         u.type = "PageFinished" => Follows(Append(stream, u), scope = "all", Len(stream) + 1)
  PROVE  Summarized' /\ Snapshots' /\ IsSequence(stream')
<1>1. IsSequence(stream) /\ Typed(stream, "DocumentFinished") = {}
  BY NothingSummarized DEF StoryInv, StoryTypes
<1>2. /\ Len(stream) \in Nat
      /\ DOMAIN stream = 1 .. Len(stream) /\ DOMAIN stream' = 1 .. Len(stream) + 1
      /\ \A i \in 1 .. Len(stream) : stream'[i] = stream[i]
      /\ stream'[Len(stream) + 1] = u
  BY <1>1, AppendFacts, SequenceFacts
<1>3. Typed(stream', "DocumentFinished") = {}
  <2> SUFFICES ASSUME NEW i \in 1 .. Len(stream) + 1, stream'[i].type = "DocumentFinished"
               PROVE  FALSE
    BY <1>2 DEF Typed
  <2>1. CASE i = Len(stream) + 1
    BY <1>2, <2>1
  <2>2. CASE i \in 1 .. Len(stream)
    BY <1>1, <1>2, <2>2 DEF Typed
  <2> QED BY <1>2, <2>1, <2>2
<1> QED BY <1>3, SnapshotsGrow DEF Summarized

(* Whatever breaks the pages off leaves the story as it is.                  *)
LEMMA BreaksOff ==
  ASSUME StoryInv, pc \in Working, pc' = "summary", error' \in Codes, scope' = scope,
         stop' = stop, refused' = FALSE, at' \in 1 .. NumPages + 1, formula' \in Nat,
         Shaped(page'), counts' \in Counts, Adds(counts'),
         counts'.pages + counts'.pagesFailed <= NumPages, Below(Tally(stream'), counts'),
         stream' = stream \/ \E u : stream' = Append(stream, u) /\ u.type = "PageFailed"
  PROVE  StoryInv'
<1>1. pc # "done" /\ pc' \notin Working /\ Assembled \subseteq Working
  BY DEF Working, Assembled
<1>2. Summarized' /\ Snapshots' /\ IsSequence(stream')
  <2>1. CASE stream' = stream
    BY <1>1, <2>1, Unsaid
  <2>2. CASE \E u : stream' = Append(stream, u) /\ u.type = "PageFailed"
    <3> PICK u : stream' = Append(stream, u) /\ u.type = "PageFailed"
      BY <2>2
    <3> QED BY <1>1, Publishes
  <2> QED BY <2>1, <2>2
<1>3. error' # Nothing
  BY PartsAssumption DEF Codes
<1>4. StoryTypes'
  BY <1>2 DEF StoryInv, StoryTypes
<1>5. Assembly'
  BY <1>1 DEF Assembly
<1>6. Balanced'
  BY <1>1, <1>3 DEF Balanced, Through
<1>7. Tallied'
  BY <1>3 DEF Tallied
<1>8. Story'
  BY <1>1 DEF Story
<1> QED BY <1>2, <1>4, <1>5, <1>6, <1>7, <1>8 DEF StoryInv

(* An update that is right is published, or breaks the pages off.            *)
LEMMA EmitOutcome ==
  ASSUME StoryInv, NEW u, NEW then, Results!Valid(u), Results!Emit(u, then)
  PROVE  /\ refused' = FALSE
         /\ \/ stream' = Append(stream, u) /\ pc' = then /\ error' = error
            \/ stream' = stream /\ pc' = "summary" /\ error' \in Codes
<1>1. refused = FALSE /\ stop \in {Nothing, "cancelled", "sink"}
  BY DEF StoryInv, StoryTypes
<1>2. refused' = FALSE
  BY <1>1 DEF Results!Emit
<1>3. CASE Results!Stops(FALSE)
  BY <1>1, <1>2, <1>3 DEF Results!Emit, Results!Fail, Results!Stops, Codes
<1>4. CASE ~Results!Stops(FALSE)
  BY <1>2, <1>4 DEF Results!Emit
<1> QED BY <1>3, <1>4

(* What is known while a page is worked on.                                  *)
LEMMA AtWork ==
  ASSUME StoryInv, pc \in Working
  PROVE  /\ IsSequence(stream) /\ counts \in Counts /\ Tally(stream) \in Tallies
         /\ Below(Tally(stream), counts) /\ Tells(Tally(stream), counts, pc = "last")
         /\ Adds(counts) /\ error = Nothing /\ NumPages \in Nat
         /\ at \in 1 .. NumPages /\ counts.pending = Open
         /\ counts.pages + counts.pagesFailed = IF pc = "last" THEN at ELSE at - 1
         /\ Len(stream) \in Nat /\ Shaped(page) /\ formula \in Nat
<1>1. IsSequence(stream) /\ Tally(stream) \in Tallies /\ Len(stream) \in Nat
  BY TallyGrows, SequenceFacts DEF StoryInv, StoryTypes
<1>2. error = Nothing /\ at <= NumPages /\ NumPages \in Nat /\ at \in 1 .. NumPages
  BY PartsAssumption DEF StoryInv, StoryTypes, Assembly
<1>3. counts \in Counts /\ Shaped(page) /\ formula \in Nat
  BY DEF StoryInv, StoryTypes
<1>4. Adds(counts) /\ counts.pending = Open
      /\ counts.pages + counts.pagesFailed = IF pc = "last" THEN at ELSE at - 1
  BY <1>2 DEF StoryInv, Balanced, Through
<1>5. Below(Tally(stream), counts) /\ Tells(Tally(stream), counts, pc = "last")
  BY <1>2 DEF StoryInv, Tallied
<1> QED BY <1>1, <1>2, <1>3, <1>4, <1>5

(* A notice about a page that failed, and the story before and after it.     *)
LEMMA NoticeCounts ==
  ASSUME StoryInv, pc = "page", counts' = [counts EXCEPT !.pagesFailed = @ + 1],
         NEW u, u.type = "PageFailed"
  PROVE  /\ counts' \in Counts /\ Adds(counts')
         /\ counts'.pages + counts'.pagesFailed = at /\ counts'.pending = 0
         /\ Below(Tally(stream), counts')
         /\ Below(Tally(Append(stream, u)), counts')
         /\ Tells(Tally(Append(stream, u)), counts', FALSE)
<1>1. pc \in Working
  BY DEF Working
<1>2. /\ counts \in Counts /\ Tally(stream) \in Tallies /\ Adds(counts)
      /\ counts.pages + counts.pagesFailed = at - 1 /\ at \in Nat
      /\ Below(Tally(stream), counts) /\ Tells(Tally(stream), counts, FALSE)
      /\ IsSequence(stream) /\ counts.pending = 0
  <2>1. Open = 0
    BY DEF Open, Assembled
  <2>2. (pc = "last") = FALSE
    OBVIOUS
  <2>3. at \in 1 .. NumPages /\ NumPages \in Nat
    BY <1>1, AtWork
  <2>4. at \in Nat
    BY <2>3
  <2>5. /\ counts \in Counts /\ Tally(stream) \in Tallies /\ Adds(counts) /\ IsSequence(stream)
        /\ Below(Tally(stream), counts) /\ counts.pending = Open
    BY <1>1, AtWork
  <2>6. Tells(Tally(stream), counts, pc = "last")
        /\ counts.pages + counts.pagesFailed = (IF pc = "last" THEN at ELSE at - 1)
    BY <1>1, AtWork
  <2>7. Tells(Tally(stream), counts, FALSE)
    BY <2>2, <2>6
  <2> QED BY <2>1, <2>2, <2>4, <2>5, <2>6, <2>7
<1>3. counts' \in Counts /\ Adds(counts') /\ counts'.pending = 0
  BY <1>2 DEF Counts, Adds
<1>4. counts'.pages + counts'.pagesFailed = at
  BY <1>2 DEF Counts
<1>5. Tally(Append(stream, u)) = [Tally(stream) EXCEPT !.pagesFailed = @ + 1]
  BY <1>2, TallyGrows
<1>6. Below(Tally(stream), counts')
  BY <1>2 DEF Below, Counts, Tallies
<1>7. Below(Tally(Append(stream, u)), counts')
  BY <1>2, <1>5 DEF Below, Counts, Tallies
<1>8. Tells(Tally(Append(stream, u)), counts', FALSE)
  BY <1>2, <1>5 DEF Tells, Counts, Tallies
<1> QED BY <1>3, <1>4, <1>6, <1>7, <1>8

LEMMA PageFailsKeeps ==
  ASSUME StoryInv, Results!PageFails, scope' = scope
  PROVE  StoryInv'
<1> DEFINE u == [type |-> "PageFailed", at |-> at]
<1>1. /\ pc = "page" /\ pc \in Working /\ u.type = "PageFailed" /\ u.at = at
      /\ counts' = [counts EXCEPT !.pagesFailed = @ + 1] /\ at' = at + 1
      /\ UNCHANGED <<page, formula, stop>> /\ Results!Emit(u, Results!NextAt)
  BY DEF Results!PageFails, Working
<1>2. Results!Valid(u)
  BY DEF Results!Valid
<1> HIDE DEF u
<1>3. /\ refused' = FALSE
      /\ \/ stream' = Append(stream, u) /\ pc' = Results!NextAt /\ error' = error
         \/ stream' = stream /\ pc' = "summary" /\ error' \in Codes
  BY <1>1, <1>2, EmitOutcome
<1>4. /\ counts' \in Counts /\ Adds(counts')
      /\ counts'.pages + counts'.pagesFailed = at /\ counts'.pending = 0
      /\ Below(Tally(stream), counts') /\ Below(Tally(Append(stream, u)), counts')
      /\ Tells(Tally(Append(stream, u)), counts', FALSE)
  BY <1>1, NoticeCounts
<1>5. /\ at \in 1 .. NumPages /\ NumPages \in Nat /\ Shaped(page) /\ formula \in Nat
      /\ error = Nothing /\ IsSequence(stream) /\ Len(stream) \in Nat
  BY <1>1, AtWork
<1>6. at' \in 1 .. NumPages + 1 /\ at <= NumPages /\ at \in Nat
  BY <1>1, <1>5
<1>7. CASE stream' = stream /\ pc' = "summary" /\ error' \in Codes
  BY <1>1, <1>3, <1>4, <1>5, <1>6, <1>7, BreaksOff
<1>8. CASE stream' = Append(stream, u) /\ pc' = Results!NextAt /\ error' = error
  <2>1. Summarized' /\ Snapshots' /\ IsSequence(stream')
    BY <1>1, <1>8, Publishes
  <2>2. pc' = (IF at < NumPages THEN "page" ELSE "summary")
    BY <1>8 DEF Results!NextAt
  <2>3. StoryTypes'
    BY <1>1, <1>3, <1>4, <1>5, <1>6, <1>8, <2>1, <2>2 DEF StoryInv, StoryTypes, Working
  <2>4. Assembly'
    BY <1>1, <1>5, <1>6, <1>8, <2>2 DEF Assembly, Working, Assembled
  <2>5. Balanced'
    BY <1>1, <1>4, <1>5, <1>6, <1>8, <2>2 DEF Balanced, Through, Open, Working, Assembled
  <2>6. Tallied'
    BY <1>4, <1>8, <2>2 DEF Tallied
  <2>7. Story'
    <3>1. ~Telling' /\ ~Telling
      BY <1>1, <2>2 DEF Telling
    <3>2. \A j \in 1 .. Len(stream) : stream[j].at \in Nat /\ stream[j].at < at
      BY <1>1, <3>1 DEF StoryInv, Story
    <3>3. \A j \in 1 .. Len(stream') : stream'[j].at \in Nat /\ stream'[j].at < at'
      <4> SUFFICES ASSUME NEW j \in 1 .. Len(stream')
                   PROVE  stream'[j].at \in Nat /\ stream'[j].at < at'
        OBVIOUS
      <4>1. /\ Len(stream') = Len(stream) + 1 /\ stream'[Len(stream) + 1] = u
            /\ \A i \in 1 .. Len(stream) : stream'[i] = stream[i]
        BY <1>5, <1>8, AppendFacts
      <4>2. CASE j = Len(stream) + 1
        BY <1>1, <1>6, <4>1, <4>2
      <4>3. CASE j \in 1 .. Len(stream)
        <5>1. stream'[j].at \in Nat /\ stream'[j].at < at
          BY <3>2, <4>1, <4>3
        <5> QED BY <1>1, <1>6, <5>1
      <4> QED BY <1>5, <4>1, <4>2, <4>3
    <3>4. at' \in Nat /\ \A j \in 1 .. Len(stream') : stream'[j].at <= at'
      BY <1>1, <1>6, <3>3
    <3> QED BY <3>1, <3>3, <3>4 DEF Story
  <2> QED BY <2>1, <2>3, <2>4, <2>5, <2>6, <2>7 DEF StoryInv
<1> QED BY <1>3, <1>7, <1>8

LEMMA PageBreaksKeeps ==
  ASSUME StoryInv, Results!PageBreaks, scope' = scope
  PROVE  StoryInv'
<1> DEFINE u == [type |-> "PageFailed", at |-> at]
<1>1. /\ pc = "page" /\ pc \in Working /\ u.type = "PageFailed"
      /\ counts' = [counts EXCEPT !.pagesFailed = @ + 1]
      /\ UNCHANGED <<at, page, formula, stop, refused>> /\ pc' = "summary" /\ error' \in Codes
      /\ stream' = stream \/ stream' = Append(stream, u)
  BY DEF Results!PageBreaks, Working, Codes
<1> HIDE DEF u
<1>2. /\ counts' \in Counts /\ Adds(counts')
      /\ counts'.pages + counts'.pagesFailed = at
      /\ Below(Tally(stream), counts') /\ Below(Tally(Append(stream, u)), counts')
  BY <1>1, NoticeCounts
<1>3. /\ at \in 1 .. NumPages /\ NumPages \in Nat /\ Shaped(page) /\ formula \in Nat
      /\ refused = FALSE
  BY <1>1, AtWork DEF StoryInv, StoryTypes
<1>4. at' \in 1 .. NumPages + 1 /\ at <= NumPages
  BY <1>1, <1>3
<1>5. Below(Tally(stream'), counts')
      /\ (stream' = stream \/ \E v : stream' = Append(stream, v) /\ v.type = "PageFailed")
  BY <1>1, <1>2
<1>6. Shaped(page') /\ formula' \in Nat /\ refused' = FALSE /\ stop' = stop
      /\ counts'.pages + counts'.pagesFailed <= NumPages
  BY <1>1, <1>2, <1>3, <1>4
<1> QED BY <1>1, <1>2, <1>4, <1>5, <1>6, BreaksOff

LEMMA PagesEndKeeps ==
  ASSUME StoryInv, Results!PagesEnd, scope' = scope
  PROVE  StoryInv'
<1>1. /\ pc \in Working /\ pc # "last" /\ pc' = "summary" /\ stream' = stream
      /\ UNCHANGED <<at, page, formula, counts, stop, refused>>
      /\ error' \in {"backend", stop} \ {Nothing}
  BY DEF Results!PagesEnd, Results!Fail, Working
<1>2. stop \in {Nothing, "cancelled", "sink"} /\ refused = FALSE /\ at \in 1 .. NumPages + 1
      /\ Shaped(page) /\ formula \in Nat /\ counts \in Counts
  BY DEF StoryInv, StoryTypes
<1>3. error' \in Codes
  BY <1>1, <1>2 DEF Codes
<1>4. Adds(counts) /\ counts.pages + counts.pagesFailed <= NumPages /\ Below(Tally(stream), counts)
  BY DEF StoryInv, Balanced, Tallied, Through
<1> QED BY <1>1, <1>2, <1>3, <1>4, BreaksOff

LEMMA SameInitial ==
  ASSUME scope' = scope
  PROVE  Results!Initial' = Results!Initial /\ Results!Outcomes' = Results!Outcomes
  BY DEF Results!Initial, Results!Outcomes

LEMMA NumbersGrow ==
  ASSUME NEW s, IsSequence(s), NEW u, NEW a \in Nat, u.at = a,
         \A j \in 1 .. Len(s) : s[j].at \in Nat /\ s[j].at <= a
  PROVE  \A j \in 1 .. Len(Append(s, u)) : Append(s, u)[j].at \in Nat /\ Append(s, u)[j].at <= a
<1> DEFINE t == Append(s, u)
<1>1. /\ Len(s) \in Nat /\ Len(t) = Len(s) + 1 /\ t[Len(s) + 1] = u
      /\ \A j \in 1 .. Len(s) : t[j] = s[j]
  BY SequenceFacts, AppendFacts
<1> HIDE DEF t
<1>2. \A j \in 1 .. Len(t) : t[j].at \in Nat /\ t[j].at <= a
  <2> SUFFICES ASSUME NEW j \in 1 .. Len(t) PROVE t[j].at \in Nat /\ t[j].at <= a
    OBVIOUS
  <2>1. CASE j = Len(s) + 1
    BY <1>1, <2>1
  <2>2. CASE j \in 1 .. Len(s)
    BY <1>1, <2>2
  <2> QED BY <1>1, <2>1, <2>2
<1> QED BY <1>2 DEF t

(* A page as the pipeline answers it, its formulas at their start.           *)
Fresh(raw) == [raw EXCEPT !.formulas =
                 [i \in DOMAIN @ |-> [id |-> @[i], state |-> Results!Initial]]]

LEMMA FreshShape ==
  ASSUME NEW raw \in Raw
  PROVE  /\ Shaped(Fresh(raw)) /\ Len(Fresh(raw).formulas) \in Nat
         /\ \A f \in FormulasOf(Fresh(raw)) : Fresh(raw).formulas[f].state = Results!Initial
<1> DEFINE n == Len(raw.formulas)
           entries == [i \in 1 .. n |-> [id |-> raw.formulas[i], state |-> Results!Initial]]
<1>1. /\ raw = [regions |-> raw.regions, formulas |-> raw.formulas, order |-> raw.order]
      /\ raw.formulas \in Seq({raw.formulas[i] : i \in DOMAIN raw.formulas})
  BY PartsAssumption
<1>2. n \in Nat /\ DOMAIN raw.formulas = 1 .. n
  BY <1>1
<1>3. Fresh(raw) = [regions |-> raw.regions, formulas |-> entries, order |-> raw.order]
  <2>1. entries = [i \in DOMAIN raw.formulas |->
                     [id |-> raw.formulas[i], state |-> Results!Initial]]
    BY <1>2
  <2> HIDE DEF entries
  <2> QED BY <1>1, <2>1 DEF Fresh
<1>4. DOMAIN entries = 1 .. n
      /\ \A i \in 1 .. n : entries[i] = [id |-> raw.formulas[i], state |-> Results!Initial]
  OBVIOUS
<1>5. IsSequence(entries) /\ Len(entries) = n
  <2>1. \A i \in 1 .. n : [id |-> raw.formulas[i], state |-> Results!Initial] \in Items(entries)
    BY <1>4 DEF Items
  <2>2. entries \in Seq(Items(entries)) /\ Len(entries) = n
    BY <1>2, <2>1
  <2> QED BY <2>2 DEF IsSequence
<1> HIDE DEF entries, n
<1>6. \A f \in 1 .. n : /\ entries[f] = [id |-> entries[f].id, state |-> entries[f].state]
                        /\ entries[f].state = Results!Initial
  BY <1>4
<1> QED BY <1>2, <1>3, <1>5, <1>6 DEF Shaped, FormulasOf

(* The counts field by field.                                                *)
LEMMA CountFields ==
  ASSUME NEW c \in Counts
  PROVE  /\ c = [pages |-> c.pages, pagesFailed |-> c.pagesFailed, detected |-> c.detected,
                 recognized |-> c.recognized, failed |-> c.failed, truncated |-> c.truncated,
                 pending |-> c.pending, notRequested |-> c.notRequested]
         /\ c.pages \in Nat /\ c.pagesFailed \in Nat /\ c.detected \in Nat
         /\ c.recognized \in Nat /\ c.failed \in Nat /\ c.truncated \in Nat
         /\ c.pending \in Nat /\ c.notRequested \in Nat
  BY DEF Counts

LEMMA DetectedCounts ==
  ASSUME NEW c \in Counts, NEW n \in Nat, Adds(c), scope \in {"all", "none"}, c.pending = 0,
         NEW d, d = Results!Detected(c, n)
  PROVE  /\ d \in Counts /\ Adds(d) /\ d.pending = (IF scope = "all" THEN n ELSE 0)
         /\ d.pages = c.pages /\ d.pagesFailed = c.pagesFailed
         /\ d.recognized = c.recognized /\ d.failed = c.failed /\ d.truncated = c.truncated
<1> DEFINE all == IF scope = "all" THEN n ELSE 0
           none == IF scope = "all" THEN 0 ELSE n
<1>1. d = [pages |-> c.pages, pagesFailed |-> c.pagesFailed, detected |-> c.detected + n,
           recognized |-> c.recognized, failed |-> c.failed, truncated |-> c.truncated,
           pending |-> c.pending + all, notRequested |-> c.notRequested + none]
  <2>1. CASE scope = "all"
    <3>1. d = [c EXCEPT !.detected = @ + n, !.pending = @ + n] /\ all = n /\ none = 0
      BY <2>1 DEF Results!Detected
    <3>2. c = [pages |-> c.pages, pagesFailed |-> c.pagesFailed, detected |-> c.detected,
               recognized |-> c.recognized, failed |-> c.failed, truncated |-> c.truncated,
               pending |-> c.pending, notRequested |-> c.notRequested]
      BY CountFields
    <3>3. d = [pages |-> c.pages, pagesFailed |-> c.pagesFailed, detected |-> c.detected + n,
               recognized |-> c.recognized, failed |-> c.failed, truncated |-> c.truncated,
               pending |-> c.pending + n, notRequested |-> c.notRequested]
      BY <3>1, <3>2
    <3>4. c.pending + all = c.pending + n /\ c.notRequested + none = c.notRequested
      BY <3>1, CountFields
    <3> HIDE DEF all, none
    <3> QED BY <3>3, <3>4
  <2>2. CASE scope # "all"
    <3>1. d = [c EXCEPT !.detected = @ + n, !.notRequested = @ + n] /\ all = 0 /\ none = n
      BY <2>2 DEF Results!Detected
    <3>2. c = [pages |-> c.pages, pagesFailed |-> c.pagesFailed, detected |-> c.detected,
               recognized |-> c.recognized, failed |-> c.failed, truncated |-> c.truncated,
               pending |-> c.pending, notRequested |-> c.notRequested]
      BY CountFields
    <3>3. d = [pages |-> c.pages, pagesFailed |-> c.pagesFailed, detected |-> c.detected + n,
               recognized |-> c.recognized, failed |-> c.failed, truncated |-> c.truncated,
               pending |-> c.pending, notRequested |-> c.notRequested + n]
      BY <3>1, <3>2
    <3>4. c.pending + all = c.pending /\ c.notRequested + none = c.notRequested + n
      BY <3>1, CountFields
    <3> HIDE DEF all, none
    <3> QED BY <3>3, <3>4
  <2> QED BY <2>1, <2>2
<1>2. all \in Nat /\ none \in Nat /\ all + none = n
  OBVIOUS
<1> HIDE DEF all, none
<1>3. d \in Counts
  BY <1>1, <1>2, CountFields DEF Counts
<1>4. /\ d.detected = c.detected + n /\ d.pending = all /\ d.notRequested = c.notRequested + none
      /\ d.pages = c.pages /\ d.pagesFailed = c.pagesFailed
      /\ d.recognized = c.recognized /\ d.failed = c.failed /\ d.truncated = c.truncated
  BY <1>1, <1>2
<1>5. Adds(d)
  <2>1. c.recognized + c.failed + c.truncated + 0 + c.notRequested = c.detected
    BY DEF Adds
  <2>2. /\ c.detected \in Nat /\ c.recognized \in Nat /\ c.failed \in Nat
        /\ c.truncated \in Nat /\ c.notRequested \in Nat
    BY CountFields
  <2> QED BY <1>2, <1>4, <2>1, <2>2 DEF Adds
<1> QED BY <1>3, <1>4, <1>5 DEF all

LEMMA LayoutReturnsKeeps ==
  ASSUME StoryInv, NEW raw \in Raw, Results!LayoutReturns(raw), scope' = scope
  PROVE  StoryInv'
<1> DEFINE fresh == Fresh(raw)
<1>1. /\ pc = "page" /\ pc \in Working /\ at' = at /\ stop' = stop /\ refused' = refused
      /\ IF PageFits(scope = "all", fresh, FALSE)
         THEN /\ page' = fresh /\ counts' = Results!Detected(counts, Len(fresh.formulas))
              /\ pc' = (IF scope = "all" THEN "ready" ELSE "finish") /\ formula' = 1
              /\ stream' = stream /\ error' = error
         ELSE /\ error' = "invalid" /\ pc' = "summary" /\ stream' = stream
              /\ page' = page /\ counts' = counts /\ formula' = formula
  <2>1. Results!ValidPage(fresh, FALSE) <=> PageFits(scope = "all", fresh, FALSE)
    BY ValidFits DEF StoryInv, StoryTypes
  <2> QED BY <2>1 DEF Results!LayoutReturns, Results!Fail, Working, Fresh
<1>2. /\ Shaped(fresh) /\ Len(fresh.formulas) \in Nat
      /\ \A f \in FormulasOf(fresh) : fresh.formulas[f].state = Results!Initial
  BY FreshShape
<1> HIDE DEF fresh
<1>3. /\ IsSequence(stream) /\ counts \in Counts /\ Tally(stream) \in Tallies
      /\ Below(Tally(stream), counts) /\ Tells(Tally(stream), counts, pc = "last")
      /\ Adds(counts) /\ error = Nothing /\ NumPages \in Nat /\ at \in 1 .. NumPages
      /\ counts.pages + counts.pagesFailed = (IF pc = "last" THEN at ELSE at - 1)
      /\ counts.pending = Open /\ Shaped(page) /\ formula \in Nat
  BY <1>1, AtWork
<1>4. refused = FALSE /\ scope \in {"all", "none"} /\ stop \in {Nothing, "cancelled", "sink"}
  BY DEF StoryInv, StoryTypes
<1>5. at \in 1 .. NumPages + 1 /\ at <= NumPages /\ at \in Nat
      /\ counts.pages + counts.pagesFailed = at - 1 /\ Tells(Tally(stream), counts, FALSE)
  <2>1. (pc = "last") = FALSE
    BY <1>1
  <2>2. Tells(Tally(stream), counts, FALSE)
        /\ counts.pages + counts.pagesFailed = at - 1
    BY <1>3, <2>1
  <2>3. at \in 1 .. NumPages /\ NumPages \in Nat
    BY <1>3
  <2>4. at \in 1 .. NumPages + 1 /\ at <= NumPages /\ at \in Nat
    BY <2>3
  <2> QED BY <2>2, <2>4
<1>6. counts.pending = 0
  BY <1>1, <1>3 DEF Open, Assembled
<1>7. CASE ~PageFits(scope = "all", fresh, FALSE)
  <2>1. /\ error' \in Codes /\ pc' = "summary" /\ stream' = stream
        /\ page' = page /\ counts' = counts /\ formula' = formula
    BY <1>1, <1>7 DEF Codes
  <2>2. counts.pages + counts.pagesFailed <= NumPages
    <3>1. at - 1 <= NumPages
      BY <1>3, <1>5
    <3> QED BY <1>5, <3>1
  <2> QED BY <1>1, <1>3, <1>4, <1>5, <2>1, <2>2, BreaksOff
<1>8. CASE PageFits(scope = "all", fresh, FALSE)
  <2> DEFINE n == Len(fresh.formulas)
  <2>1. /\ page' = fresh /\ counts' = Results!Detected(counts, n)
        /\ pc' = (IF scope = "all" THEN "ready" ELSE "finish") /\ formula' = 1
        /\ stream' = stream /\ error' = Nothing /\ refused' = FALSE
    BY <1>1, <1>3, <1>4, <1>8
  <2>2. Summarized' /\ Snapshots' /\ IsSequence(stream')
    BY <1>1, <2>1, Unsaid
  <2> HIDE DEF n
  <2>3. n \in Nat
    BY <1>2 DEF n
  <2>4. /\ counts' \in Counts /\ Adds(counts')
        /\ counts'.pages = counts.pages /\ counts'.pagesFailed = counts.pagesFailed
        /\ counts'.recognized = counts.recognized /\ counts'.failed = counts.failed
        /\ counts'.truncated = counts.truncated
        /\ counts'.pending = (IF scope = "all" THEN n ELSE 0)
    BY <1>3, <1>4, <1>6, <2>1, <2>3, DetectedCounts
  <2>5. pc' \in {"ready", "finish"} /\ (pc' = "ready" <=> scope = "all")
    BY <2>1
  <2>6. StoryTypes'
    BY <1>1, <1>2, <1>4, <1>5, <2>1, <2>2, <2>4, <2>5 DEF StoryTypes, Working
  <2>7. PageFits(scope' = "all", page', FALSE)
    BY <1>8, <2>1
  <2>8. \A f \in FormulasOf(page') : page'.formulas[f].state = Results!Initial'
    BY <1>2, <2>1, SameInitial
  <2>9. Assembly'
    <3>1. 1 \in 1 .. n + 1 /\ \A f \in 1 .. n : ~(f < 1)
      BY <2>3
    <3>2. FormulasOf(page') = 1 .. n /\ Len(page'.formulas) = n
      BY <2>1 DEF FormulasOf, n
    <3> QED BY <1>1, <1>5, <2>1, <2>5, <2>7, <2>8, <3>1, <3>2 DEF Assembly, Working, Assembled
  <2>10. Balanced'
    <3>1. Open' = (IF scope = "all" THEN n ELSE 0)
      BY <2>1, <2>3, <2>5 DEF Open, Assembled, n
    <3>2. (counts.pages + counts.pagesFailed)' = at - 1
      BY <1>5, <2>4
    <3>3. at - 1 <= NumPages
      BY <1>3, <1>5
    <3> QED BY <1>1, <2>1, <2>4, <2>5, <3>1, <3>2, <3>3 DEF Balanced, Through, Working
  <2>11. Tallied'
    BY <1>3, <1>5, <2>1, <2>4, <2>5 DEF Tallied, Below, Tells
  <2>12. Story'
    <3>1. ~Telling /\ ~Telling'
      BY <1>1, <2>1, <2>5 DEF Telling
    <3> QED BY <1>1, <2>1, <2>5, <3>1 DEF StoryInv, Story
  <2> QED BY <2>2, <2>6, <2>9, <2>10, <2>11, <2>12 DEF StoryInv
<1> QED BY <1>7, <1>8

(* A page whose formulas are all at their start may be announced.            *)
LEMMA NoticeValid ==
  ASSUME StoryInv, pc \in {"ready", "finish"}, pc = "finish" => scope = "none",
         NEW u, u = [type |-> "PageLayoutReady", at |-> at, page |-> page]
  PROVE  Results!Valid(u)
<1>1. pc \in Assembled /\ scope \in {"all", "none"} /\ pc \in Working
  BY DEF Assembled, Working, StoryInv, StoryTypes
<1>2. Results!ValidPage(page, FALSE)
  BY <1>1, ValidFits DEF StoryInv, Assembly
<1>3. IsSequence(page.formulas) /\ DOMAIN page.formulas = FormulasOf(page)
      /\ Len(page.formulas) \in Nat
  <2>1. IsSequence(page.formulas)
    BY DEF StoryInv, StoryTypes, Shaped
  <2> QED BY <2>1, SequenceFacts DEF FormulasOf
<1>4. \A f \in FormulasOf(page) : page.formulas[f].state = Results!Initial
  <2>1. CASE pc = "ready"
    <3>1. formula = 1 /\ scope = "all"
      BY <2>1 DEF StoryInv, Assembly
    <3>2. \A f \in FormulasOf(page) : ~(f < formula)
      BY <1>3, <3>1 DEF FormulasOf
    <3> QED BY <1>1, <3>1, <3>2 DEF StoryInv, Assembly
  <2>2. CASE pc = "finish"
    BY <1>1, <2>2 DEF StoryInv, Assembly
  <2> QED BY <2>1, <2>2
<1>5. Results!Initial \in Results!Waiting
  BY <1>1 DEF Results!Initial, Results!Waiting
<1>6. \A f \in Results!ToSet(page.formulas) : f.state \in Results!Waiting
  BY <1>3, <1>4, <1>5 DEF Results!ToSet
<1>7. u.type = "PageLayoutReady" /\ u.page = page
  OBVIOUS
<1> QED BY <1>2, <1>6, <1>7 DEF Results!Valid

LEMMA LayoutReadyKeeps ==
  ASSUME StoryInv, Results!LayoutReady, scope' = scope
  PROVE  StoryInv'
<1> DEFINE u == [type |-> "PageLayoutReady", at |-> at, page |-> page]
           n == Len(page.formulas)
<1>1. /\ pc = "ready" /\ pc \in Working /\ pc \in Assembled
      /\ UNCHANGED <<at, page, formula, counts, stop>>
      /\ Results!Emit(u, Results!AfterFormula(1))
      /\ u.type = "PageLayoutReady" /\ u.at = at /\ u.page = page
  BY DEF Results!LayoutReady, Working, Assembled
<1>2. Results!Valid(u)
  BY <1>1, NoticeValid
<1> HIDE DEF u
<1>3. /\ refused' = FALSE
      /\ \/ stream' = Append(stream, u) /\ pc' = Results!AfterFormula(1) /\ error' = error
         \/ stream' = stream /\ pc' = "summary" /\ error' \in Codes
  BY <1>1, <1>2, EmitOutcome
<1>4. /\ IsSequence(stream) /\ counts \in Counts /\ Tally(stream) \in Tallies
      /\ Below(Tally(stream), counts) /\ Tells(Tally(stream), counts, FALSE)
      /\ Adds(counts) /\ error = Nothing /\ Shaped(page) /\ Len(stream) \in Nat
      /\ counts.pages + counts.pagesFailed = at - 1 /\ counts.pending = Open
  <2>1. (pc = "last") = FALSE
    BY <1>1
  <2> QED BY <1>1, <2>1, AtWork
<1>5. at \in Nat /\ at \in 1 .. NumPages + 1 /\ at <= NumPages /\ at - 1 <= NumPages
  <2>1. at \in 1 .. NumPages /\ NumPages \in Nat
    BY <1>1, AtWork
  <2> QED BY <2>1
<1>6. /\ scope = "all" /\ formula = 1 /\ PageFits(scope = "all", page, FALSE)
      /\ \A f \in FormulasOf(page) : page.formulas[f].state = Results!Initial
  <2>1. scope = "all" /\ formula = 1 /\ PageFits(scope = "all", page, FALSE)
    BY <1>1 DEF StoryInv, Assembly
  <2>2. \A f \in FormulasOf(page) : ~(f < formula)
    <3>1. Len(page.formulas) \in Nat
      BY <1>4, SequenceFacts DEF Shaped
    <3> QED BY <2>1, <3>1 DEF FormulasOf
  <2> QED BY <1>1, <2>1, <2>2 DEF StoryInv, Assembly
<1>7. n \in Nat
  BY <1>4, SequenceFacts DEF Shaped
<1> HIDE DEF n
<1>8. CASE stream' = stream /\ pc' = "summary" /\ error' \in Codes
  <2>1. counts'.pages + counts'.pagesFailed <= NumPages
    BY <1>1, <1>4, <1>5
  <2>2. /\ at' \in 1 .. NumPages + 1 /\ formula' \in Nat /\ Shaped(page') /\ counts' \in Counts
        /\ Adds(counts') /\ Below(Tally(stream'), counts') /\ stop' = stop
    BY <1>1, <1>4, <1>5, <1>6, <1>8
  <2> QED BY <1>1, <1>3, <1>8, <2>1, <2>2, BreaksOff
<1>9. CASE stream' = Append(stream, u) /\ pc' = Results!AfterFormula(1) /\ error' = error
  <2>1. Summarized' /\ Snapshots' /\ IsSequence(stream')
    BY <1>1, <1>9, Publishes
  <2>2. pc' = (IF 1 > n THEN "finish" ELSE "recognize")
    BY <1>9 DEF Results!AfterFormula, n
  <2>3. pc' \in {"finish", "recognize"}
    BY <2>2
  <2>4. StoryTypes'
    BY <1>1, <1>3, <1>4, <1>5, <1>6, <1>9, <2>1, <2>3 DEF StoryInv, StoryTypes, Working
  <2>5. Assembly'
    <3>1. /\ 1 \in 1 .. n + 1 /\ FormulasOf(page) = 1 .. n /\ \A f \in 1 .. n : ~(f < 1)
          /\ pc' = "recognize" => 1 <= n
          /\ pc' = "finish" => 1 = n + 1
      BY <1>7, <2>2 DEF FormulasOf, n
    <3>2. \A f \in FormulasOf(page') : page'.formulas[f].state = Results!Initial'
      BY <1>1, <1>6, SameInitial
    <3> QED BY <1>1, <1>4, <1>5, <1>6, <1>9, <2>3, <3>1, <3>2 DEF Assembly, Working, Assembled, n
  <2>6. Balanced'
    <3>1. Open' = Open
      BY <1>1, <1>6, <2>3 DEF Open, Assembled
    <3> QED BY <1>1, <1>4, <1>5, <1>9, <2>3, <3>1 DEF Balanced, Through, Working
  <2>7. Tallied'
    <3>1. Tally(stream') = Tally(stream)
      BY <1>1, <1>4, <1>9, TallyGrows
    <3> QED BY <1>1, <1>4, <2>3, <3>1 DEF Tallied
  <2>8. Story'
    <3>1. ~Telling /\ Telling' /\ ToldSoFar' = 0
      BY <1>1, <1>6, <2>3 DEF Telling, ToldSoFar
    <3>2. \A j \in 1 .. Len(stream) : stream[j].at \in Nat /\ stream[j].at < at
      BY <1>1, <3>1 DEF StoryInv, Story
    <3>3. Begun(stream', page, 0, at)
      BY <1>1, <1>4, <1>5, <1>9, <3>2, Begins
    <3>4. \A j \in 1 .. Len(stream) : stream[j].at \in Nat /\ stream[j].at <= at
      BY <1>5, <3>2
    <3>5. \A j \in 1 .. Len(stream') : stream'[j].at \in Nat /\ stream'[j].at <= at
      BY <1>1, <1>4, <1>5, <1>9, <3>4, NumbersGrow
    <3> QED BY <1>1, <3>1, <3>3, <3>5 DEF Story
  <2> QED BY <2>1, <2>4, <2>5, <2>6, <2>7, <2>8 DEF StoryInv
<1> QED BY <1>3, <1>8, <1>9

LEMMA ReplaceFacts ==
  ASSUME NEW s, IsSequence(s), NEW k \in 1 .. Len(s), NEW x
  PROVE  /\ IsSequence([s EXCEPT ![k] = x]) /\ Len([s EXCEPT ![k] = x]) = Len(s)
         /\ [s EXCEPT ![k] = x][k] = x
         /\ \A i \in 1 .. Len(s) : i # k => [s EXCEPT ![k] = x][i] = s[i]
<1> DEFINE both == Items(s) \cup {x}
           t == [s EXCEPT ![k] = x]
<1>1. s \in Seq(both) /\ x \in both
  BY DEF IsSequence
<1>2. t \in Seq(both) /\ Len(t) = Len(s) /\ t[k] = x /\ \A i \in 1 .. Len(s) : i # k => t[i] = s[i]
  BY <1>1
<1> HIDE DEF t
<1>3. IsSequence(t)
  BY <1>2, OwnItems
<1> QED BY <1>2, <1>3 DEF t

(* A page with the outcome of one of its formulas.                           *)
Filled(p, k, o) == [p EXCEPT !.formulas[k].state = o]

LEMMA FilledShape ==
  ASSUME NEW p, Shaped(p), NEW k \in FormulasOf(p), NEW o
  PROVE  /\ Shaped(Filled(p, k, o)) /\ FormulasOf(Filled(p, k, o)) = FormulasOf(p)
         /\ Len(Filled(p, k, o).formulas) = Len(p.formulas)
         /\ Filled(p, k, o).regions = p.regions /\ Filled(p, k, o).order = p.order
         /\ Filled(p, k, o).formulas[k] = [id |-> p.formulas[k].id, state |-> o]
         /\ \A f \in FormulasOf(p) :
              f # k => Filled(p, k, o).formulas[f] = p.formulas[f]
<1> DEFINE x == [id |-> p.formulas[k].id, state |-> o]
           list == [p.formulas EXCEPT ![k] = x]
           q == Filled(p, k, o)
<1>1. /\ p = [regions |-> p.regions, formulas |-> p.formulas, order |-> p.order]
      /\ IsSequence(p.formulas) /\ k \in 1 .. Len(p.formulas)
      /\ \A f \in 1 .. Len(p.formulas) :
           p.formulas[f] = [id |-> p.formulas[f].id, state |-> p.formulas[f].state]
  BY DEF Shaped, FormulasOf
<1>2. q = [regions |-> p.regions, formulas |-> list, order |-> p.order]
  <2>1. [p.formulas[k] EXCEPT !.state = o] = x
    <3>1. p.formulas[k] = [id |-> p.formulas[k].id, state |-> p.formulas[k].state]
      BY <1>1
    <3> QED BY <3>1
  <2>2. q = [p EXCEPT !.formulas = [p.formulas EXCEPT ![k] = [p.formulas[k] EXCEPT !.state = o]]]
    BY DEF Filled
  <2>3. q = [p EXCEPT !.formulas = list]
    BY <2>1, <2>2
  <2> HIDE DEF list, q
  <2> QED BY <1>1, <2>3
<1>3. /\ IsSequence(list) /\ Len(list) = Len(p.formulas) /\ list[k] = x
      /\ \A f \in 1 .. Len(p.formulas) : f # k => list[f] = p.formulas[f]
  BY <1>1, ReplaceFacts
<1>4. x = [id |-> x.id, state |-> x.state]
  OBVIOUS
<1> HIDE DEF list, q, x
<1>5. \A f \in 1 .. Len(p.formulas) : list[f] = [id |-> list[f].id, state |-> list[f].state]
  <2> SUFFICES ASSUME NEW f \in 1 .. Len(p.formulas)
               PROVE  list[f] = [id |-> list[f].id, state |-> list[f].state]
    OBVIOUS
  <2>1. CASE f = k
    BY <1>3, <1>4, <2>1
  <2>2. CASE f # k
    BY <1>1, <1>3, <2>2
  <2> QED BY <2>1, <2>2
<1>6. q.formulas = list /\ q.regions = p.regions /\ q.order = p.order
  BY <1>2
<1>7. Shaped(q) /\ FormulasOf(q) = FormulasOf(p)
  BY <1>2, <1>3, <1>5, <1>6 DEF Shaped, FormulasOf
<1> QED BY <1>3, <1>6, <1>7 DEF FormulasOf, q, x

(* A formula that ended moves from the pending ones to those that ended so,  *)
(* in the counts as in the tally of the stream.                              *)
LEMMA CountedOutcome ==
  ASSUME NEW c \in Counts, Adds(c), c.pending > 0, NEW o \in Results!Outcomes,
         NEW d, d = Results!Count(c, o)
  PROVE  /\ d \in Counts /\ Adds(d) /\ d.pending = c.pending - 1
         /\ d.pages = c.pages /\ d.pagesFailed = c.pagesFailed
         /\ o.is \in {"recognized", "failed", "truncated"}
         /\ \A k \in {"recognized", "failed", "truncated"} :
              d[k] = IF k = o.is THEN c[k] + 1 ELSE c[k]
<1>1. o.is \in {"recognized", "failed", "truncated"}
  BY DEF Results!Outcomes
<1>2. c = [pages |-> c.pages, pagesFailed |-> c.pagesFailed, detected |-> c.detected,
           recognized |-> c.recognized, failed |-> c.failed, truncated |-> c.truncated,
           pending |-> c.pending, notRequested |-> c.notRequested]
  BY CountFields
<1>3. /\ c.pages \in Nat /\ c.pagesFailed \in Nat /\ c.detected \in Nat
      /\ c.recognized \in Nat /\ c.failed \in Nat /\ c.truncated \in Nat
      /\ c.pending \in Nat /\ c.notRequested \in Nat
  BY CountFields
<1> DEFINE r == IF o.is = "recognized" THEN c.recognized + 1 ELSE c.recognized
           f == IF o.is = "failed" THEN c.failed + 1 ELSE c.failed
           t == IF o.is = "truncated" THEN c.truncated + 1 ELSE c.truncated
<1>4. d = [pages |-> c.pages, pagesFailed |-> c.pagesFailed, detected |-> c.detected,
           recognized |-> r, failed |-> f, truncated |-> t,
           pending |-> c.pending - 1, notRequested |-> c.notRequested]
  <2>1. CASE o.is = "recognized"
    <3>1. d = [c EXCEPT !.pending = @ - 1, !.recognized = @ + 1]
      BY <2>1 DEF Results!Count
    <3> QED BY <1>2, <2>1, <3>1
  <2>2. CASE o.is = "failed"
    <3>1. d = [c EXCEPT !.pending = @ - 1, !.failed = @ + 1]
      BY <2>2 DEF Results!Count
    <3> QED BY <1>2, <2>2, <3>1
  <2>3. CASE o.is = "truncated"
    <3>1. d = [c EXCEPT !.pending = @ - 1, !.truncated = @ + 1]
      BY <2>3 DEF Results!Count
    <3> QED BY <1>2, <2>3, <3>1
  <2> QED BY <1>1, <2>1, <2>2, <2>3
<1>5. r \in Nat /\ f \in Nat /\ t \in Nat
      /\ r + f + t = c.recognized + c.failed + c.truncated + 1
  <2>1. CASE o.is = "recognized"
    BY <1>3, <2>1
  <2>2. CASE o.is = "failed"
    BY <1>3, <2>2
  <2>3. CASE o.is = "truncated"
    BY <1>3, <2>3
  <2> QED BY <1>1, <2>1, <2>2, <2>3
<1>6. \A k \in {"recognized", "failed", "truncated"} :
        d[k] = IF k = o.is THEN c[k] + 1 ELSE c[k]
  BY <1>4
<1> HIDE DEF r, f, t
<1>7. c.pending - 1 \in Nat
  BY <1>3
<1>8. d \in Counts
  BY <1>3, <1>4, <1>5, <1>7 DEF Counts
<1>9. Adds(d)
  <2>1. /\ d.recognized = r /\ d.failed = f /\ d.truncated = t /\ d.pending = c.pending - 1
        /\ d.notRequested = c.notRequested /\ d.detected = c.detected
    BY <1>4
  <2>2. c.recognized + c.failed + c.truncated + c.pending + c.notRequested = c.detected
    BY DEF Adds
  <2>3. r + f + t + (c.pending - 1) + c.notRequested = c.detected
    BY <1>3, <1>5, <2>2
  <2> QED BY <2>1, <2>3 DEF Adds
<1>10. d.pending = c.pending - 1 /\ d.pages = c.pages /\ d.pagesFailed = c.pagesFailed
  BY <1>4
<1> QED BY <1>1, <1>6, <1>8, <1>9, <1>10

LEMMA ToldOutcome ==
  ASSUME NEW c \in Counts, NEW d \in Counts, NEW t \in Tallies, Below(t, c), Tells(t, c, FALSE),
         d.pages = c.pages, d.pagesFailed = c.pagesFailed,
         NEW e \in {"recognized", "failed", "truncated"},
         \A k \in {"recognized", "failed", "truncated"} :
           d[k] = IF k = e THEN c[k] + 1 ELSE c[k]
  PROVE  /\ Below(t, d) /\ Below([t EXCEPT ![e] = @ + 1], d)
         /\ Tells([t EXCEPT ![e] = @ + 1], d, FALSE)
<1>1. /\ c.pages \in Nat /\ c.pagesFailed \in Nat /\ c.recognized \in Nat /\ c.failed \in Nat
      /\ c.truncated \in Nat
  BY CountFields
<1>2. /\ t.pages = c.pages /\ t.pagesFailed = c.pagesFailed /\ t.recognized = c.recognized
      /\ t.failed = c.failed /\ t.truncated = c.truncated
  BY <1>1 DEF Tells
<1>3. t = [pages |-> t.pages, pagesFailed |-> t.pagesFailed, recognized |-> t.recognized,
           failed |-> t.failed, truncated |-> t.truncated]
  BY DEF Tallies
<1> DEFINE w == [t EXCEPT ![e] = @ + 1]
<1>4. /\ w.pages = d.pages /\ w.pagesFailed = d.pagesFailed /\ w.recognized = d.recognized
      /\ w.failed = d.failed /\ w.truncated = d.truncated
  <2>1. CASE e = "recognized"
    BY <1>2, <1>3, <2>1
  <2>2. CASE e = "failed"
    BY <1>2, <1>3, <2>2
  <2>3. CASE e = "truncated"
    BY <1>2, <1>3, <2>3
  <2> QED BY <2>1, <2>2, <2>3
<1> HIDE DEF w
<1>5. /\ d.pages \in Nat /\ d.pagesFailed \in Nat /\ d.recognized \in Nat /\ d.failed \in Nat
      /\ d.truncated \in Nat
  BY CountFields
<1>6. Below(w, d) /\ Tells(w, d, FALSE)
  BY <1>4, <1>5 DEF Below, Tells
<1>7. \A k \in {"recognized", "failed", "truncated"} : c[k] \in Nat /\ t[k] = c[k]
  BY <1>1, <1>2
<1>8. Below(t, d)
  <2>1. \A k \in {"recognized", "failed", "truncated"} : t[k] <= d[k]
    BY <1>7
  <2> QED BY <1>1, <1>2, <2>1 DEF Below
<1> QED BY <1>6, <1>8 DEF w

LEMMA RecognizedKeeps ==
  ASSUME StoryInv, NEW o \in Results!Outcomes, Results!Recognized(o), scope' = scope
  PROVE  StoryInv'
<1> DEFINE filled == Filled(page, formula, o)
           n == Len(page.formulas)
           u == [type |-> "FormulaFinished", at |-> at, id |-> page.formulas[formula].id,
                 outcome |-> o]
<1>1. pc = "recognize" /\ pc \in Working /\ pc \in Assembled /\ page' = filled
      /\ at' = at /\ stop' = stop
  BY DEF Results!Recognized, Results!Stored, Filled, Working, Assembled
<1>2. \/ /\ PageFits(scope = "all", filled, FALSE) /\ counts' = Results!Count(counts, o)
         /\ Results!Emit(u, Results!AfterFormula(formula + 1)) /\ formula' = formula + 1
      \/ /\ error' = "invalid" /\ pc' = "summary" /\ stream' = stream /\ counts' = counts
         /\ refused' = refused /\ formula' = formula
  <2>1. Results!ValidPage(filled, FALSE) <=> PageFits(scope = "all", filled, FALSE)
    BY ValidFits DEF StoryInv, StoryTypes
  <2>2. /\ Results!Accepts(filled) <=> Results!ValidPage(filled, FALSE)
        /\ filled = [page EXCEPT !.formulas[formula].state = Results!Stored(o)]
    BY DEF Results!Accepts, Results!Stored, Filled
  <2> QED BY <2>1, <2>2 DEF Results!Recognized, Results!Fail
<1>3. /\ scope = "all" /\ formula \in 1 .. n /\ n \in Nat
      /\ \A f \in 1 .. n : IF f < formula THEN page.formulas[f].state \in Results!Outcomes
                           ELSE page.formulas[f].state = Results!Initial
  <2>1. n \in Nat
    BY SequenceFacts DEF StoryInv, StoryTypes, Shaped
  <2>2. /\ scope = "all" /\ formula \in 1 .. n + 1 /\ formula <= n
        /\ \A f \in FormulasOf(page) :
             IF f < formula THEN page.formulas[f].state \in Results!Outcomes
             ELSE page.formulas[f].state = Results!Initial
    BY <1>1 DEF StoryInv, Assembly
  <2> HIDE DEF n
  <2>3. formula \in 1 .. n
    BY <2>1, <2>2
  <2> QED BY <2>1, <2>2, <2>3 DEF FormulasOf, n
<1>4. /\ IsSequence(stream) /\ counts \in Counts /\ Tally(stream) \in Tallies
      /\ Below(Tally(stream), counts) /\ Tells(Tally(stream), counts, FALSE)
      /\ Adds(counts) /\ error = Nothing /\ Shaped(page) /\ Len(stream) \in Nat
      /\ counts.pages + counts.pagesFailed = at - 1 /\ counts.pending = n + 1 - formula
  <2>1. (pc = "last") = FALSE /\ Open = n + 1 - formula
    BY <1>1, <1>3 DEF Open
  <2> HIDE DEF n
  <2> QED BY <1>1, <2>1, AtWork
<1>5. at \in Nat /\ at \in 1 .. NumPages + 1 /\ at <= NumPages /\ at - 1 <= NumPages
  <2>1. at \in 1 .. NumPages /\ NumPages \in Nat
    BY <1>1, AtWork
  <2> QED BY <2>1
<1>6. /\ Shaped(filled) /\ FormulasOf(filled) = 1 .. n /\ Len(filled.formulas) = n
      /\ filled.regions = page.regions /\ filled.order = page.order
      /\ filled.formulas[formula] = [id |-> page.formulas[formula].id, state |-> o]
      /\ \A f \in 1 .. n : f # formula => filled.formulas[f] = page.formulas[f]
  <2>1. formula \in FormulasOf(page) /\ FormulasOf(page) = 1 .. n
    BY <1>3 DEF FormulasOf
  <2> QED BY <1>4, <2>1, FilledShape
<1>7. refused = FALSE
  BY DEF StoryInv, StoryTypes
<1>8. /\ u.type = "FormulaFinished" /\ u.at = at /\ u.id = filled.formulas[formula].id
      /\ u.outcome = filled.formulas[formula].state /\ u.outcome = o
  BY <1>6
<1> HIDE DEF filled, u, n
<1>9. formula \in Nat /\ formula + 1 \in 1 .. n + 1 /\ formula + 1 \in Nat
  BY <1>3
<1>10. CASE /\ error' = "invalid" /\ pc' = "summary" /\ stream' = stream /\ counts' = counts
            /\ refused' = refused /\ formula' = formula
  <2>1. error' \in Codes
    BY <1>10 DEF Codes
  <2>2. /\ at' \in 1 .. NumPages + 1 /\ formula' \in Nat /\ Shaped(page') /\ counts' \in Counts
        /\ Adds(counts') /\ Below(Tally(stream'), counts') /\ refused' = FALSE /\ stop' = stop
        /\ counts'.pages + counts'.pagesFailed <= NumPages
    BY <1>1, <1>4, <1>5, <1>6, <1>7, <1>9, <1>10
  <2> QED BY <1>1, <1>10, <2>1, <2>2, BreaksOff
<1>11. ASSUME PageFits(scope = "all", filled, FALSE), counts' = Results!Count(counts, o),
              Results!Emit(u, Results!AfterFormula(formula + 1)), formula' = formula + 1
       PROVE  StoryInv'
  <2>1. Results!Valid(u)
    <3>1. filled.formulas[formula] \in Results!ToSet(filled.formulas)
      <4>1. formula \in DOMAIN filled.formulas
        BY <1>3, <1>6, SequenceFacts DEF Shaped
      <4> QED BY <4>1 DEF Results!ToSet
    <3>2. StateFits(scope = "all", filled, filled.formulas[formula], FALSE)
      BY <1>11, <3>1 DEF PageFits
    <3>3. filled.formulas[formula].state = o /\ o.is # "pending"
      BY <1>6 DEF Results!Outcomes
    <3>4. Results!ValidOutcome(o)
      BY <1>3, <3>2, <3>3 DEF StateFits
    <3> QED BY <1>8, <3>4 DEF Results!Valid
  <2>2. /\ refused' = FALSE
        /\ \/ /\ stream' = Append(stream, u) /\ pc' = Results!AfterFormula(formula + 1)
              /\ error' = error
           \/ stream' = stream /\ pc' = "summary" /\ error' \in Codes
    BY <1>11, <2>1, EmitOutcome
  <2>3. counts.pending > 0
    BY <1>3, <1>4
  <2>4. /\ counts' \in Counts /\ Adds(counts') /\ counts'.pending = counts.pending - 1
        /\ counts'.pages = counts.pages /\ counts'.pagesFailed = counts.pagesFailed
        /\ o.is \in {"recognized", "failed", "truncated"}
        /\ \A k \in {"recognized", "failed", "truncated"} :
             counts'[k] = IF k = o.is THEN counts[k] + 1 ELSE counts[k]
    BY <1>4, <1>11, <2>3, CountedOutcome
  <2>5. /\ Below(Tally(stream), counts')
        /\ Below([Tally(stream) EXCEPT ![o.is] = @ + 1], counts')
        /\ Tells([Tally(stream) EXCEPT ![o.is] = @ + 1], counts', FALSE)
    BY <1>4, <2>4, ToldOutcome
  <2>6. CASE stream' = stream /\ pc' = "summary" /\ error' \in Codes
    <3>1. /\ at' \in 1 .. NumPages + 1 /\ formula' \in Nat /\ Shaped(page')
          /\ counts'.pages + counts'.pagesFailed <= NumPages /\ Below(Tally(stream'), counts')
      BY <1>1, <1>4, <1>5, <1>6, <1>9, <1>11, <2>4, <2>5, <2>6
    <3> QED BY <1>1, <2>2, <2>4, <2>6, <3>1, BreaksOff
  <2>7. CASE stream' = Append(stream, u) /\ pc' = Results!AfterFormula(formula + 1)
             /\ error' = error
    <3>1. Summarized' /\ Snapshots' /\ IsSequence(stream')
      BY <1>1, <1>8, <2>7, Publishes
    <3>2. pc' = (IF formula + 1 > n THEN "finish" ELSE "recognize")
      BY <2>7 DEF Results!AfterFormula, n
    <3>3. pc' \in {"finish", "recognize"}
      BY <3>2
    <3>4. StoryTypes'
      BY <1>1, <1>5, <1>6, <1>9, <1>11, <2>2, <2>4, <2>7, <3>1, <3>3
      DEF StoryInv, StoryTypes, Working
    <3>5. Assembly'
      <4>1. /\ pc' = "recognize" => formula + 1 <= n
            /\ pc' = "finish" => formula + 1 = n + 1
        BY <1>3, <3>2
      <4>2. \A f \in 1 .. n : IF f < formula + 1 THEN filled.formulas[f].state \in Results!Outcomes
                              ELSE filled.formulas[f].state = Results!Initial
        <5> SUFFICES ASSUME NEW f \in 1 .. n
                     PROVE  IF f < formula + 1 THEN filled.formulas[f].state \in Results!Outcomes
                            ELSE filled.formulas[f].state = Results!Initial
          OBVIOUS
        <5>1. CASE f = formula
          <6>1. f < formula + 1 /\ filled.formulas[f].state = o
            BY <1>6, <1>9, <5>1
          <6> QED BY <6>1
        <5>2. CASE f # formula
          <6>1. f < formula + 1 <=> f < formula
            BY <1>3, <5>2
          <6>2. filled.formulas[f] = page.formulas[f]
            BY <1>6, <5>2
          <6> QED BY <1>3, <6>1, <6>2
        <5> QED BY <5>1, <5>2
      <4>3. Results!Initial' = Results!Initial /\ Results!Outcomes' = Results!Outcomes
        BY SameInitial
      <4>4. FormulasOf(page') = 1 .. n /\ Len(page'.formulas) = n
        BY <1>1, <1>6
      <4> QED BY <1>1, <1>3, <1>4, <1>5, <1>9, <1>11, <2>7, <3>3, <4>1, <4>2, <4>3, <4>4
          DEF Assembly, Working, Assembled
    <3>6. Balanced'
      <4>1. Open' = n + 1 - (formula + 1)
        BY <1>1, <1>3, <1>6, <1>11, <3>3 DEF Open, Assembled
      <4>2. counts'.pending = n + 1 - (formula + 1)
        BY <1>3, <1>4, <2>4
      <4>3. (counts.pages + counts.pagesFailed)' = at - 1
        BY <1>4, <2>4
      <4> QED BY <1>1, <1>4, <1>5, <2>4, <2>7, <3>3, <4>1, <4>2, <4>3
          DEF Balanced, Through, Working
    <3>7. Tallied'
      <4>1. Tally(stream') = [Tally(stream) EXCEPT ![o.is] = @ + 1]
        BY <1>4, <1>8, <2>4, <2>7, TallyGrows
      <4> QED BY <2>5, <3>3, <4>1 DEF Tallied
    <3>8. Story'
      <4>1. Telling /\ Telling' /\ ToldSoFar = formula - 1 /\ ToldSoFar' = formula
        BY <1>1, <1>3, <1>9, <1>11, <3>3 DEF Telling, ToldSoFar
      <4>2. /\ Begun(stream, page, formula - 1, at)
            /\ \A j \in 1 .. Len(stream) : stream[j].at \in Nat /\ stream[j].at <= at
        BY <1>1, <4>1 DEF StoryInv, Story
      <4>3. formula - 1 \in Nat /\ (formula - 1) + 1 = formula
            /\ \A f \in 1 .. formula - 1 : filled.formulas[f] = page.formulas[f]
        BY <1>3, <1>6
      <4>4. Begun(stream', filled, (formula - 1) + 1, at)
        <5>1. u.id = filled.formulas[(formula - 1) + 1].id
              /\ u.outcome = filled.formulas[(formula - 1) + 1].state
          BY <1>8, <4>3
        <5> QED BY <1>4, <1>6, <1>8, <2>7, <4>2, <4>3, <5>1, TellsOneMore
      <4>5. \A j \in 1 .. Len(stream') : stream'[j].at \in Nat /\ stream'[j].at <= at
        BY <1>4, <1>5, <1>8, <2>7, <4>2, NumbersGrow
      <4> QED BY <1>1, <4>1, <4>3, <4>4, <4>5 DEF Story
    <3> QED BY <3>1, <3>4, <3>5, <3>6, <3>7, <3>8 DEF StoryInv
  <2> QED BY <2>2, <2>6, <2>7
<1> QED BY <1>2, <1>10, <1>11

(* A page gone through is counted before its last snapshot is told.          *)
LEMMA PageCounted ==
  ASSUME StoryInv, pc = "finish", counts' = [counts EXCEPT !.pages = @ + 1]
  PROVE  /\ counts' \in Counts /\ Adds(counts') /\ counts'.pages + counts'.pagesFailed = at
         /\ counts'.pending = 0 /\ Below(Tally(stream), counts')
         /\ Tells(Tally(stream), counts', TRUE)
<1>1. pc \in Working /\ pc \in Assembled /\ (pc = "last") = FALSE
  BY DEF Working, Assembled
<1>2. /\ counts \in Counts /\ Tally(stream) \in Tallies /\ Adds(counts)
      /\ Below(Tally(stream), counts) /\ Tells(Tally(stream), counts, FALSE)
      /\ counts.pages + counts.pagesFailed = at - 1 /\ counts.pending = Open
  BY <1>1, AtWork
<1>3. Open = 0
  <2>1. Len(page.formulas) \in Nat
    BY SequenceFacts DEF StoryInv, StoryTypes, Shaped
  <2>2. scope = "all" => formula = Len(page.formulas) + 1
    BY DEF StoryInv, Assembly
  <2> QED BY <2>1, <2>2 DEF Open
<1>4. at \in Nat
  <2>1. at \in 1 .. NumPages /\ NumPages \in Nat
    BY <1>1, AtWork
  <2> QED BY <2>1
<1>5. counts = [pages |-> counts.pages, pagesFailed |-> counts.pagesFailed,
                detected |-> counts.detected, recognized |-> counts.recognized,
                failed |-> counts.failed, truncated |-> counts.truncated,
                pending |-> counts.pending, notRequested |-> counts.notRequested]
  BY <1>2, CountFields
<1>6. counts' = [pages |-> counts.pages + 1, pagesFailed |-> counts.pagesFailed,
                 detected |-> counts.detected, recognized |-> counts.recognized,
                 failed |-> counts.failed, truncated |-> counts.truncated,
                 pending |-> counts.pending, notRequested |-> counts.notRequested]
  BY <1>5
<1>7. /\ counts.pages \in Nat /\ counts.pagesFailed \in Nat /\ counts.detected \in Nat
      /\ counts.recognized \in Nat /\ counts.failed \in Nat /\ counts.truncated \in Nat
      /\ counts.pending \in Nat /\ counts.notRequested \in Nat
  BY <1>2, CountFields
<1>8. counts' \in Counts
  <2>1. counts.pages + 1 \in Nat
    BY <1>7
  <2> QED BY <1>6, <1>7, <2>1 DEF Counts
<1>9. Adds(counts') /\ counts'.pending = 0
  BY <1>2, <1>3, <1>6 DEF Adds
<1>10. counts'.pages + counts'.pagesFailed = at
  <2>1. counts'.pages = counts.pages + 1 /\ counts'.pagesFailed = counts.pagesFailed
    BY <1>6
  <2> QED BY <1>2, <1>4, <1>7, <2>1
<1>11. /\ Tally(stream).pages = counts.pages
       /\ \A k \in {"pagesFailed", "recognized", "failed", "truncated"} :
            Tally(stream)[k] = counts[k] /\ counts[k] \in Nat /\ counts'[k] = counts[k]
  <2>1. Tally(stream).pages = counts.pages
    BY <1>2, <1>7 DEF Tells
  <2> QED BY <1>2, <1>6, <1>7, <2>1 DEF Tells
<1>12. counts'.pages = counts.pages + 1 /\ counts'.pages - 1 = counts.pages
       /\ counts.pages <= counts'.pages
  BY <1>6, <1>7
<1>13. Tells(Tally(stream), counts', TRUE)
  BY <1>11, <1>12 DEF Tells
<1>14. Below(Tally(stream), counts')
  <2>1. \A k \in {"pagesFailed", "recognized", "failed", "truncated"} :
          Tally(stream)[k] <= counts'[k]
    <3>1. \A i \in Nat : i <= i
      OBVIOUS
    <3> QED BY <1>11, <3>1
  <2>2. Tally(stream).pages <= counts'.pages
    BY <1>11, <1>12
  <2> QED BY <2>1, <2>2 DEF Below
<1> QED BY <1>8, <1>9, <1>10, <1>13, <1>14

LEMMA FinishPageKeeps ==
  ASSUME StoryInv, Results!FinishPage, scope' = scope
  PROVE  StoryInv'
<1> DEFINE u == [type |-> "PageLayoutReady", at |-> at, page |-> page]
<1>1. /\ pc = "finish" /\ pc \in Working /\ pc \in Assembled
      /\ UNCHANGED <<at, page, formula, stop>> /\ counts' = [counts EXCEPT !.pages = @ + 1]
      /\ u.type = "PageLayoutReady" /\ u.at = at /\ u.page = page
  BY DEF Results!FinishPage, Working, Assembled
<1>2. /\ scope = "all" => /\ pc' = "last" /\ stream' = stream /\ error' = error
                          /\ refused' = refused
      /\ scope # "all" => Results!Emit(u, "last")
  BY DEF Results!FinishPage
<1>3. scope # "all" => scope = "none"
  BY DEF StoryInv, StoryTypes
<1>4. scope # "all" => Results!Valid(u)
  BY <1>1, <1>3, NoticeValid
<1> HIDE DEF u
<1>5. refused = FALSE
  BY DEF StoryInv, StoryTypes
<1>6. /\ refused' = FALSE
      /\ \/ scope = "all" /\ stream' = stream /\ pc' = "last" /\ error' = error
         \/ scope # "all" /\ stream' = Append(stream, u) /\ pc' = "last" /\ error' = error
         \/ stream' = stream /\ pc' = "summary" /\ error' \in Codes
  <2>1. CASE scope = "all"
    BY <1>2, <1>5, <2>1
  <2>2. CASE scope # "all"
    BY <1>2, <1>4, <2>2, EmitOutcome
  <2> QED BY <2>1, <2>2
<1>7. /\ counts' \in Counts /\ Adds(counts') /\ counts'.pages + counts'.pagesFailed = at
      /\ counts'.pending = 0 /\ Below(Tally(stream), counts')
      /\ Tells(Tally(stream), counts', TRUE)
  BY <1>1, PageCounted
<1>8. /\ IsSequence(stream) /\ error = Nothing /\ Shaped(page) /\ Len(stream) \in Nat
      /\ formula \in Nat
  BY <1>1, AtWork
<1>9. at \in Nat /\ at \in 1 .. NumPages + 1 /\ at <= NumPages
  <2>1. at \in 1 .. NumPages /\ NumPages \in Nat
    BY <1>1, AtWork
  <2> QED BY <2>1
<1>10. CASE stream' = stream /\ pc' = "summary" /\ error' \in Codes
  <2>1. /\ at' \in 1 .. NumPages + 1 /\ formula' \in Nat /\ Shaped(page') /\ stop' = stop
        /\ counts'.pages + counts'.pagesFailed <= NumPages /\ Below(Tally(stream'), counts')
    BY <1>1, <1>7, <1>8, <1>9, <1>10
  <2> QED BY <1>1, <1>6, <1>7, <1>10, <2>1, BreaksOff
<1>11. ASSUME pc' = "last", error' = error,
              \/ scope = "all" /\ stream' = stream
              \/ scope # "all" /\ stream' = Append(stream, u)
       PROVE  StoryInv'
  <2>1. Summarized' /\ Snapshots' /\ IsSequence(stream')
    <3>1. CASE stream' = stream
      BY <1>1, <3>1, Unsaid
    <3>2. CASE stream' = Append(stream, u)
      BY <1>1, <3>2, Publishes
    <3> QED BY <1>11, <3>1, <3>2
  <2>2. StoryTypes'
    BY <1>1, <1>6, <1>7, <1>8, <1>9, <1>11, <2>1 DEF StoryInv, StoryTypes, Working
  <2>3. Assembly'
    <3>1. Results!Initial' = Results!Initial /\ Results!Outcomes' = Results!Outcomes
      BY SameInitial
    <3> QED BY <1>1, <1>8, <1>9, <1>11, <3>1 DEF StoryInv, Assembly, Working, Assembled
  <2>4. Balanced'
    <3>1. Open' = 0
      <4>1. Len(page.formulas) \in Nat
        BY SequenceFacts DEF StoryInv, StoryTypes, Shaped
      <4>2. scope = "all" => formula = Len(page.formulas) + 1
        BY <1>1 DEF StoryInv, Assembly
      <4> QED BY <1>1, <4>1, <4>2 DEF Open
    <3> QED BY <1>1, <1>7, <1>8, <1>9, <1>11, <3>1 DEF Balanced, Through, Working
  <2>5. Tallied'
    <3>1. Tally(stream') = Tally(stream)
      <4>1. CASE stream' = stream
        BY <4>1
      <4>2. CASE stream' = Append(stream, u)
        BY <1>1, <1>8, <4>2, TallyGrows
      <4> QED BY <1>11, <4>1, <4>2
    <3> QED BY <1>7, <1>11, <3>1 DEF Tallied
  <2>6. Story'
    <3>1. Telling' /\ ToldSoFar' = ToldSoFar
      BY <1>1, <1>11 DEF Telling, ToldSoFar
    <3>2. \A j \in 1 .. Len(stream) : stream[j].at \in Nat /\ stream[j].at <= at
      BY <1>1 DEF StoryInv, Story
    <3>3. CASE scope = "all"
      <4>1. stream' = stream /\ Telling
        BY <1>1, <1>11, <3>3 DEF Telling
      <4> QED BY <1>1, <3>1, <3>2, <4>1 DEF StoryInv, Story
    <3>4. CASE scope # "all"
      <4>1. stream' = Append(stream, u) /\ ~Telling /\ ToldSoFar' = 0
        BY <1>1, <1>11, <3>1, <3>4 DEF Telling, ToldSoFar
      <4>2. \A j \in 1 .. Len(stream) : stream[j].at \in Nat /\ stream[j].at < at
        BY <1>1, <4>1 DEF StoryInv, Story
      <4>3. Begun(stream', page, 0, at)
        BY <1>1, <1>8, <1>9, <4>1, <4>2, Begins
      <4>4. \A j \in 1 .. Len(stream') : stream'[j].at \in Nat /\ stream'[j].at <= at
        BY <1>1, <1>8, <1>9, <3>2, <4>1, NumbersGrow
      <4> QED BY <1>1, <3>1, <4>1, <4>3, <4>4 DEF Story
    <3> QED BY <3>3, <3>4
  <2> QED BY <2>1, <2>2, <2>3, <2>4, <2>5, <2>6 DEF StoryInv
<1> QED BY <1>6, <1>10, <1>11

(* A page whose formulas have all ended is valid as a final one.             *)
LEMMA SnapshotValid ==
  ASSUME StoryInv, pc = "last"
  PROVE  Results!ValidPage(page, TRUE)
<1>1. pc \in Assembled /\ scope \in {"all", "none"} /\ PageFits(scope = "all", page, FALSE)
  BY DEF Assembled, StoryInv, StoryTypes, Assembly
<1>2. IsSequence(page.formulas) /\ DOMAIN page.formulas = FormulasOf(page)
      /\ Len(page.formulas) \in Nat
  <2>1. IsSequence(page.formulas)
    BY DEF StoryInv, StoryTypes, Shaped
  <2> QED BY <2>1, SequenceFacts DEF FormulasOf
<1>3. \A f \in Results!ToSet(page.formulas) : StateFits(scope = "all", page, f, TRUE)
  <2> SUFFICES ASSUME NEW k \in FormulasOf(page)
               PROVE  StateFits(scope = "all", page, page.formulas[k], TRUE)
    BY <1>2 DEF Results!ToSet
  <2>1. StateFits(scope = "all", page, page.formulas[k], FALSE)
    BY <1>1, <1>2 DEF PageFits, Results!ToSet
  <2>2. CASE scope = "all"
    <3>1. formula = Len(page.formulas) + 1
      BY <2>2 DEF StoryInv, Assembly
    <3>2. k < formula
      BY <1>2, <3>1 DEF FormulasOf
    <3>3. page.formulas[k].state \in Results!Outcomes
      BY <1>1, <2>2, <3>2 DEF StoryInv, Assembly
    <3>4. page.formulas[k].state.is # "pending"
      BY <3>3 DEF Results!Outcomes
    <3> QED BY <2>1, <3>4 DEF StateFits
  <2>3. CASE scope # "all"
    BY <2>1, <2>3 DEF StateFits
  <2> QED BY <2>2, <2>3
<1>4. PageFits(scope = "all", page, TRUE)
  BY <1>1, <1>3 DEF PageFits
<1> QED BY <1>1, <1>4, ValidFits

(* The tally catches up with the page that was counted.                      *)
LEMMA PageTold ==
  ASSUME NEW c \in Counts, NEW t \in Tallies, Tells(t, c, TRUE)
  PROVE  Below([t EXCEPT !.pages = @ + 1], c) /\ Tells([t EXCEPT !.pages = @ + 1], c, FALSE)
<1>1. /\ c.pages \in Nat /\ c.pagesFailed \in Nat /\ c.recognized \in Nat /\ c.failed \in Nat
      /\ c.truncated \in Nat
  BY CountFields
<1>2. /\ t.pages = c.pages - 1 /\ t.pagesFailed = c.pagesFailed /\ t.recognized = c.recognized
      /\ t.failed = c.failed /\ t.truncated = c.truncated
  BY DEF Tells
<1>3. t = [pages |-> t.pages, pagesFailed |-> t.pagesFailed, recognized |-> t.recognized,
           failed |-> t.failed, truncated |-> t.truncated]
  BY DEF Tallies
<1> DEFINE w == [t EXCEPT !.pages = @ + 1]
<1>4. /\ w.pages = t.pages + 1 /\ w.pagesFailed = c.pagesFailed /\ w.recognized = c.recognized
      /\ w.failed = c.failed /\ w.truncated = c.truncated
  BY <1>2, <1>3
<1> HIDE DEF w
<1>5. w.pages = c.pages
  BY <1>1, <1>2, <1>4
<1>6. Below(w, c) /\ Tells(w, c, FALSE)
  BY <1>1, <1>4, <1>5 DEF Below, Tells
<1> QED BY <1>6 DEF w

LEMMA LastSnapshotKeeps ==
  ASSUME StoryInv, Results!LastSnapshot, scope' = scope
  PROVE  StoryInv'
<1> DEFINE u == [type |-> "PageFinished", at |-> at, page |-> page]
           n == FormulasTold(scope = "all", page)
<1>1. /\ pc = "last" /\ pc \in Working /\ pc \in Assembled /\ (pc = "last") = TRUE
      /\ UNCHANGED <<formula, counts, stop>> /\ at' = at + 1 /\ page' = Results!NoPage
      /\ Results!Emit(u, Results!NextAt)
      /\ u.type = "PageFinished" /\ u.at = at /\ u.page = page
  BY DEF Results!LastSnapshot, Working, Assembled
<1> HIDE DEF u
<1>2. Results!Valid(u)
  BY <1>1, SnapshotValid DEF Results!Valid
<1>3. /\ refused' = FALSE
      /\ \/ stream' = Append(stream, u) /\ pc' = Results!NextAt /\ error' = error
         \/ stream' = stream /\ pc' = "summary" /\ error' \in Codes
  BY <1>1, <1>2, EmitOutcome
<1>4. /\ IsSequence(stream) /\ counts \in Counts /\ Tally(stream) \in Tallies
      /\ Below(Tally(stream), counts) /\ Tells(Tally(stream), counts, TRUE)
      /\ Adds(counts) /\ error = Nothing /\ Len(stream) \in Nat /\ formula \in Nat
      /\ counts.pages + counts.pagesFailed = at /\ counts.pending = Open
  BY <1>1, AtWork
<1>5. at \in Nat /\ at \in 1 .. NumPages /\ at + 1 \in 1 .. NumPages + 1 /\ at <= NumPages
      /\ NumPages \in Nat
  <2>1. at \in 1 .. NumPages /\ NumPages \in Nat
    BY <1>1, AtWork
  <2> QED BY <2>1
<1>6. /\ n \in Nat /\ ToldSoFar = n /\ Open = 0
  <2>1. Len(page.formulas) \in Nat
    BY SequenceFacts DEF StoryInv, StoryTypes, Shaped
  <2>2. scope = "all" => formula = Len(page.formulas) + 1
    BY <1>1 DEF StoryInv, Assembly
  <2> QED BY <2>1, <2>2 DEF FormulasTold, ToldSoFar, Open
<1>7. Shaped(page')
  BY <1>1, NoPageShaped
<1>8. CASE stream' = stream /\ pc' = "summary" /\ error' \in Codes
  <2>1. /\ at' \in 1 .. NumPages + 1 /\ formula' \in Nat /\ counts' \in Counts
        /\ Adds(counts') /\ Below(Tally(stream'), counts') /\ stop' = stop
        /\ counts'.pages + counts'.pagesFailed <= NumPages
    BY <1>1, <1>4, <1>5, <1>8
  <2> QED BY <1>1, <1>3, <1>7, <1>8, <2>1, BreaksOff
<1>9. CASE stream' = Append(stream, u) /\ pc' = Results!NextAt /\ error' = error
  <2>1. /\ Begun(stream, page, n, at)
        /\ \A j \in 1 .. Len(stream) : stream[j].at \in Nat /\ stream[j].at <= at
    <3>1. Telling
      BY <1>1 DEF Telling
    <3> QED BY <1>1, <1>6, <3>1 DEF StoryInv, Story
  <2>2. Follows(Append(stream, u), scope = "all", Len(stream) + 1)
    <3> HIDE DEF n
    <3>1. n = FormulasTold(scope = "all", page)
      BY DEF n
    <3> QED BY <1>1, <1>4, <1>6, <2>1, <3>1, Concludes
  <2>3. Summarized' /\ Snapshots' /\ IsSequence(stream')
    BY <1>1, <1>9, <2>2, Publishes
  <2>4. pc' = (IF at < NumPages THEN "page" ELSE "summary")
    BY <1>9 DEF Results!NextAt
  <2>5. /\ pc' \in {"page", "summary"}
        /\ pc' = "page" => at + 1 <= NumPages
        /\ pc' = "summary" => at = NumPages
    BY <1>5, <2>4
  <2>6. StoryTypes'
    BY <1>1, <1>3, <1>4, <1>5, <1>7, <1>9, <2>3, <2>5 DEF StoryInv, StoryTypes, Working
  <2>7. Assembly'
    BY <1>1, <1>4, <1>9, <2>5 DEF Assembly, Working, Assembled
  <2>8. Balanced'
    <3>1. Open' = 0
      BY <2>5 DEF Open, Assembled
    <3>2. (at + 1) - 1 = at
      BY <1>5
    <3> QED BY <1>1, <1>4, <1>5, <1>6, <1>9, <2>5, <3>1, <3>2 DEF Balanced, Through, Working
  <2>9. Tallied'
    <3>1. Tally(stream') = [Tally(stream) EXCEPT !.pages = @ + 1]
      BY <1>1, <1>4, <1>9, TallyGrows
    <3>2. Below(Tally(stream'), counts) /\ Tells(Tally(stream'), counts, FALSE)
      BY <1>4, <3>1, PageTold
    <3> QED BY <1>1, <2>5, <3>2 DEF Tallied
  <2>10. Story'
    <3>1. ~Telling'
      BY <2>5 DEF Telling
    <3>2. \A j \in 1 .. Len(stream') : stream'[j].at \in Nat /\ stream'[j].at <= at
      BY <1>1, <1>4, <1>5, <1>9, <2>1, NumbersGrow
    <3>3. \A j \in 1 .. Len(stream') : stream'[j].at < at + 1 /\ stream'[j].at <= at + 1
      BY <1>5, <3>2
    <3> QED BY <1>1, <3>1, <3>2, <3>3 DEF Story
  <2> QED BY <2>3, <2>6, <2>7, <2>8, <2>9, <2>10 DEF StoryInv
<1> QED BY <1>3, <1>8, <1>9

(* The summary is right, and the last word.                                  *)
LEMMA SummarizeKeeps ==
  ASSUME StoryInv, Results!Summarize, scope' = scope
  PROVE  StoryInv'
<1> DEFINE u == [type |-> "DocumentFinished", status |-> Results!Status, counts |-> counts]
<1>1. /\ pc = "summary" /\ pc' = "done" /\ pc' \notin Working /\ pc' \notin Assembled
      /\ pc \notin Assembled
      /\ UNCHANGED <<at, page, formula, counts, error, stop>>
      /\ refused' = (refused \/ ~Results!Valid(u))
      /\ stream' = stream \/ stream' = Append(stream, u)
      /\ u.type = "DocumentFinished" /\ u.status = Results!Status /\ u.counts = counts
  BY DEF Results!Summarize, Working, Assembled
<1> HIDE DEF u
<1>2. /\ counts \in Counts /\ IsSequence(stream) /\ refused = FALSE
      /\ stop \in {Nothing, "cancelled", "sink"} /\ Adds(counts)
      /\ counts.pages + counts.pagesFailed <= NumPages
      /\ error = Nothing => /\ counts.pages + counts.pagesFailed = NumPages
                            /\ counts.pending = 0
  BY <1>1 DEF StoryInv, StoryTypes, Balanced, Through, Open
<1>3. Results!Valid(u)
  <2>1. Results!Status \in {"completed", "partial"} => error = Nothing
    BY DEF Results!Status, Results!StatusByStop
  <2>2. Results!Failures(counts) \in Nat
    <3>1. counts.pagesFailed \in Nat /\ counts.failed \in Nat /\ counts.truncated \in Nat
      BY <1>2, CountFields
    <3> QED BY <3>1 DEF Results!Failures
  <2>3. /\ Results!Status = "completed" => Results!Failures(counts) = 0
        /\ Results!Status = "partial" => Results!Failures(counts) # 0
    BY <2>2 DEF Results!Status, Results!StatusByStop
  <2>4. Results!ValidSummary(Results!Status, counts)
    BY <1>2, <2>1, <2>3 DEF Results!ValidSummary, Adds
  <2> QED BY <1>1, <2>4 DEF Results!Valid
<1>4. refused' = FALSE /\ Results!Status' = Results!Status
  BY <1>1, <1>2, <1>3 DEF Results!Status, Results!StatusByStop, Results!Failures
<1>5. Snapshots' /\ IsSequence(stream') /\ Tally(stream') = Tally(stream)
  <2>1. CASE stream' = stream
    BY <1>1, <2>1, Unsaid
  <2>2. CASE stream' = Append(stream, u)
    BY <1>1, <1>2, <2>2, SnapshotsGrow, TallyGrows
  <2> QED BY <1>1, <2>1, <2>2
<1>6. Typed(stream, "DocumentFinished") = {}
  BY <1>1, NothingSummarized
<1>7. Summarized'
  <2>1. CASE stream' = stream
    BY <1>6, <2>1 DEF Summarized
  <2>2. CASE stream' = Append(stream, u)
    <3>1. /\ Len(stream) \in Nat
          /\ DOMAIN stream = 1 .. Len(stream) /\ DOMAIN stream' = 1 .. Len(stream) + 1
          /\ \A i \in 1 .. Len(stream) : stream'[i] = stream[i]
          /\ stream'[Len(stream) + 1] = u
      BY <1>2, <2>2, AppendFacts, SequenceFacts
    <3>2. \A i \in Typed(stream', "DocumentFinished") : stream'[i] = u
      <4> SUFFICES ASSUME NEW i \in 1 .. Len(stream) + 1, stream'[i].type = "DocumentFinished",
                          i # Len(stream) + 1
                   PROVE  FALSE
        BY <3>1 DEF Typed
      <4>1. i \in 1 .. Len(stream)
        BY <3>1
      <4> QED BY <1>6, <3>1, <4>1 DEF Typed
    <3> QED BY <1>1, <1>4, <3>2 DEF Summarized
  <2> QED BY <1>1, <2>1, <2>2
<1>8. StoryTypes'
  BY <1>1, <1>4, <1>5 DEF StoryInv, StoryTypes
<1>9. Assembly' /\ Story'
  BY <1>1 DEF Assembly, Story, Assembled
<1>10. Balanced'
  <2>1. Open = 0 /\ Open' = 0
    BY <1>1 DEF Open
  <2> QED BY <1>1, <1>2, <2>1 DEF Balanced, Through
<1>11. Tallied'
  BY <1>1, <1>5 DEF StoryInv, Tallied
<1> QED BY <1>5, <1>7, <1>8, <1>9, <1>10, <1>11 DEF StoryInv

LEMMA StopKeeps ==
  ASSUME StoryInv, Results!Stop, scope' = scope
  PROVE  StoryInv'
<1>1. /\ pc # "done" /\ stop' \in {"cancelled", "sink"}
      /\ UNCHANGED <<at, pc, page, formula, counts, stream, error, refused>>
  BY DEF Results!Stop
<1>2. Summarized' /\ Snapshots' /\ IsSequence(stream')
  BY <1>1, Unsaid
<1>3. Results!Initial' = Results!Initial /\ Results!Outcomes' = Results!Outcomes
  BY SameInitial
<1>4. StoryTypes'
  BY <1>1, <1>2 DEF StoryInv, StoryTypes
<1>5. Assembly'
  BY <1>1, <1>3 DEF StoryInv, Assembly
<1>6. Balanced' /\ Tallied'
  BY <1>1 DEF StoryInv, Balanced, Through, Open, Tallied
<1>7. Story'
  BY <1>1 DEF StoryInv, Story, Telling, ToldSoFar
<1> QED BY <1>2, <1>4, <1>5, <1>6, <1>7 DEF StoryInv

LEMMA StoryRests ==
  ASSUME StoryInv, UNCHANGED resultVars
  PROVE  StoryInv'
<1>1. UNCHANGED <<scope, at, pc, page, formula, counts, stream, error, stop, refused>>
  BY DEF resultVars
<1>2. Results!Initial' = Results!Initial /\ Results!Outcomes' = Results!Outcomes
  BY <1>1, SameInitial
<1>3. Results!Status' = Results!Status
  BY <1>1 DEF Results!Status, Results!StatusByStop, Results!Failures
<1>4. StoryTypes'
  BY <1>1 DEF StoryInv, StoryTypes
<1>5. Assembly'
  BY <1>1, <1>2 DEF StoryInv, Assembly
<1>6. Balanced' /\ Tallied'
  BY <1>1 DEF StoryInv, Balanced, Through, Open, Tallied
<1>7. Story' /\ Snapshots'
  BY <1>1 DEF StoryInv, Story, Telling, ToldSoFar, Snapshots
<1>8. Summarized'
  BY <1>1, <1>3 DEF StoryInv, Summarized
<1> QED BY <1>4, <1>5, <1>6, <1>7, <1>8 DEF StoryInv

LEMMA ResultsStep ==
  ASSUME ResultsInv,
         [PartsNext]_<<part, phase, assetVars, rasterVars, ofPixels, resultVars, vars>>
  PROVE  ResultsInv'
<1> SUFFICES ASSUME part' = "results" PROVE StoryInv'
  BY DEF ResultsInv
<1>1. part = "results"
  BY DEF PartsNext
<1>2. StoryInv
  BY <1>1 DEF ResultsInv
<1>3. CASE UNCHANGED resultVars
  BY <1>2, <1>3, StoryRests
<1>4. CASE Results!Next
  <2>1. scope' = scope
    BY <1>4 DEF Results!Next
  <2>2. CASE Results!PageFails BY <1>2, <2>1, <2>2, PageFailsKeeps
  <2>3. CASE Results!PageBreaks BY <1>2, <2>1, <2>3, PageBreaksKeeps
  <2>4. CASE Results!PagesEnd BY <1>2, <2>1, <2>4, PagesEndKeeps
  <2>5. CASE Results!LayoutReady BY <1>2, <2>1, <2>5, LayoutReadyKeeps
  <2>6. CASE Results!FinishPage BY <1>2, <2>1, <2>6, FinishPageKeeps
  <2>7. CASE Results!LastSnapshot BY <1>2, <2>1, <2>7, LastSnapshotKeeps
  <2>8. CASE Results!Summarize BY <1>2, <2>1, <2>8, SummarizeKeeps
  <2>9. CASE Results!Stop BY <1>2, <2>1, <2>9, StopKeeps
  <2>10. CASE \E raw \in Raw : Results!LayoutReturns(raw)
    BY <1>2, <2>1, <2>10, LayoutReturnsKeeps
  <2>11. CASE \E o \in Results!Outcomes : Results!Recognized(o)
    BY <1>2, <2>1, <2>11, RecognizedKeeps
  <2> QED
    BY <1>4, <2>2, <2>3, <2>4, <2>5, <2>6, <2>7, <2>8, <2>9, <2>10, <2>11 DEF Results!Next
<1>5. UNCHANGED resultVars \/ Results!Next
  BY <1>1 DEF PartsNext
<1> QED BY <1>3, <1>4, <1>5

LEMMA ResultsInvariant == PartsSpec => []ResultsInv
<1>1. ResultsInv /\ [PartsNext]_<<part, phase, assetVars, rasterVars, ofPixels, resultVars, vars>>
        => ResultsInv'
  BY ResultsStep
<1> QED BY ResultsInit, <1>1, PTL DEF PartsSpec

(* Whatever the pipeline answers and whenever the job is stopped: no update  *)
(* is refused by the job's own validator; a summary counts what the stream   *)
(* told, exactly when the pages all ended; and a page's last snapshot        *)
(* repeats the updates told of it right before.                              *)
THEOREM StreamTellsOneStory == PartsSpec => []ResultsAgree
<1> SUFFICES ASSUME ResultsInv PROVE ResultsAgree
  BY ResultsInvariant, PTL
<1> SUFFICES ASSUME StoryInv
             PROVE  /\ Results!TypeOK /\ Results!NeverRefused
                    /\ Results!SummaryTellsStream /\ Results!SnapshotTellsUpdates
  BY DEF ResultsInv, ResultsAgree
<1>1. Results!TypeOK
  <2>1. \A f \in DOMAIN counts : counts[f] \in Nat
    BY DEF StoryInv, StoryTypes, Counts
  <2>2. pc = "recognize" => formula <= Len(page.formulas)
    BY DEF StoryInv, Assembly
  <2> QED BY <2>1, <2>2 DEF Results!TypeOK, StoryInv, StoryTypes, Codes
<1>2. Results!NeverRefused
  BY DEF Results!NeverRefused, StoryInv, StoryTypes
<1>3. Results!SummaryTellsStream
  <2> SUFFICES ASSUME NEW i \in Results!Updates("DocumentFinished")
               PROVE  LET c == stream[i].counts
                          told == <<Results!Cardinality(Results!Updates("PageFinished")),
                                    Results!Cardinality(Results!Updates("PageFailed")),
                                    Results!Cardinality(Results!Told("recognized")),
                                    Results!Cardinality(Results!Told("failed")),
                                    Results!Cardinality(Results!Told("truncated"))>>
                          counted == <<c.pages, c.pagesFailed, c.recognized, c.failed,
                                       c.truncated>>
                      IN  IF stream[i].status \in {"completed", "partial"} THEN told = counted
                          ELSE \A k \in 1 .. 5 : told[k] <= counted[k]
    BY DEF Results!SummaryTellsStream
  <2>0. /\ \A type : Results!Updates(type) = Typed(stream, type)
        /\ \A is : Results!Told(is) = Ending(stream, is)
    BY DEF Results!Updates, Results!Told, Typed, Ending
  <2>a. \A S : Results!Cardinality(S) = Cardinality(S)
    BY DEF Results!Cardinality, Cardinality
  <2> DEFINE t == Tally(stream)
  <2>1. /\ pc = "done" /\ stream[i].counts = counts /\ stream[i].status = Results!Status
    BY <2>0 DEF StoryInv, Summarized
  <2>2. stream[i].status \in {"completed", "partial"} => error = Nothing
    BY <2>1 DEF Results!Status, Results!StatusByStop
  <2>3. Below(t, counts) /\ (error = Nothing => Tells(t, counts, FALSE))
    <3>1. (pc = "last") = FALSE
      BY <2>1
    <3> QED BY <3>1 DEF StoryInv, Tallied
  <2>4. /\ t.pages = Results!Cardinality(Results!Updates("PageFinished"))
        /\ t.pagesFailed = Results!Cardinality(Results!Updates("PageFailed"))
        /\ t.recognized = Results!Cardinality(Results!Told("recognized"))
        /\ t.failed = Results!Cardinality(Results!Told("failed"))
        /\ t.truncated = Results!Cardinality(Results!Told("truncated"))
    BY <2>0, <2>a DEF Tally
  <2>5. counts \in Counts
    BY DEF StoryInv, StoryTypes
  <2> HIDE DEF t
  <2>6. ASSUME error = Nothing
        PROVE  /\ t.pages = counts.pages /\ t.pagesFailed = counts.pagesFailed
               /\ t.recognized = counts.recognized /\ t.failed = counts.failed
               /\ t.truncated = counts.truncated
    BY <2>3, <2>5, <2>6, CountFields DEF Tells
  <2>7. /\ t.pages <= counts.pages /\ t.pagesFailed <= counts.pagesFailed
        /\ t.recognized <= counts.recognized /\ t.failed <= counts.failed
        /\ t.truncated <= counts.truncated
    BY <2>3 DEF Below
  <2>8. CASE stream[i].status \in {"completed", "partial"}
    BY <2>1, <2>2, <2>4, <2>6, <2>8
  <2>9. CASE stream[i].status \notin {"completed", "partial"}
    BY <2>1, <2>4, <2>7, <2>9
  <2> QED BY <2>8, <2>9
<1>4. Results!SnapshotTellsUpdates
  BY DEF Results!SnapshotTellsUpdates, Results!Updates, StoryInv, Snapshots, Typed, Follows,
         FollowsWith, FormulasTold
<1> QED BY <1>1, <1>2, <1>3, <1>4

-----------------------------------------------------------------------------
(* The streamed resize of LayoutResampling, for every raster and output size.*)
(* Quotients first: where the centre of an output row falls.                 *)
LEMMA Quotient ==
  ASSUME NEW a \in Int, NEW d \in Nat \ {0}
  PROVE  /\ a \div d \in Int /\ d * (a \div d) <= a /\ a < d * (a \div d) + d
  OBVIOUS

LEMMA ProductGrows ==
  ASSUME NEW d \in Nat \ {0}, NEW p \in Int, NEW q \in Int, p < q
  PROVE  d * p + d <= d * q
<1>1. q - p - 1 >= 0 /\ d >= 0
  OBVIOUS
<1>2. d * (q - p - 1) >= 0
  BY <1>1
<1>3. d * (q - p - 1) = d * q - d * p - d
  OBVIOUS
<1> QED BY <1>2, <1>3

LEMMA QuotientGrows ==
  ASSUME NEW a \in Int, NEW b \in Int, NEW d \in Nat \ {0}, a <= b
  PROVE  a \div d <= b \div d
<1> SUFFICES ASSUME b \div d < a \div d PROVE FALSE
  BY Quotient
<1>1. d * (b \div d) + d <= d * (a \div d)
  BY Quotient, ProductGrows
<1>2. d * (a \div d) <= a /\ b < d * (b \div d) + d
  BY Quotient
<1>3. d * (a \div d) \in Int /\ d * (b \div d) \in Int
  BY Quotient
<1> QED BY <1>1, <1>2, <1>3

LEMMA QuotientAbove ==
  ASSUME NEW a \in Int, NEW d \in Nat \ {0}, a >= -d
  PROVE  a \div d >= -1
<1>1. (-d) \div d = -1
  OBVIOUS
<1> QED BY <1>1, QuotientGrows

(* The tap of output row i, when n rows become m: its centre, its first row, *)
(* and the row after its last.                                               *)
Centre(n, m, i) == LET c == (n * (2 * i + 1) - m) \div (2 * m) IN IF c <= n - 1 THEN c ELSE n - 1
FirstOf(n, m, i) == IF Centre(n, m, i) >= 1 THEN Centre(n, m, i) - 1 ELSE 0
EndOf(n, m, i) == IF Centre(n, m, i) + 3 <= n THEN Centre(n, m, i) + 3 ELSE n

LEMMA CentreInside ==
  ASSUME NEW n \in Nat \ {0}, NEW m \in Nat \ {0}, NEW i \in Nat
  PROVE  Centre(n, m, i) \in -1 .. n - 1
<1> DEFINE a == n * (2 * i + 1) - m
           c == a \div (2 * m)
<1>1. 2 * m \in Nat \ {0} /\ a \in Int
  OBVIOUS
<1>2. a >= -(2 * m)
  <2>1. n * (2 * i + 1) \in Nat
    OBVIOUS
  <2> HIDE DEF a
  <2>2. a = n * (2 * i + 1) - m
    BY DEF a
  <2> QED BY <2>1, <2>2
<1>3. c \in Int /\ c >= -1
  <2> HIDE DEF a
  <2> QED BY <1>1, <1>2, Quotient, QuotientAbove
<1>4. Centre(n, m, i) = IF c <= n - 1 THEN c ELSE n - 1
  BY DEF Centre
<1> HIDE DEF c, a
<1> QED BY <1>3, <1>4

LEMMA CentreGrows ==
  ASSUME NEW n \in Nat \ {0}, NEW m \in Nat \ {0}, NEW i \in Nat
  PROVE  Centre(n, m, i) <= Centre(n, m, i + 1)
<1> DEFINE a == n * (2 * i + 1) - m
           b == n * (2 * (i + 1) + 1) - m
           c == a \div (2 * m)
           d == b \div (2 * m)
<1>1. 2 * m \in Nat \ {0} /\ a \in Int /\ b \in Int
  OBVIOUS
<1>2. a <= b
  <2>1. b = a + 2 * n
    OBVIOUS
  <2> HIDE DEF a, b
  <2> QED BY <1>1, <2>1
<1>3. c \in Int /\ d \in Int /\ c <= d
  <2> HIDE DEF a, b
  <2> QED BY <1>1, <1>2, Quotient, QuotientGrows
<1>4. /\ Centre(n, m, i) = IF c <= n - 1 THEN c ELSE n - 1
      /\ Centre(n, m, i + 1) = IF d <= n - 1 THEN d ELSE n - 1
  BY DEF Centre
<1> HIDE DEF c, d
<1> QED BY <1>3, <1>4

LEMMA TapInside ==
  ASSUME NEW n \in Nat \ {0}, NEW m \in Nat \ {0}, NEW i \in Nat
  PROVE  /\ FirstOf(n, m, i) \in 0 .. n - 1 /\ EndOf(n, m, i) \in 1 .. n
         /\ FirstOf(n, m, i) < EndOf(n, m, i) /\ EndOf(n, m, i) <= FirstOf(n, m, i) + 4
         /\ FirstOf(n, m, i) <= FirstOf(n, m, i + 1) /\ EndOf(n, m, i) <= EndOf(n, m, i + 1)
<1> DEFINE c == Centre(n, m, i)
           d == Centre(n, m, i + 1)
<1>1. c \in -1 .. n - 1 /\ d \in -1 .. n - 1 /\ c <= d
  BY CentreInside, CentreGrows
<1>2. /\ FirstOf(n, m, i) = (IF c >= 1 THEN c - 1 ELSE 0)
      /\ FirstOf(n, m, i + 1) = (IF d >= 1 THEN d - 1 ELSE 0)
      /\ EndOf(n, m, i) = (IF c + 3 <= n THEN c + 3 ELSE n)
      /\ EndOf(n, m, i + 1) = (IF d + 3 <= n THEN d + 3 ELSE n)
  BY DEF FirstOf, EndOf
<1> HIDE DEF c, d
<1>3. FirstOf(n, m, i) \in 0 .. n - 1 /\ EndOf(n, m, i) \in 1 .. n
  BY <1>1, <1>2
<1>4. FirstOf(n, m, i) < EndOf(n, m, i) /\ EndOf(n, m, i) <= FirstOf(n, m, i) + 4
  BY <1>1, <1>2
<1>5. FirstOf(n, m, i) <= FirstOf(n, m, i + 1)
  BY <1>1, <1>2
<1>6. EndOf(n, m, i) <= EndOf(n, m, i + 1)
  BY <1>1, <1>2
<1> QED BY <1>3, <1>4, <1>5, <1>6

(* The taps of the code.                                                     *)
LEMMA RasterMin ==
  ASSUME NEW a \in Int, NEW b \in Int
  PROVE  Raster!Min({a, b}) = (IF a <= b THEN a ELSE b)
  BY DEF Raster!Min

LEMMA RasterMax ==
  ASSUME NEW a \in Int, NEW b \in Int
  PROVE  Raster!Max({a, b}) = (IF a >= b THEN a ELSE b)
  BY DEF Raster!Max

LEMMA RasterClamp ==
  ASSUME NEW v \in Int, NEW a \in Int, NEW b \in Int, a <= b
  PROVE  Raster!Clamp(v, a, b) = IF v <= a THEN a ELSE IF v >= b THEN b ELSE v
<1>1. Raster!Min({v, b}) \in Int /\ Raster!Min({v, b}) = (IF v <= b THEN v ELSE b)
  BY RasterMin
<1> QED BY <1>1, RasterMax DEF Raster!Clamp

LEMMA TapOfCode ==
  ASSUME size \in Nat \ {0}, side \in Nat \ {0}, NEW i \in Nat
  PROVE  /\ Raster!Index(i) = Centre(size, side, i)
         /\ Raster!Start(i) = FirstOf(size, side, i)
         /\ Raster!Length(i) = EndOf(size, side, i) - FirstOf(size, side, i)
<1> DEFINE c == (size * (2 * i + 1) - side) \div (2 * side)
           k == Centre(size, side, i)
           f == FirstOf(size, side, i)
           e == EndOf(size, side, i)
<1>1. k \in -1 .. size - 1 /\ f \in 0 .. size - 1 /\ e \in 1 .. size /\ f < e /\ e <= f + 4
  BY CentreInside, TapInside
<1>2. c \in Int /\ size - 1 \in Int
  <2>1. 2 * side \in Nat \ {0} /\ size * (2 * i + 1) - side \in Int
    OBVIOUS
  <2> QED BY <2>1, Quotient
<1>3. Raster!Index(i) = k
  <2>1. Raster!Index(i) = Raster!Min({c, size - 1})
    BY DEF Raster!Index
  <2>2. k = IF c <= size - 1 THEN c ELSE size - 1
    BY DEF Centre
  <2> HIDE DEF c, k
  <2> QED BY <1>2, <2>1, <2>2, RasterMin
<1>4. Raster!Start(i) = f
  <2>1. Raster!Start(i) = Raster!Max({k - 1, 0})
    BY <1>3 DEF Raster!Start
  <2>2. f = IF k >= 1 THEN k - 1 ELSE 0
    BY DEF FirstOf
  <2> HIDE DEF k, f
  <2>3. k - 1 \in Int
    BY <1>1
  <2> QED BY <1>1, <2>1, <2>2, <2>3, RasterMax
<1>5. Raster!Length(i) = e - f
  <2>1. Raster!Length(i) = Raster!Clamp(Raster!Min({k + 3, size}) - f, 0, 4)
    BY <1>3, <1>4 DEF Raster!Length
  <2>2. e = IF k + 3 <= size THEN k + 3 ELSE size
    BY DEF EndOf
  <2> HIDE DEF k, f, e
  <2>3. Raster!Min({k + 3, size}) = e
    BY <1>1, <2>2, RasterMin
  <2>4. Raster!Clamp(e - f, 0, 4) = e - f
    BY <1>1, RasterClamp
  <2> QED BY <2>1, <2>3, <2>4
<1> QED BY <1>3, <1>4, <1>5

(* Where each of the four positions weighs: on its row, or on the edge row.  *)
LEMMA DestOfCode ==
  ASSUME size \in Nat \ {0}, side \in Nat \ {0}, NEW i \in Nat, NEW j \in 0 .. 3
  PROVE  /\ Raster!Dest(i)[j] \in 0 .. Raster!Length(i) - 1
         /\ Raster!Start(i) + Raster!Dest(i)[j]
              = Raster!Clamp(Raster!Index(i) - 1 + j, 0, size - 1)
<1> DEFINE k == Centre(size, side, i)
           f == FirstOf(size, side, i)
           e == EndOf(size, side, i)
           step(g) == [h \in 0 .. 3 |-> IF k - 1 + h <= 0 THEN 0
                                        ELSE IF k - 1 + h >= size - 1 THEN e - f - 1
                                        ELSE IF h = 0 THEN 0 ELSE g[h - 1] + 1]
           fixed == [h \in 0 .. 3 |-> IF k - 1 + h <= 0 THEN 0
                                      ELSE IF k - 1 + h >= size - 1 THEN e - f - 1
                                      ELSE k - 1 + h - f]
<1>1. k \in -1 .. size - 1 /\ f \in 0 .. size - 1 /\ e \in 1 .. size /\ f < e /\ e <= f + 4
  BY CentreInside, TapInside
<1>2. f = (IF k >= 1 THEN k - 1 ELSE 0) /\ e = (IF k + 3 <= size THEN k + 3 ELSE size)
  BY DEF FirstOf, EndOf
<1>3. Raster!Index(i) = k /\ Raster!Start(i) = f /\ Raster!Length(i) = e - f
  BY TapOfCode
<1>4. Raster!Dest(i) = CHOOSE g : g = step(g)
  BY <1>3 DEF Raster!Dest, Raster!Slots
<1> HIDE DEF k, f, e
<1>5. fixed = step(fixed)
  <2> SUFFICES ASSUME NEW h \in 0 .. 3 PROVE fixed[h] = step(fixed)[h]
    OBVIOUS
  <2>1. CASE k - 1 + h <= 0 \/ k - 1 + h >= size - 1
    BY <2>1
  <2>2. CASE ~(k - 1 + h <= 0) /\ ~(k - 1 + h >= size - 1) /\ h = 0
    BY <1>1, <1>2, <2>2
  <2>3. CASE ~(k - 1 + h <= 0) /\ ~(k - 1 + h >= size - 1) /\ h # 0
    <3>1. h - 1 \in 0 .. 3 /\ ~(k - 1 + (h - 1) >= size - 1)
      BY <1>1, <2>3
    <3>2. step(fixed)[h] = fixed[h - 1] + 1 /\ fixed[h] = k - 1 + h - f
      BY <2>3
    <3>3. CASE k - 1 + (h - 1) <= 0
      <4>1. fixed[h - 1] = 0
        BY <3>1, <3>3
      <4>2. k - 1 + h = 1 /\ f = 0
        BY <1>1, <1>2, <2>3, <3>3
      <4> QED BY <3>2, <4>1, <4>2
    <3>4. CASE ~(k - 1 + (h - 1) <= 0)
      <4>1. fixed[h - 1] = k - 1 + (h - 1) - f
        BY <3>1, <3>4
      <4> HIDE DEF fixed, step
      <4> QED BY <1>1, <3>2, <4>1
    <3> QED BY <3>3, <3>4
  <2> QED BY <2>1, <2>2, <2>3
<1>6. Raster!Dest(i) = step(Raster!Dest(i))
  <2> HIDE DEF fixed, step
  <2> QED BY <1>4, <1>5
<1> DEFINE D == Raster!Dest(i)
           Right(h) == /\ D[h] \in 0 .. e - f - 1
                       /\ f + D[h] = (IF k - 1 + h <= 0 THEN 0
                                      ELSE IF k - 1 + h >= size - 1 THEN size - 1 ELSE k - 1 + h)
<1>7. ASSUME NEW h \in 0 .. 3, h # 0 => Right(h - 1)
      PROVE  Right(h)
  <2>1. D[h] = (IF k - 1 + h <= 0 THEN 0
                ELSE IF k - 1 + h >= size - 1 THEN e - f - 1
                ELSE IF h = 0 THEN 0 ELSE D[h - 1] + 1)
    BY <1>6
  <2> HIDE DEF D
  <2>2. CASE k - 1 + h <= 0
    <3>1. D[h] = 0 /\ f = 0
      BY <1>1, <1>2, <2>1, <2>2
    <3> QED BY <1>1, <2>2, <3>1
  <2>3. CASE ~(k - 1 + h <= 0) /\ k - 1 + h >= size - 1
    <3>1. D[h] = e - f - 1 /\ e = size
      BY <1>1, <1>2, <2>1, <2>3
    <3> QED BY <1>1, <2>3, <3>1
  <2>4. CASE ~(k - 1 + h <= 0) /\ ~(k - 1 + h >= size - 1) /\ h = 0
    <3>1. D[h] = 0 /\ f = k - 1
      BY <1>1, <1>2, <2>1, <2>4
    <3> QED BY <1>1, <2>4, <3>1
  <2>5. CASE ~(k - 1 + h <= 0) /\ ~(k - 1 + h >= size - 1) /\ h # 0
    <3>1. D[h] = D[h - 1] + 1 /\ Right(h - 1)
      BY <1>7, <2>1, <2>5
    <3>2. f + D[h - 1] = k - 1 + (h - 1) /\ D[h - 1] \in 0 .. e - f - 1
      BY <1>1, <2>5, <3>1
    <3>3. k - 1 + h < e
      BY <1>1, <1>2, <2>5
    <3>4. f + D[h] = k - 1 + h /\ D[h] \in Nat
      <4>1. D[h] = D[h - 1] + 1 /\ D[h - 1] \in Nat
        BY <1>1, <3>1, <3>2
      <4>2. f \in Nat /\ k \in Int
        BY <1>1
      <4>3. f + (D[h - 1] + 1) = k - 1 + h
        BY <3>2, <4>1, <4>2
      <4> QED BY <4>1, <4>3
    <3> QED BY <1>1, <2>5, <3>3, <3>4
  <2> QED BY <2>2, <2>3, <2>4, <2>5
<1> HIDE DEF Right
<1>8. Right(0)
  BY <1>7
<1>9. Right(1)
  <2>1. 1 \in 0 .. 3 /\ 1 - 1 = 0
    OBVIOUS
  <2> QED BY <1>7, <1>8, <2>1
<1>10. Right(2)
  <2>1. 2 \in 0 .. 3 /\ 2 - 1 = 1
    OBVIOUS
  <2> QED BY <1>7, <1>9, <2>1
<1>11. Right(3)
  <2>1. 3 \in 0 .. 3 /\ 3 - 1 = 2
    OBVIOUS
  <2> QED BY <1>7, <1>10, <2>1
<1>12. Right(j)
  <2>1. j = 0 \/ j = 1 \/ j = 2 \/ j = 3
    OBVIOUS
  <2> QED BY <1>8, <1>9, <1>10, <1>11, <2>1
<1>13. k - 1 + j \in Int /\ 0 <= size - 1 /\ size - 1 \in Int
  BY <1>1
<1>14. Raster!Clamp(k - 1 + j, 0, size - 1)
         = (IF k - 1 + j <= 0 THEN 0 ELSE IF k - 1 + j >= size - 1 THEN size - 1 ELSE k - 1 + j)
  BY <1>13, RasterClamp
<1> QED BY <1>3, <1>12, <1>14 DEF Right

(* The inductive invariant of the streamed resize.  Rows are fetched in      *)
(* their order; those from the start of the tap to the last one fetched are  *)
(* all in the ring, each in its slot.                                        *)
TapFirst(i) == FirstOf(size, side, i)
TapEnd(i) == EndOf(size, side, i)
Last == IF Len(fetched) = 0 THEN -1 ELSE fetched[Len(fetched)]
RasterTypes ==
    /\ side \in Nat \ {0} /\ size \in Nat \ {0} /\ y \in Nat /\ reading \in Nat
    /\ rows \in [0 .. 3 -> (0 .. size - 1) \cup {Nothing}]
    /\ IsSequence(fetched) /\ IsSequence(output) /\ Len(output) = y
Increasing ==
    \A k \in 1 .. Len(fetched) : /\ fetched[k] \in 0 .. size - 1
                                 /\ \A l \in 1 .. k - 1 : fetched[l] < fetched[k]
Ring ==
    /\ Last < TapEnd(y) /\ TapFirst(y) + reading <= TapEnd(y)
    /\ reading = 0 \/ TapFirst(y) + reading - 1 <= Last
    /\ \A r \in TapFirst(y) .. Last : rows[r % 4] = r
    /\ \A slot \in 0 .. 3 : rows[slot] = Nothing \/ rows[slot] <= Last
Drawn ==
    \A i \in 1 .. Len(output) :
      output[i] = [j \in 1 .. TapEnd(i - 1) - TapFirst(i - 1) |-> TapFirst(i - 1) + j - 1]
RingInv == RasterTypes /\ Increasing /\ Ring /\ Drawn
RasterInv == part = "raster" => RingInv

LEMMA LastFetched ==
  ASSUME RasterTypes, Increasing
  PROVE  /\ Len(fetched) \in Nat /\ Last \in -1 .. size - 1
         /\ \A k \in 1 .. Len(fetched) : fetched[k] \in Int /\ fetched[k] <= Last
<1>1. Len(fetched) \in Nat /\ size \in Nat \ {0}
  BY SequenceFacts DEF RasterTypes
<1>2. CASE Len(fetched) = 0
  BY <1>1, <1>2 DEF Last
<1>3. CASE Len(fetched) # 0
  <2> DEFINE n == Len(fetched)
  <2>1. n \in 1 .. n /\ Last = fetched[n]
    BY <1>1, <1>3 DEF Last
  <2>2. fetched[n] \in 0 .. size - 1 /\ \A l \in 1 .. n - 1 : fetched[l] < fetched[n]
    BY <2>1 DEF Increasing
  <2>3. \A k \in 1 .. n : fetched[k] \in Int /\ fetched[k] <= fetched[n]
    <3> SUFFICES ASSUME NEW k \in 1 .. n PROVE fetched[k] \in Int /\ fetched[k] <= fetched[n]
      OBVIOUS
    <3>1. fetched[k] \in 0 .. size - 1
      BY DEF Increasing
    <3>2. k = n \/ k \in 1 .. n - 1
      BY <1>1
    <3>3. fetched[k] \in Int /\ fetched[n] \in Int
      BY <1>1, <2>2, <3>1
    <3> QED BY <2>2, <3>2, <3>3
  <2> QED BY <1>1, <2>1, <2>2, <2>3
<1> QED BY <1>2, <1>3

LEMMA SlotsDiffer ==
  ASSUME NEW r \in Nat, NEW w \in Nat
  PROVE  r % 4 \in 0 .. 3 /\ (r < w /\ w < r + 4 => r % 4 # w % 4)
  OBVIOUS

LEMMA RasterStart == PartsInit => RasterInv
<1> SUFFICES ASSUME part = "raster", Raster!Init PROVE RingInv
  BY DEF PartsInit, RasterInv
<1>1. /\ side \in Nat \ {0} /\ size \in Nat \ {0} /\ y = 0 /\ reading = 0
      /\ rows = [slot \in 0 .. 3 |-> Nothing] /\ fetched = <<>> /\ output = <<>>
  BY PartsAssumption DEF Raster!Init, Raster!Slots
<1>2. /\ IsSequence(fetched) /\ Len(fetched) = 0 /\ IsSequence(output) /\ Len(output) = 0
  BY <1>1, EmptyStream
<1>3. RasterTypes
  BY <1>1, <1>2 DEF RasterTypes
<1>4. Increasing /\ Drawn
  BY <1>2 DEF Increasing, Drawn
<1>5. Last = -1
  BY <1>2 DEF Last
<1>6. TapFirst(0) \in Nat /\ TapEnd(0) \in Nat /\ TapFirst(0) < TapEnd(0)
  <2>1. /\ TapFirst(0) \in 0 .. size - 1 /\ TapEnd(0) \in 1 .. size
        /\ TapFirst(0) < TapEnd(0)
    BY <1>1, TapInside DEF TapFirst, TapEnd
  <2> QED BY <1>1, <2>1
<1>7. Ring
  BY <1>1, <1>5, <1>6 DEF Ring
<1> QED BY <1>3, <1>4, <1>7 DEF RingInv

(* The tap of the row being made.                                            *)
LEMMA TapNow ==
  ASSUME RasterTypes, NEW i \in Nat
  PROVE  /\ TapFirst(i) \in Nat /\ TapEnd(i) \in Nat /\ TapEnd(i) <= size
         /\ TapFirst(i) < TapEnd(i) /\ TapEnd(i) <= TapFirst(i) + 4
         /\ TapFirst(i) <= TapFirst(i + 1) /\ TapEnd(i) <= TapEnd(i + 1)
         /\ Raster!Start(i) = TapFirst(i) /\ Raster!Length(i) = TapEnd(i) - TapFirst(i)
<1>1. size \in Nat \ {0} /\ side \in Nat \ {0}
  BY DEF RasterTypes
<1>2. /\ TapFirst(i) \in 0 .. size - 1 /\ TapEnd(i) \in 1 .. size
      /\ TapFirst(i) < TapEnd(i) /\ TapEnd(i) <= TapFirst(i) + 4
      /\ TapFirst(i) <= TapFirst(i + 1) /\ TapEnd(i) <= TapEnd(i + 1)
  BY <1>1, TapInside DEF TapFirst, TapEnd
<1>3. Raster!Start(i) = TapFirst(i) /\ Raster!Length(i) = TapEnd(i) - TapFirst(i)
  BY <1>1, TapOfCode DEF TapFirst, TapEnd
<1>4. TapFirst(i) \in Nat /\ TapEnd(i) \in Nat /\ TapEnd(i) <= size
  BY <1>1, <1>2
<1> QED BY <1>2, <1>3, <1>4

LEMMA FetchKeeps ==
  ASSUME RingInv, Raster!Fetch
  PROVE  RingInv'
<1> DEFINE f == TapFirst(y)
           e == TapEnd(y)
           w == f + reading
<1>1. /\ RasterTypes /\ y \in Nat /\ reading \in Nat /\ size \in Nat \ {0}
      /\ rows \in [0 .. 3 -> (0 .. size - 1) \cup {Nothing}] /\ IsSequence(fetched)
  BY DEF RingInv, RasterTypes
<1>2. /\ f \in Nat /\ e \in Nat /\ e <= size /\ f < e /\ e <= f + 4
      /\ Raster!Start(y) = f /\ Raster!Length(y) = e - f
  BY <1>1, TapNow
<1>3. /\ reading < e - f /\ reading' = reading + 1
      /\ UNCHANGED <<side, size, y, output>>
      /\ \/ rows[w % 4] = w /\ rows' = rows /\ fetched' = fetched
         \/ /\ rows[w % 4] # w
            /\ rows' = [rows EXCEPT ![w % 4] = w] /\ fetched' = Append(fetched, w)
  BY <1>2 DEF Raster!Fetch, Raster!Cached, Raster!Wanted, Raster!Slot
<1>4. f' = f /\ e' = e
  BY <1>3 DEF TapFirst, TapEnd
<1>5. /\ Len(fetched) \in Nat /\ Last \in -1 .. size - 1
      /\ \A k \in 1 .. Len(fetched) : fetched[k] \in Int /\ fetched[k] <= Last
  BY LastFetched DEF RingInv
<1>6. /\ Last < e /\ (reading = 0 \/ f + reading - 1 <= Last)
      /\ \A r \in f .. Last : rows[r % 4] = r
      /\ \A slot \in 0 .. 3 : rows[slot] = Nothing \/ rows[slot] <= Last
  BY DEF RingInv, Ring
<1> HIDE DEF f, e
<1>7. w \in Nat /\ w < e /\ w >= f /\ w \in 0 .. size - 1 /\ w % 4 \in 0 .. 3
  <2>1. w \in Nat /\ w < e /\ w >= f /\ w \in 0 .. size - 1
    BY <1>1, <1>2, <1>3
  <2> QED BY <2>1, SlotsDiffer
<1>8. f + reading' <= e /\ f + reading' - 1 = w
  BY <1>1, <1>2, <1>3
<1>9. Drawn'
  <2>1. \A i : TapFirst(i)' = TapFirst(i) /\ TapEnd(i)' = TapEnd(i)
    BY <1>3 DEF TapFirst, TapEnd
  <2> QED BY <1>3, <2>1 DEF RingInv, Drawn
<1>10. CASE rows[w % 4] = w /\ rows' = rows /\ fetched' = fetched
  <2>1. w <= Last
    <3>1. w # Nothing
      BY <1>7, PartsAssumption
    <3> QED BY <1>6, <1>7, <1>10, <3>1
  <2>2. Last' = Last
    BY <1>10 DEF Last
  <2>3. RasterTypes' /\ Increasing'
    BY <1>1, <1>3, <1>10 DEF RingInv, RasterTypes, Increasing
  <2>4. Ring'
    <3>1. f + reading' - 1 <= Last
      BY <1>8, <2>1
    <3> QED BY <1>3, <1>4, <1>6, <1>8, <1>10, <2>2, <3>1 DEF Ring, f, e
  <2> QED BY <1>9, <2>3, <2>4 DEF RingInv
<1>11. CASE /\ rows[w % 4] # w
            /\ rows' = [rows EXCEPT ![w % 4] = w] /\ fetched' = Append(fetched, w)
  <2>1. Last < w
    <3> SUFFICES ASSUME ~(Last < w) PROVE FALSE
      OBVIOUS
    <3>1. w \in f .. Last
      BY <1>2, <1>5, <1>7
    <3> QED BY <1>6, <1>11, <3>1
  <2>2. /\ IsSequence(fetched') /\ Len(fetched') = Len(fetched) + 1
        /\ \A k \in 1 .. Len(fetched) : fetched'[k] = fetched[k]
        /\ fetched'[Len(fetched) + 1] = w
    BY <1>1, <1>11, AppendFacts
  <2>3. Last' = w
    <3>1. Len(fetched') # 0 /\ fetched'[Len(fetched')] = w
      BY <1>5, <2>2
    <3> QED BY <3>1 DEF Last
  <2>4. /\ rows' \in [0 .. 3 -> (0 .. size - 1) \cup {Nothing}] /\ rows'[w % 4] = w
        /\ \A slot \in 0 .. 3 : slot # w % 4 => rows'[slot] = rows[slot]
    BY <1>1, <1>7, <1>11
  <2>5. RasterTypes'
    BY <1>1, <1>3, <2>2, <2>4 DEF RingInv, RasterTypes
  <2>6. Increasing'
    <3> SUFFICES ASSUME NEW k \in 1 .. Len(fetched')
                 PROVE  /\ fetched'[k] \in 0 .. size - 1
                        /\ \A l \in 1 .. k - 1 : fetched'[l] < fetched'[k]
      BY <1>3 DEF Increasing
    <3>1. CASE k \in 1 .. Len(fetched)
      <4>1. \A l \in 1 .. k - 1 : l \in 1 .. Len(fetched)
        BY <1>5, <3>1
      <4> QED BY <2>2, <3>1, <4>1 DEF RingInv, Increasing
    <3>2. CASE k = Len(fetched) + 1
      <4>1. \A l \in 1 .. k - 1 : l \in 1 .. Len(fetched)
        BY <1>5, <3>2
      <4>2. \A l \in 1 .. Len(fetched) : fetched[l] < w
        BY <1>5, <1>7, <2>1
      <4> QED BY <1>7, <2>2, <3>2, <4>1, <4>2
    <3> QED BY <1>5, <2>2, <3>1, <3>2
  <2>7. \A r \in f .. w : rows'[r % 4] = r
    <3> SUFFICES ASSUME NEW r \in f .. w, r # w PROVE rows'[r % 4] = r
      BY <2>4
    <3>1. r \in Nat /\ r < w /\ w < r + 4
      BY <1>2, <1>7
    <3>2. r % 4 \in 0 .. 3 /\ r % 4 # w % 4
      BY <1>7, <3>1, SlotsDiffer
    <3>3. reading # 0 /\ r \in f .. Last
      <4>1. reading # 0
        BY <1>1, <1>2, <3>1
      <4>2. f + reading - 1 <= Last
        BY <1>6, <4>1
      <4> QED BY <1>1, <1>2, <1>5, <3>1, <4>1, <4>2
    <3> QED BY <1>6, <2>4, <3>2, <3>3
  <2>8. \A slot \in 0 .. 3 : rows'[slot] = Nothing \/ rows'[slot] <= w
    <3> SUFFICES ASSUME NEW slot \in 0 .. 3, rows'[slot] # Nothing PROVE rows'[slot] <= w
      OBVIOUS
    <3>1. CASE slot = w % 4
      BY <1>7, <2>4, <3>1
    <3>2. CASE slot # w % 4
      <4>1. rows'[slot] = rows[slot] /\ rows[slot] <= Last /\ rows[slot] \in 0 .. size - 1
        BY <1>1, <1>6, <2>4, <3>2
      <4> QED BY <1>5, <1>7, <2>1, <4>1
    <3> QED BY <3>1, <3>2
  <2>9. Ring'
    <3>1. f + reading' - 1 <= w
      BY <1>7, <1>8
    <3> QED BY <1>3, <1>4, <1>7, <1>8, <2>3, <2>7, <2>8, <3>1 DEF Ring, f, e
  <2> QED BY <1>9, <2>5, <2>6, <2>9 DEF RingInv
<1> QED BY <1>3, <1>10, <1>11

LEMMA FinishKeeps ==
  ASSUME RingInv, Raster!Finish
  PROVE  RingInv'
<1> DEFINE f == TapFirst(y)
           e == TapEnd(y)
           line == [j \in 1 .. e - f |-> rows[(f + j - 1) % 4]]
<1>1. /\ RasterTypes /\ y \in Nat /\ reading \in Nat /\ size \in Nat \ {0}
      /\ IsSequence(output) /\ Len(output) = y
  BY DEF RingInv, RasterTypes
<1>2. /\ f \in Nat /\ e \in Nat /\ f < e /\ e <= f + 4
      /\ f <= TapFirst(y + 1) /\ e <= TapEnd(y + 1) /\ TapFirst(y + 1) \in Nat
      /\ TapEnd(y + 1) \in Nat /\ TapFirst(y + 1) < TapEnd(y + 1)
      /\ Raster!Start(y) = f /\ Raster!Length(y) = e - f
  <2>1. y + 1 \in Nat
    BY <1>1
  <2> QED BY <1>1, <2>1, TapNow
<1>3. /\ reading = e - f /\ output' = Append(output, line) /\ y' = y + 1 /\ reading' = 0
      /\ UNCHANGED <<side, size, rows, fetched>>
  BY <1>2 DEF Raster!Finish, Raster!Slot
<1>4. \A i : TapFirst(i)' = FirstOf(size, side, i) /\ TapEnd(i)' = EndOf(size, side, i)
  BY <1>3 DEF TapFirst, TapEnd
<1>5. Last \in Int /\ Last' = Last
  <2>1. Last \in -1 .. size - 1
    BY LastFetched DEF RingInv
  <2> QED BY <1>1, <1>3, <2>1 DEF Last
<1>6. /\ Last < e /\ (reading = 0 \/ f + reading - 1 <= Last)
      /\ \A r \in f .. Last : rows[r % 4] = r
      /\ \A slot \in 0 .. 3 : rows[slot] = Nothing \/ rows[slot] <= Last
  BY DEF RingInv, Ring
<1>7. line = [j \in 1 .. e - f |-> f + j - 1]
  <2>1. \A j \in 1 .. e - f : rows[(f + j - 1) % 4] = f + j - 1
    <3> HIDE DEF f, e
    <3> TAKE j \in 1 .. e - f
    <3>1. e - 1 <= Last
      BY <1>2, <1>3, <1>6
    <3>2. f + j - 1 \in f .. Last
      BY <1>2, <1>5, <3>1
    <3> QED BY <1>6, <3>2
  <2> HIDE DEF f, e
  <2> QED BY <2>1
<1> HIDE DEF line
<1>8. /\ IsSequence(output') /\ Len(output') = y + 1 /\ output'[y + 1] = line
      /\ \A i \in 1 .. y : output'[i] = output[i]
  BY <1>1, <1>3, AppendFacts
<1>9. Drawn'
  <2> SUFFICES ASSUME NEW i \in 1 .. y + 1
               PROVE  output'[i] = [j \in 1 .. TapEnd(i - 1) - TapFirst(i - 1) |->
                                      TapFirst(i - 1) + j - 1]
    BY <1>3, <1>8 DEF Drawn, TapEnd, TapFirst
  <2>1. CASE i = y + 1
    <3>1. i - 1 = y
      BY <1>1, <2>1
    <3> QED BY <1>7, <1>8, <2>1, <3>1
  <2>2. CASE i \in 1 .. y
    BY <1>1, <1>8, <2>2 DEF RingInv, Drawn
  <2> QED BY <1>1, <2>1, <2>2
<1>10. RasterTypes' /\ Increasing'
  <2>1. y' \in Nat /\ reading' \in Nat
    BY <1>1, <1>3
  <2> QED BY <1>1, <1>3, <1>8, <2>1 DEF RingInv, RasterTypes, Increasing
<1>11. Ring'
  <2>1. TapFirst(y)' = TapFirst(y + 1) /\ TapEnd(y)' = TapEnd(y + 1)
    BY <1>3 DEF TapFirst, TapEnd
  <2> HIDE DEF f, e
  <2>2. Last < TapEnd(y + 1) /\ TapFirst(y + 1) + 0 <= TapEnd(y + 1)
    BY <1>2, <1>5, <1>6
  <2>3. \A r \in TapFirst(y + 1) .. Last : r \in f .. Last
    BY <1>2, <1>5
  <2> QED BY <1>3, <1>5, <1>6, <2>1, <2>2, <2>3 DEF Ring
<1> QED BY <1>9, <1>10, <1>11 DEF RingInv

LEMMA RasterStep ==
  ASSUME RasterInv,
         [PartsNext]_<<part, phase, assetVars, rasterVars, ofPixels, resultVars, vars>>
  PROVE  RasterInv'
<1> SUFFICES ASSUME part' = "raster" PROVE RingInv'
  BY DEF RasterInv
<1>1. part = "raster"
  BY DEF PartsNext
<1>2. RingInv
  BY <1>1 DEF RasterInv
<1>3. CASE UNCHANGED rasterVars
  <2>1. UNCHANGED <<side, size, y, reading, rows, fetched, output>>
    BY <1>3 DEF rasterVars
  <2>2. \A i : TapFirst(i)' = TapFirst(i) /\ TapEnd(i)' = TapEnd(i)
    BY <2>1 DEF TapFirst, TapEnd
  <2>3. Last' = Last /\ TapFirst(y)' = TapFirst(y) /\ TapEnd(y)' = TapEnd(y)
    BY <2>1 DEF Last, TapFirst, TapEnd
  <2>4. RasterTypes' /\ Increasing'
    BY <1>2, <2>1 DEF RingInv, RasterTypes, Increasing
  <2>5. Ring' /\ Drawn'
    BY <1>2, <2>1, <2>2, <2>3 DEF RingInv, Ring, Drawn
  <2> QED BY <2>4, <2>5 DEF RingInv
<1>4. CASE Raster!Fetch
  BY <1>2, <1>4, FetchKeeps
<1>5. CASE Raster!Finish
  BY <1>2, <1>5, FinishKeeps
<1>6. UNCHANGED rasterVars \/ Raster!Fetch \/ Raster!Finish
  BY <1>1 DEF PartsNext, Raster!Next
<1> QED BY <1>3, <1>4, <1>5, <1>6

LEMMA RasterInvariant == PartsSpec => []RasterInv
<1>1. RasterInv /\ [PartsNext]_<<part, phase, assetVars, rasterVars, ofPixels, resultVars, vars>>
        => RasterInv'
  BY RasterStep
<1> QED BY RasterStart, <1>1, PTL DEF PartsSpec

(* For every raster and output size: each row the layout model is shown is   *)
(* made of rows that exist, exactly those of its tap and none overwritten in *)
(* the ring of four; no row is resized twice; and each cubic position weighs *)
(* on the row it falls on, or beyond the border on the row at the border.    *)
THEOREM EveryRowIsResizedRight ==
  PartsSpec => [](part = "raster" => /\ Raster!RowsExist /\ Raster!UsesItsRows
                                     /\ Raster!ResizedOnce /\ Raster!RepeatsTheBorder)
<1> SUFFICES ASSUME RasterInv, part = "raster"
             PROVE  /\ Raster!RowsExist /\ Raster!UsesItsRows
                    /\ Raster!ResizedOnce /\ Raster!RepeatsTheBorder
  BY RasterInvariant, PTL
<1>1. RingInv /\ RasterTypes /\ Increasing /\ Drawn
  BY DEF RasterInv, RingInv
<1>2. /\ Len(fetched) \in Nat /\ DOMAIN fetched = 1 .. Len(fetched)
      /\ Len(output) \in Nat /\ DOMAIN output = 1 .. Len(output)
  BY <1>1, SequenceFacts DEF RasterTypes
<1>3. ASSUME NEW i \in DOMAIN output
      PROVE  /\ i - 1 \in Nat /\ TapFirst(i - 1) \in Nat /\ TapEnd(i - 1) \in Nat
             /\ TapFirst(i - 1) < TapEnd(i - 1)
             /\ Raster!Start(i - 1) = TapFirst(i - 1)
             /\ Raster!Length(i - 1) = TapEnd(i - 1) - TapFirst(i - 1)
             /\ output[i] = [j \in 1 .. TapEnd(i - 1) - TapFirst(i - 1) |->
                               TapFirst(i - 1) + j - 1]
  <2>1. i \in 1 .. Len(output) /\ i - 1 \in Nat
    BY <1>2
  <2> QED BY <1>1, <2>1, TapNow DEF Drawn
<1>4. Raster!RowsExist
  <2>1. \A row \in Raster!ToSet(fetched) : row \in 0 .. size - 1
    BY <1>1, <1>2 DEF Raster!ToSet, Increasing
  <2>2. ASSUME NEW i \in DOMAIN output PROVE output[i] # <<>>
    <3>1. 1 \in DOMAIN output[i]
      BY <1>3
    <3>2. DOMAIN <<>> = {}
      OBVIOUS
    <3> QED BY <3>1, <3>2
  <2> QED BY <2>1, <2>2 DEF Raster!RowsExist
<1>5. Raster!UsesItsRows
  BY <1>3 DEF Raster!UsesItsRows
<1>6. Raster!ResizedOnce
  <2> SUFFICES ASSUME NEW a \in DOMAIN fetched, NEW b \in DOMAIN fetched, fetched[a] = fetched[b]
               PROVE  a = b
    BY DEF Raster!ResizedOnce, Raster!IsInjective
  <2>1. \A k \in 1 .. Len(fetched) : fetched[k] \in Int
    BY <1>1, LastFetched
  <2>2. a \in 1 .. b - 1 \/ b \in 1 .. a - 1 \/ a = b
    BY <1>2
  <2>3. ~(a \in 1 .. b - 1) /\ ~(b \in 1 .. a - 1)
    <3>1. a \in 1 .. b - 1 => fetched[a] < fetched[b]
      BY <1>1, <1>2 DEF Increasing
    <3>2. b \in 1 .. a - 1 => fetched[b] < fetched[a]
      BY <1>1, <1>2 DEF Increasing
    <3> QED BY <1>2, <2>1, <3>1, <3>2
  <2> QED BY <2>2, <2>3
<1>7. Raster!RepeatsTheBorder
  <2> SUFFICES ASSUME NEW i \in DOMAIN output, NEW j \in 0 .. 3
               PROVE  /\ Raster!Dest(i - 1)[j] \in 0 .. Raster!Length(i - 1) - 1
                      /\ Raster!Start(i - 1) + Raster!Dest(i - 1)[j]
                           = Raster!Clamp(Raster!Index(i - 1) - 1 + j, 0, size - 1)
    BY DEF Raster!RepeatsTheBorder, Raster!Slots
  <2>1. i - 1 \in Nat /\ size \in Nat \ {0} /\ side \in Nat \ {0}
    BY <1>1, <1>3 DEF RasterTypes
  <2> QED BY <2>1, DestOfCode
<1> QED BY <1>4, <1>5, <1>6, <1>7

-----------------------------------------------------------------------------
(* The crop of a formula, for every page map, bounds and raster.             *)
(* Every set of integers with a bound has its least or greatest member.      *)
LEMMA LeastNatural ==
  ASSUME NEW S, S \subseteq Nat, S # {}
  PROVE  \E x \in S : \A z \in S : x <= z
<1>1. PICK x \in S : \A z \in S : <<z, x>> \notin OpToRel(<, Nat)
  BY NatLessThanWellFounded, WFMin
<1>2. \A z \in S : ~(z < x)
  <2> TAKE z \in S
  <2>1. z \in Nat /\ x \in Nat
    OBVIOUS
  <2> QED BY <1>1, <2>1 DEF OpToRel
<1>3. \A z \in S : x <= z
  BY <1>2
<1> QED BY <1>3

LEMMA SmallestInteger ==
  ASSUME NEW S, S \subseteq Int, S # {}, NEW low \in Int, \A z \in S : low <= z
  PROVE  \E x \in S : \A z \in S : x <= z
<1> DEFINE T == {z - low : z \in S}
<1>1. T \subseteq Nat /\ T # {}
  <2>1. \A z \in S : z - low \in Nat
    OBVIOUS
  <2> QED BY <2>1
<1>2. PICK t \in T : \A u \in T : t <= u
  BY <1>1, LeastNatural
<1>3. PICK x \in S : t = x - low
  BY <1>2
<1>4. ASSUME NEW z \in S PROVE x <= z
  <2>1. z - low \in T /\ z \in Int /\ x \in Int
    OBVIOUS
  <2>2. x - low <= z - low
    BY <1>2, <1>3, <2>1
  <2> HIDE DEF T
  <2> QED BY <2>1, <2>2
<1> QED BY <1>4

LEMMA LargestInteger ==
  ASSUME NEW S, S \subseteq Int, S # {}, NEW high \in Int, \A z \in S : z <= high
  PROVE  \E x \in S : \A z \in S : x >= z
<1> DEFINE T == {-z : z \in S}
<1>1. T \subseteq Int /\ T # {} /\ -high \in Int /\ \A u \in T : -high <= u
  <2>1. \A z \in S : -z \in Int /\ -high <= -z
    OBVIOUS
  <2>2. T # {}
    OBVIOUS
  <2>3. ASSUME NEW u \in T PROVE u \in Int /\ -high <= u
    <3>1. PICK z \in S : u = -z
      OBVIOUS
    <3> QED BY <2>1, <3>1
  <2>4. -high \in Int
    OBVIOUS
  <2> HIDE DEF T
  <2> QED BY <2>2, <2>3, <2>4
<1>2. PICK t \in T : \A u \in T : t <= u
  BY <1>1, SmallestInteger
<1>3. PICK x \in S : t = -x
  BY <1>2
<1>4. ASSUME NEW z \in S PROVE x >= z
  <2>1. -z \in T /\ z \in Int /\ x \in Int
    OBVIOUS
  <2>2. -x <= -z
    BY <1>2, <1>3, <2>1
  <2> HIDE DEF T
  <2> QED BY <2>1, <2>2
<1> QED BY <1>4

LEMMA CutMin ==
  ASSUME NEW S, S \subseteq Int, S # {}, NEW low \in Int, \A z \in S : low <= z
  PROVE  Cutout!Min(S) \in S /\ \A z \in S : Cutout!Min(S) <= z
BY SmallestInteger DEF Cutout!Min

LEMMA CutMax ==
  ASSUME NEW S, S \subseteq Int, S # {}, NEW high \in Int, \A z \in S : z <= high
  PROVE  Cutout!Max(S) \in S /\ \A z \in S : Cutout!Max(S) >= z
BY LargestInteger DEF Cutout!Max

LEMMA CutClamp ==
  ASSUME NEW v \in Int, NEW high \in Nat
  PROVE  /\ Cutout!Clamp(v, high) \in 0 .. high
         /\ Cutout!Clamp(v, high) = IF v <= 0 THEN 0 ELSE IF v >= high THEN high ELSE v
<1> DEFINE w == Cutout!Min({v, high})
<1>1. w = IF v <= high THEN v ELSE high
  BY DEF Cutout!Min
<1>2. w \in Int
  BY <1>1
<1>3. Cutout!Clamp(v, high) = Cutout!Max({0, w})
  BY DEF Cutout!Clamp
<1> HIDE DEF w
<1>4. Cutout!Max({0, w}) = IF w <= 0 THEN 0 ELSE w
  BY <1>2 DEF Cutout!Max
<1> QED BY <1>1, <1>2, <1>3, <1>4

(* The quotients by a determinant of either sign.                            *)
LEMMA FloorInt ==
  ASSUME NEW n \in Int, NEW d \in Int, d # 0
  PROVE  Cutout!Floor(n, d) \in Int /\ Cutout!Ceiling(n, d) \in Int
<1>1. CASE d > 0
  BY <1>1, Quotient DEF Cutout!Floor, Cutout!Ceiling
<1>2. CASE d < 0
  <2>1. -d \in Nat \ {0} /\ -n \in Int /\ -(-n) = n /\ ~(d > 0)
    BY <1>2
  <2>2. (-n) \div (-d) \in Int /\ n \div (-d) \in Int
    BY <2>1, Quotient
  <2> QED BY <2>1, <2>2 DEF Cutout!Floor, Cutout!Ceiling
<1> QED BY <1>1, <1>2

LEMMA QuotientBounds ==
  ASSUME NEW n \in Int, NEW d \in Nat \ {0}, NEW k \in Int
  PROVE  /\ n <= d * k => n \div d <= k
         /\ n >= d * k => n \div d >= k
         /\ n \div d >= k => n >= d * k
<1> DEFINE q == n \div d
<1>1. q \in Int /\ d * q <= n /\ n < d * q + d /\ d * k \in Int /\ d * q \in Int
  <2>1. q \in Int /\ d * q <= n /\ n < d * q + d
    BY Quotient
  <2> HIDE DEF q
  <2> QED BY <2>1
<1> HIDE DEF q
<1>2. k < q => d * k + d <= d * q
  BY <1>1, ProductGrows
<1>3. q < k => d * q + d <= d * k
  BY <1>1, ProductGrows
<1>4. ASSUME n <= d * k, k < q PROVE FALSE
  BY <1>1, <1>2, <1>4
<1>5. ASSUME n >= d * k, q < k PROVE FALSE
  BY <1>1, <1>3, <1>5
<1>6. ASSUME q >= k PROVE n >= d * k
  <2>1. CASE k = q
    BY <1>1, <2>1
  <2>2. CASE k < q
    BY <1>1, <1>2, <2>2
  <2> QED BY <1>1, <1>6, <2>1, <2>2
<1> QED BY <1>1, <1>4, <1>5, <1>6 DEF q

LEMMA FloorBounds ==
  ASSUME NEW n \in Int, NEW d \in Int, d # 0, NEW k \in Int
  PROVE  /\ (IF d > 0 THEN n <= d * k ELSE n >= d * k) => Cutout!Floor(n, d) <= k
         /\ Cutout!Floor(n, d) >= k => (IF d > 0 THEN n >= d * k ELSE n <= d * k)
<1>1. CASE d > 0
  BY <1>1, QuotientBounds DEF Cutout!Floor
<1>2. CASE d < 0
  <2>1. -d \in Nat \ {0} /\ -n \in Int /\ ~(d > 0)
    BY <1>2
  <2>2. (-d) * k = -(d * k) /\ d * k \in Int
    OBVIOUS
  <2>3. Cutout!Floor(n, d) = (-n) \div (-d)
    BY <2>1 DEF Cutout!Floor
  <2>4. /\ -n <= -(d * k) => (-n) \div (-d) <= k
        /\ (-n) \div (-d) >= k => -n >= -(d * k)
    BY <2>1, <2>2, QuotientBounds
  <2> QED BY <2>1, <2>2, <2>3, <2>4
<1> QED BY <1>1, <1>2

LEMMA CeilingBounds ==
  ASSUME NEW n \in Int, NEW d \in Int, d # 0, NEW k \in Int
  PROVE  /\ (IF d > 0 THEN n >= d * k ELSE n <= d * k) => Cutout!Ceiling(n, d) >= k
         /\ Cutout!Ceiling(n, d) <= k => (IF d > 0 THEN n <= d * k ELSE n >= d * k)
<1>1. -n \in Int /\ -k \in Int /\ d * (-k) = -(d * k) /\ d * k \in Int
  OBVIOUS
<1>2. Cutout!Ceiling(n, d) = -Cutout!Floor(-n, d) /\ Cutout!Floor(-n, d) \in Int
  BY <1>1, FloorInt DEF Cutout!Ceiling
<1>3. /\ (IF d > 0 THEN -n <= -(d * k) ELSE -n >= -(d * k)) => Cutout!Floor(-n, d) <= -k
      /\ Cutout!Floor(-n, d) >= -k => (IF d > 0 THEN -n >= -(d * k) ELSE -n <= -(d * k))
  BY <1>1, FloorBounds
<1> QED BY <1>1, <1>2, <1>3

LEMMA Scaled ==
  ASSUME NEW a \in Int, NEW u \in Int, NEW v \in Int, u <= v
  PROVE  /\ a >= 0 => a * u <= a * v
         /\ a <= 0 => a * v <= a * u
<1>1. a >= 0 => a * (v - u) >= 0
  OBVIOUS
<1>2. a <= 0 => a * (v - u) <= 0
  OBVIOUS
<1>3. a * (v - u) = a * v - a * u /\ a * v \in Int /\ a * u \in Int
  OBVIOUS
<1> QED BY <1>1, <1>2, <1>3

(* A linear form on a rectangle is extreme at corners.                       *)
LEMMA ExtremeCorners ==
  ASSUME NEW a \in Int, NEW b \in Int, NEW left \in Int, NEW right \in Int,
         NEW top \in Int, NEW bottom \in Int, NEW x \in left .. right, NEW z \in top .. bottom
  PROVE  /\ \E u \in {left, right}, v \in {top, bottom} : a * u + b * v <= a * x + b * z
         /\ \E u \in {left, right}, v \in {top, bottom} : a * u + b * v >= a * x + b * z
<1>1. /\ \E u \in {left, right} : a * u <= a * x
      /\ \E u \in {left, right} : a * u >= a * x
  BY Scaled
<1>2. /\ \E v \in {top, bottom} : b * v <= b * z
      /\ \E v \in {top, bottom} : b * v >= b * z
  BY Scaled
<1>3. /\ a * x \in Int /\ b * z \in Int
      /\ (\A u \in {left, right} : a * u \in Int) /\ (\A v \in {top, bottom} : b * v \in Int)
  OBVIOUS
<1> QED
  <2>1. PICK u \in {left, right}, v \in {top, bottom} : a * u <= a * x /\ b * v <= b * z
    BY <1>1, <1>2
  <2>2. a * u + b * v <= a * x + b * z
    BY <1>3, <2>1
  <2>3. PICK s \in {left, right}, t \in {top, bottom} : a * s >= a * x /\ b * t >= b * z
    BY <1>1, <1>2
  <2>4. a * s + b * t >= a * x + b * z
    BY <1>3, <2>3
  <2> QED BY <2>2, <2>4

Floors(F, C, d) == {Cutout!Floor(F[p], d) : p \in C}
Ceilings(F, C, d) == {Cutout!Ceiling(F[p], d) : p \in C}
Near(F, C, d, high) == Cutout!Clamp(Cutout!Min(Floors(F, C, d)), high)
Far(F, C, d, high) == Cutout!Clamp(Cutout!Max(Ceilings(F, C, d)), high)

(* The least and the greatest of the quotients at the four corners.          *)
LEMMA CornerExtremes ==
  ASSUME NEW r \in [1 .. 4 -> Int], NEW d \in Int, d # 0,
         NEW F, \A p \in Cutout!Corners(r) : F[p] \in Int
  PROVE  LET floors == Floors(F, Cutout!Corners(r), d)
             ceilings == Ceilings(F, Cutout!Corners(r), d)
             low == Cutout!Min(floors)
             high == Cutout!Max(ceilings)
         IN  /\ low \in floors /\ (\A f \in floors : low <= f) /\ low \in Int
             /\ high \in ceilings /\ (\A f \in ceilings : high >= f) /\ high \in Int
<1> DEFINE C == Cutout!Corners(r)
           floors == Floors(F, C, d)
           ceilings == Ceilings(F, C, d)
           low == Cutout!Min(floors)
           high == Cutout!Max(ceilings)
           g(p) == Cutout!Floor(F[p], d)
           h(p) == Cutout!Ceiling(F[p], d)
           p1 == <<r[1], r[2]>>  p2 == <<r[1], r[4]>>
           p3 == <<r[3], r[2]>>  p4 == <<r[3], r[4]>>
<1>1. \A p \in C : g(p) \in Int /\ h(p) \in Int
  BY FloorInt
<1>2. C = {p1, p2, p3, p4}
  BY DEF Cutout!Corners
<1> HIDE DEF g, h, p1, p2, p3, p4, C
<1>3. floors = {g(p1), g(p2), g(p3), g(p4)} /\ ceilings = {h(p1), h(p2), h(p3), h(p4)}
  BY <1>2 DEF g, h, Floors, Ceilings
<1>4. /\ g(p1) \in Int /\ g(p2) \in Int /\ g(p3) \in Int /\ g(p4) \in Int
      /\ h(p1) \in Int /\ h(p2) \in Int /\ h(p3) \in Int /\ h(p4) \in Int
  BY <1>1, <1>2
<1>5. /\ \E m \in Int : m <= g(p1) /\ m <= g(p2) /\ m <= g(p3) /\ m <= g(p4)
      /\ \E m \in Int : m >= h(p1) /\ m >= h(p2) /\ m >= h(p3) /\ m >= h(p4)
  <2>1. \A i, j \in Int : (\E m \in Int : m <= i /\ m <= j) /\ (\E m \in Int : m >= i /\ m >= j)
    OBVIOUS
  <2>2. PICK m \in Int, n \in Int : m <= g(p1) /\ m <= g(p2) /\ n <= g(p3) /\ n <= g(p4)
    BY <1>4, <2>1
  <2>3. PICK s \in Int, t \in Int : s >= h(p1) /\ s >= h(p2) /\ t >= h(p3) /\ t >= h(p4)
    BY <1>4, <2>1
  <2>4. PICK u \in Int : u <= m /\ u <= n
    BY <2>1
  <2>5. PICK v \in Int : v >= s /\ v >= t
    BY <2>1
  <2>6. u <= g(p1) /\ u <= g(p2) /\ u <= g(p3) /\ u <= g(p4)
    BY <1>4, <2>2, <2>4
  <2>7. v >= h(p1) /\ v >= h(p2) /\ v >= h(p3) /\ v >= h(p4)
    BY <1>4, <2>3, <2>5
  <2> QED BY <2>6, <2>7
<1>6. floors \subseteq Int /\ floors # {} /\ ceilings \subseteq Int /\ ceilings # {}
  BY <1>3, <1>4
<1>7. /\ \E m \in Int : \A f \in floors : m <= f
      /\ \E m \in Int : \A f \in ceilings : f <= m
  BY <1>3, <1>4, <1>5
<1> HIDE DEF floors, ceilings
<1>8. low \in floors /\ (\A f \in floors : low <= f)
  BY <1>6, <1>7, CutMin
<1>9. high \in ceilings /\ (\A f \in ceilings : high >= f)
  BY <1>6, <1>7, CutMax
<1> QED BY <1>6, <1>8, <1>9 DEF C, floors, ceilings

(* Coordinate k, of 0 .. high, of the pixel corner at x and z of a page: the *)
(* quotient by d of a * x + b * z + c, which F gives at the corners of r.    *)
Coordinate(F, a, b, c, d, r, x, z, high, k) ==
    /\ a \in Int /\ b \in Int /\ c \in Int /\ d \in Int /\ d # 0 /\ (a # 0 \/ b # 0)
    /\ r \in [1 .. 4 -> Int] /\ r[1] < r[3] /\ r[2] < r[4]
    /\ x \in r[1] .. r[3] /\ z \in r[2] .. r[4]
    /\ high \in Nat /\ k \in 0 .. high /\ a * x + b * z + c = d * k
    /\ \A p \in Cutout!Corners(r) : F[p] = a * p[1] + b * p[2] + c

(* One side of a crop: it has every point of the rectangle, and a point off  *)
(* the border is not all there is.                                           *)
LEMMA AxisCovers ==
  ASSUME NEW F, NEW a, NEW b, NEW c, NEW d, NEW r, NEW x, NEW z, NEW high, NEW k,
         Coordinate(F, a, b, c, d, r, x, z, high, k)
  PROVE  LET near == Near(F, Cutout!Corners(r), d, high)
             far == Far(F, Cutout!Corners(r), d, high)
         IN  near \in 0 .. high /\ far \in 0 .. high /\ near <= k /\ k <= far
             /\ (k \in 1 .. high - 1 => near < far)
<1> DEFINE C == Cutout!Corners(r)
           val(u, v) == a * u + b * v + c
           floors == {Cutout!Floor(F[p], d) : p \in C}
           ceilings == {Cutout!Ceiling(F[p], d) : p \in C}
           low == Cutout!Min(floors)
           top == Cutout!Max(ceilings)
<1>0. /\ a \in Int /\ b \in Int /\ c \in Int /\ d \in Int /\ d # 0 /\ (a # 0 \/ b # 0)
      /\ r \in [1 .. 4 -> Int] /\ r[1] < r[3] /\ r[2] < r[4]
      /\ x \in r[1] .. r[3] /\ z \in r[2] .. r[4]
      /\ high \in Nat /\ k \in 0 .. high /\ a * x + b * z + c = d * k
      /\ \A p \in C : F[p] = a * p[1] + b * p[2] + c
  BY DEF Coordinate
<1>e. /\ \E u \in {r[1], r[3]}, v \in {r[2], r[4]} : a * u + b * v <= a * x + b * z
      /\ \E u \in {r[1], r[3]}, v \in {r[2], r[4]} : a * u + b * v >= a * x + b * z
  <2> DEFINE west == r[1]  north == r[2]  east == r[3]  south == r[4]
  <2>1. /\ a \in Int /\ b \in Int /\ x \in west .. east /\ z \in north .. south
        /\ west \in Int /\ north \in Int /\ east \in Int /\ south \in Int
    BY <1>0
  <2> HIDE DEF west, north, east, south
  <2>2. /\ \E u \in {west, east}, v \in {north, south} : a * u + b * v <= a * x + b * z
        /\ \E u \in {west, east}, v \in {north, south} : a * u + b * v >= a * x + b * z
    BY <2>1, ExtremeCorners
  <2> QED BY <2>2 DEF west, north, east, south
<1> USE <1>0
<1>1. /\ r[1] \in Int /\ r[2] \in Int /\ r[3] \in Int /\ r[4] \in Int
      /\ x \in Int /\ z \in Int /\ k \in Int
  OBVIOUS
<1>2. C = {<<r[1], r[2]>>, <<r[1], r[4]>>, <<r[3], r[2]>>, <<r[3], r[4]>>}
  BY DEF Cutout!Corners
<1>3. /\ F[<<r[1], r[2]>>] = val(r[1], r[2]) /\ F[<<r[1], r[4]>>] = val(r[1], r[4])
      /\ F[<<r[3], r[2]>>] = val(r[3], r[2]) /\ F[<<r[3], r[4]>>] = val(r[3], r[4])
  BY <1>2
<1>4. \A u, v \in Int : val(u, v) \in Int
  OBVIOUS
<1>5. \A p \in C : F[p] \in Int
  BY <1>1, <1>2, <1>3, <1>4
<1> HIDE DEF C
<1>6. /\ low \in floors /\ (\A f \in floors : low <= f) /\ low \in Int
      /\ top \in ceilings /\ (\A f \in ceilings : top >= f) /\ top \in Int
  <2>1. /\ r \in [1 .. 4 -> Int] /\ d \in Int /\ d # 0
        /\ \A p \in Cutout!Corners(r) : F[p] \in Int
    BY <1>5 DEF C
  <2>2. floors = Floors(F, Cutout!Corners(r), d) /\ ceilings = Ceilings(F, Cutout!Corners(r), d)
    BY DEF Floors, Ceilings, C
  <2> HIDE <1>0
  <2> HIDE DEF floors, ceilings
  <2> QED BY <2>1, <2>2, CornerExtremes
<1>7. PICK lo \in C : F[lo] <= d * k
  <2>1. PICK u \in {r[1], r[3]}, v \in {r[2], r[4]} : a * u + b * v <= a * x + b * z
    BY <1>e
  <2>2. <<u, v>> \in C /\ F[<<u, v>>] = val(u, v)
    BY <1>2, <1>3
  <2>3. val(u, v) <= d * k
    <3>1. u \in Int /\ v \in Int
      BY <1>1
    <3>2. a * u + b * v \in Int /\ a * x + b * z \in Int
      BY <1>1, <3>1
    <3> QED BY <2>1, <3>2
  <2> QED BY <2>2, <2>3
<1>8. PICK hi \in C : F[hi] >= d * k
  <2>1. PICK u \in {r[1], r[3]}, v \in {r[2], r[4]} : a * u + b * v >= a * x + b * z
    BY <1>e
  <2>2. <<u, v>> \in C /\ F[<<u, v>>] = val(u, v)
    BY <1>2, <1>3
  <2>3. val(u, v) >= d * k
    <3>1. u \in Int /\ v \in Int
      BY <1>1
    <3>2. a * u + b * v \in Int /\ a * x + b * z \in Int
      BY <1>1, <3>1
    <3> QED BY <2>1, <3>2
  <2> QED BY <2>2, <2>3
<1>9. low <= k
  <2>1. PICK p \in C : IF d > 0 THEN F[p] <= d * k ELSE F[p] >= d * k
    BY <1>7, <1>8
  <2>2. Cutout!Floor(F[p], d) <= k /\ Cutout!Floor(F[p], d) \in Int
    BY <1>1, <1>5, <2>1, FloorBounds, FloorInt
  <2>3. low <= Cutout!Floor(F[p], d)
    BY <1>6
  <2> HIDE DEF low
  <2> QED BY <1>1, <1>6, <2>2, <2>3
<1>10. top >= k
  <2>1. PICK p \in C : IF d > 0 THEN F[p] >= d * k ELSE F[p] <= d * k
    BY <1>7, <1>8
  <2>2. Cutout!Ceiling(F[p], d) >= k /\ Cutout!Ceiling(F[p], d) \in Int
    BY <1>1, <1>5, <2>1, CeilingBounds, FloorInt
  <2>3. top >= Cutout!Ceiling(F[p], d)
    BY <1>6
  <2> HIDE DEF top
  <2> QED BY <1>1, <1>6, <2>2, <2>3
<1>11. ~(low = k /\ top = k)
  <2> SUFFICES ASSUME low = k, top = k PROVE FALSE
    OBVIOUS
  <2>1. ASSUME NEW p \in C PROVE F[p] = d * k
    <3>1. /\ Cutout!Floor(F[p], d) >= k /\ Cutout!Ceiling(F[p], d) <= k
      BY <1>6
    <3>2. /\ IF d > 0 THEN F[p] >= d * k ELSE F[p] <= d * k
          /\ IF d > 0 THEN F[p] <= d * k ELSE F[p] >= d * k
      BY <1>1, <1>5, <3>1, FloorBounds, CeilingBounds
    <3>3. F[p] \in Int /\ d * k \in Int
      BY <1>1, <1>5
    <3> QED BY <3>2, <3>3
  <2>2. val(r[1], r[2]) = val(r[3], r[2]) /\ val(r[1], r[2]) = val(r[1], r[4])
    BY <1>2, <1>3, <2>1
  <2>3. a * (r[3] - r[1]) = 0
    <3>1. val(r[3], r[2]) - val(r[1], r[2]) = a * (r[3] - r[1])
      BY <1>1
    <3>2. val(r[3], r[2]) - val(r[1], r[2]) = 0
      <4>1. val(r[1], r[2]) \in Int
        BY <1>1, <1>4
      <4> HIDE DEF val
      <4> QED BY <2>2, <4>1
    <3> QED BY <3>1, <3>2
  <2>4. b * (r[4] - r[2]) = 0
    <3>1. val(r[1], r[4]) - val(r[1], r[2]) = b * (r[4] - r[2])
      BY <1>1
    <3>2. val(r[1], r[4]) - val(r[1], r[2]) = 0
      <4>1. val(r[1], r[2]) \in Int
        BY <1>1, <1>4
      <4> HIDE DEF val
      <4> QED BY <2>2, <4>1
    <3> QED BY <3>1, <3>2
  <2>5. r[3] - r[1] # 0 /\ r[4] - r[2] # 0 /\ r[3] - r[1] \in Int /\ r[4] - r[2] \in Int
    BY <1>1
  <2>6. \A s, t \in Int : s * t = 0 => s = 0 \/ t = 0
    OBVIOUS
  <2> QED BY <2>3, <2>4, <2>5, <2>6
<1>12. /\ Cutout!Clamp(low, high) \in 0 .. high /\ Cutout!Clamp(top, high) \in 0 .. high
       /\ Cutout!Clamp(low, high) = IF low <= 0 THEN 0 ELSE IF low >= high THEN high ELSE low
       /\ Cutout!Clamp(top, high) = IF top <= 0 THEN 0 ELSE IF top >= high THEN high ELSE top
  BY <1>6, CutClamp
<1> HIDE DEF low, top
<1>13. Cutout!Clamp(low, high) <= k /\ k <= Cutout!Clamp(top, high)
  BY <1>6, <1>9, <1>10, <1>12
<1>14. k \in 1 .. high - 1 => Cutout!Clamp(low, high) < Cutout!Clamp(top, high)
  BY <1>6, <1>9, <1>10, <1>11, <1>12
<1> QED BY <1>12, <1>13, <1>14 DEF low, top, C, Near, Far, Floors, Ceilings

(* The inductive invariant of the crop: where it comes from in each phase.   *)
CutTypes ==
    /\ map \in [1 .. 6 -> Int] /\ Cutout!Det(map) # 0
    /\ bounds \in [1 .. 4 -> Int] /\ bounds[1] < bounds[3] /\ bounds[2] < bounds[4]
    /\ gray \in [Cutout!Columns \X Cutout!Lines -> Grays]
    /\ phase \in {"region", "cropped", "trimmed", "error"}
    /\ phase = "region" => crop = Cutout!Whole
    /\ phase = "error" => ~Cutout!Nonempty(Cutout!Covering(bounds))
    /\ phase \in {"cropped", "trimmed"} =>
         region = Cutout!Covering(bounds) /\ Cutout!Nonempty(region)
    /\ phase = "cropped" => crop = region
    /\ phase = "trimmed" =>
         crop = IF Cutout!Low(region) = Cutout!High(region) THEN region
                ELSE Cutout!Trimmed(region)
CutInv == part = "cutout" => CutTypes

LEMMA CutStart == PartsInit => CutInv
<1> SUFFICES ASSUME part = "cutout", Cutout!Init PROVE CutTypes
  BY DEF PartsInit, CutInv
<1> QED BY PartsAssumption DEF CutTypes, Cutout!Init

LEMMA CutRests ==
  ASSUME CutTypes, UNCHANGED <<phase, cutoutVars>>
  PROVE  CutTypes'
<1>1. UNCHANGED <<phase, map, bounds, gray, crop, region>>
  BY DEF cutoutVars
<1>2. /\ Cutout!Covering(bounds)' = Cutout!Covering(bounds)
      /\ Cutout!Low(region)' = Cutout!Low(region) /\ Cutout!High(region)' = Cutout!High(region)
      /\ Cutout!Trimmed(region)' = Cutout!Trimmed(region)
  BY <1>1 DEF Cutout!Covering, Cutout!InverseX, Cutout!InverseY, Cutout!Low, Cutout!High,
     Cutout!Trimmed, Cutout!Dark
<1> QED BY <1>1, <1>2 DEF CutTypes

LEMMA CutStep ==
  ASSUME CutInv, [PartsNext]_<<part, phase, assetVars, rasterVars, ofPixels, resultVars, vars>>
  PROVE  CutInv'
<1> SUFFICES ASSUME part' = "cutout" PROVE CutTypes'
  BY DEF CutInv
<1>1. part = "cutout" /\ CutTypes
  BY DEF PartsNext, CutInv
<1>2. CASE UNCHANGED <<phase, cutoutVars>>
  BY <1>1, <1>2, CutRests
<1>3. ASSUME UNCHANGED <<map, bounds, gray>>
      PROVE  /\ Cutout!Covering(bounds)' = Cutout!Covering(bounds)
             /\ \A c : /\ Cutout!Low(c)' = Cutout!Low(c) /\ Cutout!High(c)' = Cutout!High(c)
                       /\ Cutout!Trimmed(c)' = Cutout!Trimmed(c)
  BY <1>3 DEF Cutout!Covering, Cutout!InverseX, Cutout!InverseY, Cutout!Low, Cutout!High,
     Cutout!Trimmed, Cutout!Dark
<1>4. CASE Cutout!CropPixels
  <2>1. UNCHANGED <<map, bounds, gray>> /\ phase = "region"
    BY <1>4 DEF Cutout!CropPixels, Cutout!input
  <2>2. CASE Cutout!Nonempty(Cutout!Covering(bounds))
    BY <1>1, <1>3, <1>4, <2>1, <2>2 DEF Cutout!CropPixels, CutTypes
  <2>3. CASE ~Cutout!Nonempty(Cutout!Covering(bounds))
    BY <1>1, <1>3, <1>4, <2>1, <2>3 DEF Cutout!CropPixels, CutTypes
  <2> QED BY <2>2, <2>3
<1>5. CASE Cutout!CropMargin
  <2>1. UNCHANGED <<map, bounds, gray, region>> /\ phase = "cropped" /\ phase' = "trimmed"
    BY <1>5 DEF Cutout!CropMargin, Cutout!input
  <2>2. /\ region = Cutout!Covering(bounds) /\ Cutout!Nonempty(region) /\ crop = region
        /\ crop' = IF Cutout!Low(region) = Cutout!High(region) THEN region
                   ELSE Cutout!Trimmed(region)
    BY <1>1, <1>5, <2>1 DEF Cutout!CropMargin, CutTypes
  <2>3. /\ Cutout!Covering(bounds)' = Cutout!Covering(bounds)
        /\ Cutout!Low(region)' = Cutout!Low(region) /\ Cutout!High(region)' = Cutout!High(region)
        /\ Cutout!Trimmed(region)' = Cutout!Trimmed(region)
    BY <1>3, <2>1 DEF Cutout!Low, Cutout!High, Cutout!Trimmed, Cutout!Dark
  <2> QED BY <1>1, <2>1, <2>2, <2>3 DEF CutTypes
<1>6. UNCHANGED <<phase, cutoutVars>> \/ Cutout!CropPixels \/ Cutout!CropMargin
  BY <1>1 DEF PartsNext, Cutout!Next, ofPixels
<1> QED BY <1>2, <1>4, <1>5, <1>6

LEMMA CutInvariant == PartsSpec => []CutInv
<1>1. CutInv /\ [PartsNext]_<<part, phase, assetVars, rasterVars, ofPixels, resultVars, vars>>
        => CutInv'
  BY CutStep
<1> QED BY CutStart, <1>1, PTL DEF PartsSpec

AtCornersX == [p \in Cutout!Corners(bounds) |-> Cutout!InverseX(p)]
AtCornersY == [p \in Cutout!Corners(bounds) |-> Cutout!InverseY(p)]

LEMMA CoveringSides ==
  LET c == Cutout!Covering(bounds)
      d == Cutout!Det(map)
      C == Cutout!Corners(bounds) IN
  /\ c.left = Near(AtCornersX, C, d, Width) /\ c.right = Far(AtCornersX, C, d, Width)
  /\ c.top = Near(AtCornersY, C, d, Height) /\ c.bottom = Far(AtCornersY, C, d, Height)
<1> DEFINE d == Cutout!Det(map)
           C == Cutout!Corners(bounds)
<1>1. \A p \in C : AtCornersX[p] = Cutout!InverseX(p) /\ AtCornersY[p] = Cutout!InverseY(p)
  BY DEF AtCornersX, AtCornersY
<1> HIDE DEF C, d
<1>2. /\ Floors(AtCornersX, C, d) = {Cutout!Floor(Cutout!InverseX(p), d) : p \in C}
      /\ Floors(AtCornersY, C, d) = {Cutout!Floor(Cutout!InverseY(p), d) : p \in C}
      /\ Ceilings(AtCornersX, C, d) = {Cutout!Ceiling(Cutout!InverseX(p), d) : p \in C}
      /\ Ceilings(AtCornersY, C, d) = {Cutout!Ceiling(Cutout!InverseY(p), d) : p \in C}
  BY <1>1 DEF Floors, Ceilings
<1> QED BY <1>2 DEF Cutout!Covering, C, d, Near, Far

(* The crop of a region: inside the raster, around every pixel corner inside *)
(* the bounds, and not empty when one of those is off the raster's border.   *)
LEMMA CropCovers ==
  ASSUME CutTypes
  PROVE  LET c == Cutout!Covering(bounds) IN
         \A k \in Cutout!PixelCorners : Cutout!Within(Cutout!ToPage(k[1], k[2]), bounds) =>
           /\ c.left <= k[1] /\ k[1] <= c.right /\ c.top <= k[2] /\ k[2] <= c.bottom
           /\ (k[1] \in 1 .. Width - 1 /\ k[2] \in 1 .. Height - 1 => Cutout!Nonempty(c))
<1> DEFINE m1 == map[1]  m2 == map[2]  m3 == map[3]  m4 == map[4]  m5 == map[5]  m6 == map[6]
           d == Cutout!Det(map)
           c == Cutout!Covering(bounds)
           C == Cutout!Corners(bounds)
           FX == [p \in C |-> Cutout!InverseX(p)]
           FY == [p \in C |-> Cutout!InverseY(p)]
<1> SUFFICES ASSUME NEW k \in Cutout!PixelCorners,
                    Cutout!Within(Cutout!ToPage(k[1], k[2]), bounds)
             PROVE  /\ c.left <= k[1] /\ k[1] <= c.right /\ c.top <= k[2] /\ k[2] <= c.bottom
                    /\ (k[1] \in 1 .. Width - 1 /\ k[2] \in 1 .. Height - 1 => Cutout!Nonempty(c))
  OBVIOUS
<1> DEFINE x == m1 * k[1] + m3 * k[2] + m5
           z == m2 * k[1] + m4 * k[2] + m6
<1>1. /\ m1 \in Int /\ m2 \in Int /\ m3 \in Int /\ m4 \in Int /\ m5 \in Int /\ m6 \in Int
      /\ bounds \in [1 .. 4 -> Int] /\ bounds[1] < bounds[3] /\ bounds[2] < bounds[4]
  BY DEF CutTypes
<1>2. Width \in Nat /\ Height \in Nat /\ k[1] \in 0 .. Width /\ k[2] \in 0 .. Height
  BY PartsAssumption DEF Cutout!PixelCorners
<1>3. k[1] \in Int /\ k[2] \in Int
  BY <1>2
<1>4. x \in bounds[1] .. bounds[3] /\ z \in bounds[2] .. bounds[4]
  <2>1. x \in Int /\ z \in Int
    BY <1>1, <1>3
  <2>2. bounds[1] <= x /\ x <= bounds[3] /\ bounds[2] <= z /\ z <= bounds[4]
    BY DEF Cutout!Within, Cutout!ToPage
  <2> HIDE DEF x, z
  <2> QED BY <1>1, <2>1, <2>2
<1>5. d = m1 * m4 - m2 * m3 /\ d \in Int /\ d # 0
  <2>1. d = m1 * m4 - m2 * m3
    BY DEF Cutout!Det
  <2>2. m1 * m4 - m2 * m3 \in Int
    BY <1>1
  <2> QED BY <2>1, <2>2 DEF CutTypes
<1>6. C \subseteq Int \X Int
  BY <1>1 DEF Cutout!Corners
<1> HIDE DEF m1, m2, m3, m4, m5, m6
<1>7. \A u, v \in Int : m1 * u \in Int /\ m2 * u \in Int /\ m3 * u \in Int /\ m4 * u \in Int
  BY <1>1
<1>8. /\ m4 \in Int /\ -m3 \in Int /\ m3 * m6 - m4 * m5 \in Int
      /\ -m2 \in Int /\ m1 \in Int /\ m2 * m5 - m1 * m6 \in Int
      /\ (m4 # 0 \/ -m3 # 0) /\ (-m2 # 0 \/ m1 # 0)
  <2>1. m4 = 0 /\ m3 = 0 => m1 * m4 - m2 * m3 = 0
    BY <1>1
  <2>2. m2 = 0 /\ m1 = 0 => m1 * m4 - m2 * m3 = 0
    BY <1>1
  <2>3. m4 # 0 \/ m3 # 0
    BY <1>5, <2>1
  <2>4. m2 # 0 \/ m1 # 0
    BY <1>5, <2>2
  <2>5. \A i \in Int : -i \in Int /\ (-i = 0 <=> i = 0)
    OBVIOUS
  <2>6. m3 * m6 - m4 * m5 \in Int /\ m2 * m5 - m1 * m6 \in Int
    BY <1>1
  <2> HIDE DEF d
  <2> QED BY <1>1, <2>3, <2>4, <2>5, <2>6
<1>9. m4 * x + (-m3) * z + (m3 * m6 - m4 * m5) = d * k[1]
  <2>1. m4 * x + (-m3) * z + (m3 * m6 - m4 * m5) = (m1 * m4 - m2 * m3) * k[1]
    BY <1>1, <1>3
  <2> QED BY <1>5, <2>1
<1>10. (-m2) * x + m1 * z + (m2 * m5 - m1 * m6) = d * k[2]
  <2>1. (-m2) * x + m1 * z + (m2 * m5 - m1 * m6) = (m1 * m4 - m2 * m3) * k[2]
    BY <1>1, <1>3
  <2> QED BY <1>5, <2>1
<1>11. \A p \in C : FX[p] = m4 * p[1] + (-m3) * p[2] + (m3 * m6 - m4 * m5)
  <2> SUFFICES ASSUME NEW p \in C
               PROVE  Cutout!InverseX(p) = m4 * p[1] + (-m3) * p[2] + (m3 * m6 - m4 * m5)
    OBVIOUS
  <2>1. p[1] \in Int /\ p[2] \in Int
    BY <1>6
  <2>2. Cutout!InverseX(p) = m4 * p[1] - m3 * p[2] + m3 * m6 - m4 * m5
    BY DEF Cutout!InverseX, m1, m2, m3, m4, m5, m6
  <2> QED BY <1>1, <2>1, <2>2
<1>12. \A p \in C : FY[p] = (-m2) * p[1] + m1 * p[2] + (m2 * m5 - m1 * m6)
  <2> SUFFICES ASSUME NEW p \in C
               PROVE  Cutout!InverseY(p) = (-m2) * p[1] + m1 * p[2] + (m2 * m5 - m1 * m6)
    OBVIOUS
  <2>1. p[1] \in Int /\ p[2] \in Int
    BY <1>6
  <2>2. Cutout!InverseY(p) = m1 * p[2] - m2 * p[1] + m2 * m5 - m1 * m6
    BY DEF Cutout!InverseY, m1, m2, m3, m4, m5, m6
  <2> QED BY <1>1, <2>1, <2>2
<1>13. /\ c.left = Near(FX, C, d, Width) /\ c.right = Far(FX, C, d, Width)
       /\ c.top = Near(FY, C, d, Height) /\ c.bottom = Far(FY, C, d, Height)
  BY CoveringSides DEF AtCornersX, AtCornersY
<1> HIDE DEF FX, FY, x, z, d
<1>14. /\ c.left <= k[1] /\ k[1] <= c.right /\ (k[1] \in 1 .. Width - 1 => c.left < c.right)
  <2> HIDE DEF c
  <2> DEFINE a == m4
             b == -m3
             e == m3 * m6 - m4 * m5
  <2>1. /\ a \in Int /\ b \in Int /\ e \in Int /\ (a # 0 \/ b # 0)
        /\ a * x + b * z + e = d * k[1]
        /\ \A p \in Cutout!Corners(bounds) : FX[p] = a * p[1] + b * p[2] + e
    BY <1>8, <1>9, <1>11
  <2> HIDE DEF a, b, e, C
  <2>2. /\ Width \in Nat /\ k[1] \in 0 .. Width
        /\ bounds \in [1 .. 4 -> Int] /\ bounds[1] < bounds[3] /\ bounds[2] < bounds[4]
        /\ x \in bounds[1] .. bounds[3] /\ z \in bounds[2] .. bounds[4]
        /\ d \in Int /\ d # 0
    BY <1>1, <1>2, <1>4, <1>5
  <2>a. Coordinate(FX, a, b, e, d, bounds, x, z, Width, k[1])
    BY <2>1, <2>2 DEF Coordinate
  <2>3. LET near == Near(FX, Cutout!Corners(bounds), d, Width)
            far == Far(FX, Cutout!Corners(bounds), d, Width)
        IN  near <= k[1] /\ k[1] <= far /\ (k[1] \in 1 .. Width - 1 => near < far)
    BY <2>a, AxisCovers
  <2> QED BY <1>13, <2>3 DEF C
<1>15. /\ c.top <= k[2] /\ k[2] <= c.bottom /\ (k[2] \in 1 .. Height - 1 => c.top < c.bottom)
  <2> HIDE DEF c
  <2> DEFINE a == -m2
             b == m1
             e == m2 * m5 - m1 * m6
  <2>1. /\ a \in Int /\ b \in Int /\ e \in Int /\ (a # 0 \/ b # 0)
        /\ a * x + b * z + e = d * k[2]
        /\ \A p \in Cutout!Corners(bounds) : FY[p] = a * p[1] + b * p[2] + e
    BY <1>8, <1>10, <1>12
  <2> HIDE DEF a, b, e, C
  <2>2. /\ Height \in Nat /\ k[2] \in 0 .. Height
        /\ bounds \in [1 .. 4 -> Int] /\ bounds[1] < bounds[3] /\ bounds[2] < bounds[4]
        /\ x \in bounds[1] .. bounds[3] /\ z \in bounds[2] .. bounds[4]
        /\ d \in Int /\ d # 0
    BY <1>1, <1>2, <1>4, <1>5
  <2>a. Coordinate(FY, a, b, e, d, bounds, x, z, Height, k[2])
    BY <2>1, <2>2 DEF Coordinate
  <2>3. LET near == Near(FY, Cutout!Corners(bounds), d, Height)
            far == Far(FY, Cutout!Corners(bounds), d, Height)
        IN  near <= k[2] /\ k[2] <= far /\ (k[2] \in 1 .. Height - 1 => near < far)
    BY <2>a, AxisCovers
  <2> QED BY <1>13, <2>3 DEF C
<1> QED BY <1>14, <1>15 DEF Cutout!Nonempty

LEMMA CropInside ==
  ASSUME CutTypes
  PROVE  LET c == Cutout!Covering(bounds) IN
         /\ c.left \in 0 .. Width /\ c.right \in 0 .. Width
         /\ c.top \in 0 .. Height /\ c.bottom \in 0 .. Height
<1> DEFINE c == Cutout!Covering(bounds)
           d == Cutout!Det(map)
           C == Cutout!Corners(bounds)
           FX == [p \in C |-> Cutout!InverseX(p)]
           FY == [p \in C |-> Cutout!InverseY(p)]
<1>1. /\ map[1] \in Int /\ map[2] \in Int /\ map[3] \in Int /\ map[4] \in Int
      /\ map[5] \in Int /\ map[6] \in Int /\ bounds \in [1 .. 4 -> Int]
  BY DEF CutTypes
<1>2. d \in Int /\ d # 0
  <2>1. map[1] * map[4] - map[2] * map[3] \in Int
    BY <1>1
  <2> QED BY <2>1 DEF CutTypes, Cutout!Det
<1>3. \A p \in C : FX[p] \in Int /\ FY[p] \in Int
  <2> SUFFICES ASSUME NEW p \in C PROVE Cutout!InverseX(p) \in Int /\ Cutout!InverseY(p) \in Int
    OBVIOUS
  <2>1. p[1] \in Int /\ p[2] \in Int
    BY <1>1 DEF Cutout!Corners
  <2>2. /\ map[4] * p[1] - map[3] * p[2] + map[3] * map[6] - map[4] * map[5] \in Int
        /\ map[1] * p[2] - map[2] * p[1] + map[2] * map[5] - map[1] * map[6] \in Int
    BY <1>1, <2>1
  <2> QED BY <2>2 DEF Cutout!InverseX, Cutout!InverseY
<1>4. /\ c.left = Near(FX, C, d, Width) /\ c.right = Far(FX, C, d, Width)
      /\ c.top = Near(FY, C, d, Height) /\ c.bottom = Far(FY, C, d, Height)
  BY CoveringSides DEF AtCornersX, AtCornersY
<1> HIDE DEF FX, FY, c, d
<1>5. /\ Cutout!Min(Floors(FX, C, d)) \in Int /\ Cutout!Max(Ceilings(FX, C, d)) \in Int
      /\ Cutout!Min(Floors(FY, C, d)) \in Int /\ Cutout!Max(Ceilings(FY, C, d)) \in Int
  BY <1>1, <1>2, <1>3, CornerExtremes
<1>6. Width \in Nat /\ Height \in Nat
  BY PartsAssumption
<1> QED BY <1>4, <1>5, <1>6, CutClamp DEF Near, Far, c

(* The gray levels of a crop, and what trimming leaves.                      *)
LEMMA TrimFacts ==
  ASSUME CutTypes, phase \in {"cropped", "trimmed"}
  PROVE  LET c == region  t == Cutout!Trimmed(region) IN
         /\ c.left \in 0 .. Width /\ c.right \in 0 .. Width
         /\ c.top \in 0 .. Height /\ c.bottom \in 0 .. Height /\ Cutout!Nonempty(c)
         /\ Cutout!Low(c) = Cutout!High(c) => \A p \in Cutout!Inside(c) : gray[p] = Cutout!Low(c)
         /\ Cutout!Low(c) # Cutout!High(c) =>
              /\ t.left \in c.left .. c.right /\ t.right \in c.left .. c.right
              /\ t.top \in c.top .. c.bottom /\ t.bottom \in c.top .. c.bottom
              /\ Cutout!Nonempty(t) /\ Cutout!Dark(c) \subseteq Cutout!Inside(t)
              /\ \E p \in Cutout!Dark(c) : p[1] = t.left
              /\ \E p \in Cutout!Dark(c) : p[1] = t.right - 1
              /\ \E p \in Cutout!Dark(c) : p[2] = t.top
              /\ \E p \in Cutout!Dark(c) : p[2] = t.bottom - 1
<1> DEFINE c == region
           t == Cutout!Trimmed(region)
           levels == {gray[p] : p \in Cutout!Inside(c)}
           low == Cutout!Low(c)
           high == Cutout!High(c)
           D == Cutout!Dark(c)
<1>1. /\ c.left \in 0 .. Width /\ c.right \in 0 .. Width /\ c.left < c.right
      /\ c.top \in 0 .. Height /\ c.bottom \in 0 .. Height /\ c.top < c.bottom
  BY CropInside DEF CutTypes, Cutout!Nonempty
<1>2. Width \in Nat /\ Height \in Nat /\ White \in Nat /\ Grays \subseteq 0 .. White
  BY PartsAssumption
<1>3. /\ c.left \in Int /\ c.right \in Int /\ c.top \in Int /\ c.bottom \in Int
  BY <1>1, <1>2
<1>4. /\ Cutout!Inside(c) = (c.left .. c.right - 1) \X (c.top .. c.bottom - 1)
      /\ Cutout!Inside(c) # {}
  <2>1. c.left \in c.left .. c.right - 1 /\ c.top \in c.top .. c.bottom - 1
    BY <1>1, <1>3
  <2>2. Cutout!Inside(c) = (c.left .. c.right - 1) \X (c.top .. c.bottom - 1)
    BY DEF Cutout!Inside, Cutout!InsideX, Cutout!InsideY
  <2>3. <<c.left, c.top>> \in Cutout!Inside(c)
    BY <2>1, <2>2
  <2> QED BY <2>2, <2>3
<1>5. \A p \in Cutout!Inside(c) : gray[p] \in 0 .. White
  <2> TAKE p \in Cutout!Inside(c)
  <2>1. p[1] \in c.left .. c.right - 1 /\ p[2] \in c.top .. c.bottom - 1 /\ p = <<p[1], p[2]>>
    BY <1>4
  <2>2. p[1] \in 0 .. Width - 1 /\ p[2] \in 0 .. Height - 1
    BY <1>1, <1>2, <1>3, <2>1
  <2>3. p \in Cutout!Columns \X Cutout!Lines
    BY <2>1, <2>2 DEF Cutout!Columns, Cutout!Lines
  <2> QED BY <1>2, <2>3 DEF CutTypes
<1> HIDE DEF c
<1>6. /\ low \in levels /\ high \in levels /\ low \in Int /\ high \in Int
      /\ \A l \in levels : l \in Int /\ low <= l /\ l <= high
  <2>1. levels \subseteq Int /\ levels # {} /\ 0 \in Int /\ White \in Int
        /\ \A l \in levels : 0 <= l /\ l <= White
    BY <1>2, <1>4, <1>5
  <2>2. low = Cutout!Min(levels) /\ high = Cutout!Max(levels)
    BY DEF Cutout!Low, Cutout!High
  <2> HIDE DEF levels, low, high
  <2>3. low \in levels /\ (\A l \in levels : low <= l)
    BY <2>1, <2>2, CutMin
  <2>4. high \in levels /\ (\A l \in levels : high >= l)
    BY <2>1, <2>2, CutMax
  <2>5. \A l \in levels : l \in Int
    BY <2>1
  <2> QED BY <2>3, <2>4, <2>5
<1> HIDE DEF low, high
<1>7. low = high => \A p \in Cutout!Inside(c) : gray[p] = low
  <2>1. \A p \in Cutout!Inside(c) : gray[p] \in levels
    OBVIOUS
  <2> HIDE DEF levels
  <2> SUFFICES ASSUME low = high, NEW p \in Cutout!Inside(c) PROVE gray[p] = low
    OBVIOUS
  <2>2. gray[p] \in Int /\ low <= gray[p] /\ gray[p] <= high
    BY <1>6, <2>1
  <2> QED BY <1>6, <2>2
<1>8. ASSUME low # high
      PROVE  /\ t.left \in c.left .. c.right /\ t.right \in c.left .. c.right
             /\ t.top \in c.top .. c.bottom /\ t.bottom \in c.top .. c.bottom
             /\ Cutout!Nonempty(t) /\ D \subseteq Cutout!Inside(t)
             /\ \E p \in D : p[1] = t.left
             /\ \E p \in D : p[1] = t.right - 1
             /\ \E p \in D : p[2] = t.top
             /\ \E p \in D : p[2] = t.bottom - 1
  <2>1. D = {p \in Cutout!Inside(c) : (gray[p] - low) * 255 < 200 * (high - low)}
    BY DEF Cutout!Dark, low, high
  <2>2. D # {}
    <3>1. PICK p \in Cutout!Inside(c) : gray[p] = low
      BY <1>6
    <3>2. low < high
      <4>1. low <= high
        BY <1>6
      <4> QED BY <1>6, <1>8, <4>1
    <3>3. (low - low) * 255 < 200 * (high - low)
      BY <1>6, <3>2
    <3> QED BY <2>1, <3>1, <3>3
  <2>3. \A p \in D : /\ p \in Cutout!Inside(c) /\ p = <<p[1], p[2]>>
                     /\ p[1] \in c.left .. c.right - 1 /\ p[2] \in c.top .. c.bottom - 1
    BY <1>4, <2>1
  <2> HIDE DEF D
  <2> DEFINE ls == {p[1] - c.left : p \in D}
             rs == {p[1] - c.left + 1 : p \in D}
             ts == {p[2] - c.top : p \in D}
             bs == {p[2] - c.top + 1 : p \in D}
             l == Cutout!Min(ls)
             r == Cutout!Max(rs)
             u == Cutout!Min(ts)
             b == Cutout!Max(bs)
  <2>4. l \in ls /\ \A n \in ls : l <= n
    <3>1. \A p \in D : p[1] - c.left \in Int /\ 0 <= p[1] - c.left
      BY <1>3, <2>3
    <3>2. ls \subseteq Int /\ ls # {} /\ \A n \in ls : 0 <= n
      BY <2>2, <3>1
    <3>3. 0 \in Int
      OBVIOUS
    <3> HIDE DEF ls
    <3> QED BY <3>2, <3>3, CutMin
  <2>5. r \in rs /\ \A n \in rs : r >= n
    <3>1. \A p \in D : p[1] - c.left + 1 \in Int /\ p[1] - c.left + 1 <= c.right - c.left
      BY <1>3, <2>3
    <3>2. rs \subseteq Int /\ rs # {} /\ \A n \in rs : n <= c.right - c.left
      BY <2>2, <3>1
    <3>3. c.right - c.left \in Int
      BY <1>3
    <3> HIDE DEF rs
    <3> QED BY <3>2, <3>3, CutMax
  <2>6. u \in ts /\ \A n \in ts : u <= n
    <3>1. \A p \in D : p[2] - c.top \in Int /\ 0 <= p[2] - c.top
      BY <1>3, <2>3
    <3>2. ts \subseteq Int /\ ts # {} /\ \A n \in ts : 0 <= n
      BY <2>2, <3>1
    <3>3. 0 \in Int
      OBVIOUS
    <3> HIDE DEF ts
    <3> QED BY <3>2, <3>3, CutMin
  <2>7. b \in bs /\ \A n \in bs : b >= n
    <3>1. \A p \in D : p[2] - c.top + 1 \in Int /\ p[2] - c.top + 1 <= c.bottom - c.top
      BY <1>3, <2>3
    <3>2. bs \subseteq Int /\ bs # {} /\ \A n \in bs : n <= c.bottom - c.top
      BY <2>2, <3>1
    <3>3. c.bottom - c.top \in Int
      BY <1>3
    <3> HIDE DEF bs
    <3> QED BY <3>2, <3>3, CutMax
  <2>8. /\ t.left = c.left + l /\ t.right = c.left + r
        /\ t.top = c.top + u /\ t.bottom = c.top + b
    BY DEF Cutout!Trimmed, c, D
  <2> HIDE DEF l, r, u, b, t
  <2>9. PICK p1 \in D : l = p1[1] - c.left
    BY <2>4
  <2>10. PICK p2 \in D : r = p2[1] - c.left + 1
    BY <2>5
  <2>11. PICK p3 \in D : u = p3[2] - c.top
    BY <2>6
  <2>12. PICK p4 \in D : b = p4[2] - c.top + 1
    BY <2>7
  <2>13. /\ t.left = p1[1] /\ t.right = p2[1] + 1 /\ t.top = p3[2] /\ t.bottom = p4[2] + 1
    BY <1>3, <2>3, <2>8, <2>9, <2>10, <2>11, <2>12
  <2>14. \A p \in D : p[1] \in t.left .. t.right - 1 /\ p[2] \in t.top .. t.bottom - 1
    <3> TAKE p \in D
    <3>1. /\ p[1] \in Int /\ p[2] \in Int /\ p1[1] \in Int /\ p2[1] \in Int
          /\ p3[2] \in Int /\ p4[2] \in Int
      BY <1>3, <2>3
    <3>2. /\ l <= p[1] - c.left /\ r >= p[1] - c.left + 1
          /\ u <= p[2] - c.top /\ b >= p[2] - c.top + 1
      BY <2>4, <2>5, <2>6, <2>7
    <3>3. p1[1] <= p[1] /\ p2[1] >= p[1]
      BY <1>3, <2>9, <2>10, <3>1, <3>2
    <3>4. p3[2] <= p[2] /\ p4[2] >= p[2]
      BY <1>3, <2>11, <2>12, <3>1, <3>2
    <3> QED BY <2>13, <3>1, <3>3, <3>4
  <2>15. /\ p1[1] \in c.left .. c.right - 1 /\ p2[1] \in c.left .. c.right - 1
         /\ p3[2] \in c.top .. c.bottom - 1 /\ p4[2] \in c.top .. c.bottom - 1
    BY <2>3
  <2>16. /\ t.left \in c.left .. c.right /\ t.right \in c.left .. c.right
         /\ t.top \in c.top .. c.bottom /\ t.bottom \in c.top .. c.bottom
    BY <1>3, <2>13, <2>15
  <2>17. Cutout!Nonempty(t)
    <3>1. p1[1] \in t.left .. t.right - 1 /\ p1[2] \in t.top .. t.bottom - 1
      BY <2>14
    <3>2. /\ t.left \in Int /\ t.right \in Int /\ t.top \in Int /\ t.bottom \in Int
      BY <1>3, <2>16
    <3> QED BY <3>1, <3>2 DEF Cutout!Nonempty
  <2>18. D \subseteq Cutout!Inside(t)
    BY <2>3, <2>14 DEF Cutout!Inside, Cutout!InsideX, Cutout!InsideY
  <2>19. /\ t.right - 1 = p2[1] /\ t.bottom - 1 = p4[2]
    BY <1>3, <2>13, <2>15
  <2> QED BY <2>13, <2>16, <2>17, <2>18, <2>19
<1>9. Cutout!Nonempty(c)
  BY <1>1 DEF Cutout!Nonempty
<1> QED BY <1>1, <1>7, <1>8, <1>9 DEF c, low, high

(* For every page map that has an inverse, all bounds, and every raster: the *)
(* crop of a formula has every pixel corner the map puts inside the bounds,  *)
(* and is refused only when none is off the raster's border; what is trimmed *)
(* from it stays a part of it that is not empty; and the trimmed crop holds  *)
(* all of the ink, with ink on each of its sides.                            *)
THEOREM CropShowsTheFormula ==
  PartsSpec => [](part = "cutout" =>
                    Cutout!CoversTheRegion /\ Cutout!NeverEmpty /\ Cutout!FitsTheInk)
<1> SUFFICES ASSUME CutInv, part = "cutout"
             PROVE  Cutout!CoversTheRegion /\ Cutout!NeverEmpty /\ Cutout!FitsTheInk
  BY CutInvariant, PTL
<1>1. CutTypes
  BY DEF CutInv
<1>2. Cutout!CoversTheRegion
  <2> SUFFICES ASSUME NEW k \in Cutout!PixelCorners,
                      Cutout!Within(Cutout!ToPage(k[1], k[2]), bounds)
               PROVE  /\ phase = "cropped" => /\ crop.left <= k[1] /\ k[1] <= crop.right
                                              /\ crop.top <= k[2] /\ k[2] <= crop.bottom
                      /\ phase = "error" => k[1] \in {0, Width} \/ k[2] \in {0, Height}
    BY DEF Cutout!CoversTheRegion
  <2>1. LET c == Cutout!Covering(bounds) IN
        /\ c.left <= k[1] /\ k[1] <= c.right /\ c.top <= k[2] /\ k[2] <= c.bottom
        /\ (k[1] \in 1 .. Width - 1 /\ k[2] \in 1 .. Height - 1 => Cutout!Nonempty(c))
    BY <1>1, CropCovers
  <2>2. k[1] \in 0 .. Width /\ k[2] \in 0 .. Height /\ Width \in Nat /\ Height \in Nat
    BY PartsAssumption DEF Cutout!PixelCorners
  <2>3. /\ k[1] \in {0, Width} \/ k[1] \in 1 .. Width - 1
        /\ k[2] \in {0, Height} \/ k[2] \in 1 .. Height - 1
    BY <2>2
  <2>4. phase = "cropped" => crop = Cutout!Covering(bounds)
    BY <1>1 DEF CutTypes
  <2>5. phase = "error" => ~Cutout!Nonempty(Cutout!Covering(bounds))
    BY <1>1 DEF CutTypes
  <2> QED BY <2>1, <2>3, <2>4, <2>5
<1>3. Cutout!NeverEmpty
  <2> SUFFICES ASSUME phase \in {"cropped", "trimmed"}
               PROVE  /\ Cutout!Nonempty(crop)
                      /\ region.left <= crop.left /\ crop.right <= region.right
                      /\ region.top <= crop.top /\ crop.bottom <= region.bottom
                      /\ region.right <= Width /\ region.bottom <= Height
    BY DEF Cutout!NeverEmpty
  <2>1. /\ region.left \in Int /\ region.right \in Int /\ region.right <= Width
        /\ region.top \in Int /\ region.bottom \in Int /\ region.bottom <= Height
        /\ Cutout!Nonempty(region)
    <3>1. Width \in Nat /\ Height \in Nat
      BY PartsAssumption
    <3> QED BY <1>1, <3>1, TrimFacts
  <2>2. CASE crop = region
    BY <2>1, <2>2
  <2>3. CASE Cutout!Low(region) # Cutout!High(region) /\ crop = Cutout!Trimmed(region)
    <3>1. /\ crop.left \in region.left .. region.right /\ crop.right \in region.left .. region.right
          /\ crop.top \in region.top .. region.bottom
          /\ crop.bottom \in region.top .. region.bottom
          /\ Cutout!Nonempty(crop)
      BY <1>1, <2>3, TrimFacts
    <3> QED BY <2>1, <3>1
  <2> QED BY <1>1, <2>2, <2>3 DEF CutTypes
<1>4. Cutout!FitsTheInk
  <2> SUFFICES ASSUME phase = "trimmed",
                      Cutout!Cardinality({gray[p] : p \in Cutout!Inside(region)}) > 1
               PROVE  /\ Cutout!Dark(region) \subseteq Cutout!Inside(crop)
                      /\ \E p \in Cutout!Dark(region) : p[1] = crop.left
                      /\ \E p \in Cutout!Dark(region) : p[1] = crop.right - 1
                      /\ \E p \in Cutout!Dark(region) : p[2] = crop.top
                      /\ \E p \in Cutout!Dark(region) : p[2] = crop.bottom - 1
    BY DEF Cutout!FitsTheInk, Cutout!Dark
  <2>1. Cutout!Low(region) # Cutout!High(region)
    <3> SUFFICES ASSUME Cutout!Low(region) = Cutout!High(region) PROVE FALSE
      OBVIOUS
    <3> DEFINE levels == {gray[p] : p \in Cutout!Inside(region)}
    <3>1. \A p \in Cutout!Inside(region) : gray[p] = Cutout!Low(region)
      BY <1>1, TrimFacts
    <3>2. levels = {} \/ levels = {Cutout!Low(region)}
      BY <3>1
    <3>3. Cutout!Cardinality(levels) = Cardinality(levels)
      BY DEF Cutout!Cardinality, Cardinality
    <3> HIDE DEF levels
    <3>4. Cardinality(levels) = 0 \/ Cardinality(levels) = 1
      BY <3>2, FS_Singleton, FS_EmptySet
    <3> QED BY <3>3, <3>4 DEF levels
  <2>2. crop = Cutout!Trimmed(region)
    BY <1>1, <2>1 DEF CutTypes
  <2> QED BY <1>1, <2>1, <2>2, TrimFacts
<1> QED BY <1>2, <1>3, <1>4

-----------------------------------------------------------------------------
(* The thumbnail of a formula, for every crop and side of the square.        *)
LEMMA ScaledUp ==
  ASSUME NEW a \in Nat, NEW u \in Int, NEW v \in Int, u <= v
  PROVE  a * u <= a * v
BY Scaled

LEMMA ScaledDown ==
  ASSUME NEW a \in Nat \ {0}, NEW u \in Int, NEW v \in Int, a * u <= a * v
  PROVE  u <= v
<1> SUFFICES ASSUME v < u PROVE FALSE
  OBVIOUS
<1>1. a * v + a <= a * u
  BY ProductGrows
<1>2. a * v \in Int /\ a * u \in Int
  OBVIOUS
<1> QED BY <1>1, <1>2

Once(long, short, e) == (long * e) \div short
Twice(long, short, e) == (e * e) \div Once(long, short, e)

(* A long and a short side, scaled until the short one is e, and then until  *)
(* the long one is, rounding down each time, keep their ratio to one pixel.  *)
LEMMA TwiceRounded ==
  ASSUME NEW long \in Nat \ {0}, NEW short \in Nat \ {0}, short <= long, NEW e \in Nat \ {0}
  PROVE  LET F == Once(long, short, e)  T == Twice(long, short, e) IN
         /\ F \in Nat /\ F >= e /\ T \in 0 .. e
         /\ F = e => T = e
         /\ T * long - e * short \in Int
         /\ T * long - e * short <= long /\ -(T * long - e * short) <= long
<1> DEFINE F == (long * e) \div short
           T == (e * e) \div F
<1>1. F \in Int /\ short * F <= long * e /\ long * e < short * F + short
  <2>1. long * e \in Int
    OBVIOUS
  <2> QED BY <2>1, Quotient
<1>2. F >= e
  <2>1. e * short <= e * long
    BY ScaledUp
  <2>2. short * e <= long * e /\ long * e \in Int
    BY <2>1
  <2> QED BY <2>2, QuotientBounds
<1>3. F \in Nat \ {0}
  <2> HIDE DEF F
  <2> QED BY <1>1, <1>2
<1> HIDE DEF F
<1>4. e * e \in Int /\ T \in Int /\ F * T <= e * e /\ e * e < F * T + F
  <2>1. e * e \in Int
    OBVIOUS
  <2> QED BY <1>3, <2>1, Quotient
<1>5. T <= e /\ 0 <= T
  <2>1. e * e <= e * F
    BY <1>2, <1>3, ScaledUp
  <2>2. e * e <= F * e
    BY <1>3, <2>1
  <2>3. F * 0 <= e * e
    BY <1>3
  <2> QED BY <1>3, <1>4, <2>2, <2>3, QuotientBounds
<1>6. F = e => T = e
  <2> SUFFICES ASSUME F = e PROVE T = e
    OBVIOUS
  <2>1. F * e <= e * e
    OBVIOUS
  <2>2. e <= T
    BY <1>3, <1>4, <2>1, QuotientBounds
  <2> HIDE DEF T
  <2> QED BY <1>4, <1>5, <2>2
<1> HIDE DEF T
<1>7. T * long <= e * short + long
  <2>1. T \in Nat
    BY <1>4, <1>5
  <2>2. T * (long * e) <= T * (short * F + short)
    <3>1. long * e \in Int /\ short * F + short \in Int /\ long * e <= short * F + short
      <4>1. long * e \in Int /\ short * F \in Int
        BY <1>3
      <4> QED BY <1>1, <4>1
    <3> QED BY <2>1, <3>1, ScaledUp
  <2>3. short * (F * T) <= short * (e * e)
    <3>1. F * T \in Int /\ e * e \in Int /\ F * T <= e * e
      BY <1>3, <1>4
    <3> QED BY <3>1, ScaledUp
  <2>4. T * short <= e * long
    <3>1. short * T <= short * e
      BY <1>4, <1>5, ScaledUp
    <3>2. e * short <= e * long
      BY ScaledUp
    <3>3. short * T = T * short /\ short * e = e * short
      BY <2>1
    <3>4. T * short \in Int /\ e * short \in Int /\ e * long \in Int
      BY <2>1
    <3> QED BY <3>1, <3>2, <3>3, <3>4
  <2>5. T * (short * F + short) = short * (F * T) + T * short
    BY <1>3, <2>1
  <2>6. e * (T * long) = T * (long * e)
    BY <2>1
  <2>7. e * (e * short + long) = short * (e * e) + e * long
    OBVIOUS
  <2>8. /\ T * (long * e) \in Int /\ T * (short * F + short) \in Int /\ short * (F * T) \in Int
        /\ short * (e * e) \in Int /\ T * short \in Int /\ e * long \in Int
    BY <1>3, <2>1
  <2>9. T * (short * F + short) <= short * (e * e) + e * long
    BY <2>3, <2>4, <2>5, <2>8
  <2>10. e * (T * long) <= e * (e * short + long)
    <3>1. T * (long * e) <= short * (e * e) + e * long
      BY <2>2, <2>8, <2>9
    <3> QED BY <2>6, <2>7, <3>1
  <2>11. T * long \in Int /\ e * short + long \in Int
    BY <2>1
  <2> QED BY <2>10, <2>11, ScaledDown
<1>8. e * short <= T * long + long
  <2>1. T \in Nat
    BY <1>4, <1>5
  <2>2. short * (e * e) <= short * (F * T + F)
    <3>1. F * T + F \in Int /\ e * e \in Int /\ e * e <= F * T + F
      <4>1. F * T \in Int
        BY <1>3, <2>1
      <4> QED BY <1>3, <1>4, <4>1
    <3> QED BY <3>1, ScaledUp
  <2>3. (T + 1) * (short * F) <= (T + 1) * (long * e)
    <3>1. T + 1 \in Nat /\ short * F \in Int /\ long * e \in Int
      BY <1>3, <2>1
    <3> QED BY <1>1, <3>1, ScaledUp
  <2>4. short * (F * T + F) = (T + 1) * (short * F)
    BY <1>3, <2>1
  <2>5. e * (e * short) = short * (e * e)
    OBVIOUS
  <2>6. e * (T * long + long) = (T + 1) * (long * e)
    BY <2>1
  <2>7. /\ short * (e * e) \in Int /\ short * (F * T + F) \in Int
        /\ (T + 1) * (long * e) \in Int /\ (T + 1) * (short * F) \in Int
    BY <1>3, <2>1
  <2>8. e * (e * short) <= e * (T * long + long)
    <3>1. short * (e * e) <= (T + 1) * (long * e)
      BY <2>2, <2>3, <2>4, <2>7
    <3> QED BY <2>5, <2>6, <3>1
  <2>9. e * short \in Int /\ T * long + long \in Int
    BY <2>1
  <2> QED BY <2>8, <2>9, ScaledDown
<1>9. T * long \in Int /\ e * short \in Int
  BY <1>4
<1>10. /\ T * long - e * short \in Int
       /\ T * long - e * short <= long /\ -(T * long - e * short) <= long
  BY <1>7, <1>8, <1>9
<1> QED BY <1>2, <1>3, <1>4, <1>5, <1>6, <1>10 DEF F, T, Once, Twice

(* The sizes, as the code finds them.                                        *)
LEMMA ImageMin ==
  ASSUME NEW a \in Int, NEW b \in Int
  PROVE  /\ Image!Min({a, b}) = (IF a <= b THEN a ELSE b)
         /\ Image!Max({a, b}) = (IF a >= b THEN a ELSE b)
  BY DEF Image!Min, Image!Max

LEMMA ImageAbs ==
  ASSUME NEW v \in Int, NEW n \in Int, v <= n, -v <= n
  PROVE  Image!Abs(v) <= n
  BY DEF Image!Abs

Sized == thumbnail = Image!ThumbnailOf(first) /\ first = Image!FirstSize
SizeTypes ==
    /\ edge \in Nat \ {0} /\ original.w \in Nat \ {0} /\ original.h \in Nat \ {0}

LEMMA ThumbnailFits ==
  ASSUME SizeTypes, NEW a, a = Image!FirstSize, NEW b, b = Image!ThumbnailOf(a),
         ~Image!Empty(b)
  PROVE  LET long == Image!Max({original.w, original.h})
             short == Image!Min({original.w, original.h}) IN
         /\ b.w \in 1 .. edge /\ b.h \in 1 .. edge
         /\ Image!Max({b.w, b.h}) = edge
         /\ Image!Abs(Image!Min({b.w, b.h}) * long - edge * short) <= long
<1> DEFINE w == original.w  h == original.h
           long == IF w < h THEN h ELSE w
           short == IF w < h THEN w ELSE h
           F == Once(long, short, edge)
           T == Twice(long, short, edge)
<1>1. w \in Nat \ {0} /\ h \in Nat \ {0} /\ edge \in Nat \ {0}
  BY DEF SizeTypes
<1>2. long \in Nat \ {0} /\ short \in Nat \ {0} /\ short <= long
  BY <1>1
<1>3. Image!Max({w, h}) = long /\ Image!Min({w, h}) = short
  BY <1>1, ImageMin
<1>4. a = IF w < h THEN [w |-> edge, h |-> F] ELSE [w |-> F, h |-> edge]
  BY DEF Image!FirstSize, Once
<1> HIDE DEF long, short
<1>5. /\ F \in Nat /\ F >= edge /\ T \in 0 .. edge /\ (F = edge => T = edge)
      /\ T * long - edge * short \in Int
      /\ T * long - edge * short <= long /\ -(T * long - edge * short) <= long
  BY <1>1, <1>2, TwiceRounded
<1> HIDE DEF F, T
<1>6. b = IF w < h THEN [w |-> T, h |-> edge] ELSE [w |-> edge, h |-> T]
  <2>1. CASE w < h
    <3>1. a.w = edge /\ a.h = F
      BY <1>4, <2>1
    <3>2. ~(a.w > a.h)
      BY <1>1, <1>5, <3>1
    <3>3. b = IF F > edge THEN [w |-> T, h |-> edge] ELSE [w |-> edge, h |-> edge]
      BY <3>1, <3>2 DEF Image!ThumbnailOf, T, Twice, F
    <3>4. F > edge \/ F = edge
      BY <1>1, <1>5
    <3> QED BY <1>5, <2>1, <3>3, <3>4
  <2>2. CASE ~(w < h)
    <3>1. a.w = F /\ a.h = edge
      BY <1>4, <2>2
    <3>2. F > edge => b = [w |-> edge, h |-> T]
      BY <3>1 DEF Image!ThumbnailOf, T, Twice, F
    <3>3. F = edge => b = [w |-> edge, h |-> edge]
      BY <1>1, <3>1 DEF Image!ThumbnailOf, T, Twice, F
    <3>4. F > edge \/ F = edge
      BY <1>1, <1>5
    <3> QED BY <1>5, <2>2, <3>2, <3>3, <3>4
  <2> QED BY <2>1, <2>2
<1>7. T \in Int /\ T # 0 /\ T <= edge /\ 0 <= T
  <2>1. T # 0
    BY <1>6 DEF Image!Empty
  <2> QED BY <1>1, <1>5, <2>1
<1>8. /\ b.w \in 1 .. edge /\ b.h \in 1 .. edge
  BY <1>1, <1>6, <1>7
<1>9. \/ b.w = T /\ b.h = edge
      \/ b.w = edge /\ b.h = T
  BY <1>6
<1>10. /\ Image!Max({b.w, b.h}) = edge
       /\ Image!Min({b.w, b.h}) = T
  <2>1. T \in Int /\ edge \in Int
    BY <1>1, <1>7
  <2>2. {b.w, b.h} = {T, edge}
    BY <1>9
  <2>3. /\ Image!Min({T, edge}) = (IF T <= edge THEN T ELSE edge)
        /\ Image!Max({T, edge}) = (IF T >= edge THEN T ELSE edge)
    BY <2>1, ImageMin
  <2>4. T >= edge => T = edge
    BY <1>7, <2>1
  <2> QED BY <1>7, <2>2, <2>3, <2>4
<1>11. Image!Abs(T * long - edge * short) <= long
  <2>1. long \in Int
    BY <1>2
  <2> QED BY <1>5, <2>1, ImageAbs
<1> QED BY <1>3, <1>8, <1>10, <1>11

(* The inductive invariant of the thumbnail: the rows made so far are placed *)
(* in their order from the margin down.                                      *)
ImageTypes ==
    /\ SizeTypes /\ phase \in {"sizes", "rows", "done", "error"}
    /\ phase = "sizes" => made = <<>> /\ placed = [r \in {} |-> 0]
    /\ phase \in {"rows", "done"} =>
         LET margin == Image!Margin(thumbnail.h) IN
         /\ Sized /\ ~Image!Empty(first) /\ ~Image!Empty(thumbnail)
         /\ IsSequence(made) /\ Len(made) <= thumbnail.h
         /\ placed = [r \in margin .. margin + Len(made) - 1 |-> r - margin]
    /\ phase = "rows" => Len(made) < thumbnail.h
    /\ phase = "done" => Len(made) = thumbnail.h
ImageInv == part = "image" => ImageTypes

LEMMA ImageStart == PartsInit => ImageInv
<1> SUFFICES ASSUME part = "image", Image!Init PROVE ImageTypes
  BY DEF PartsInit, ImageInv
<1>1. edge \in SquareSides /\ original \in [w : Widths, h : Heights] /\ phase = "sizes"
      /\ made = <<>> /\ placed = [r \in {} |-> 0]
  BY DEF Image!Init
<1>2. SquareSides \subseteq Nat \ {0} /\ Widths \subseteq Nat \ {0} /\ Heights \subseteq Nat \ {0}
  BY PartsAssumption
<1> QED BY <1>1, <1>2 DEF ImageTypes, SizeTypes

LEMMA MarginInside ==
  ASSUME edge \in Nat \ {0}, NEW n \in 1 .. edge
  PROVE  LET margin == Image!Margin(n) IN
         margin \in Nat /\ margin + n <= edge /\ edge - n - 2 * margin \in {0, 1}
<1> DEFINE q == (edge - n) \div 2
<1>1. edge - n \in Nat
  OBVIOUS
<1>2. q \in Int /\ 2 * q <= edge - n /\ edge - n < 2 * q + 2
  BY <1>1, Quotient
<1>3. Image!Margin(n) = q
  BY DEF Image!Margin
<1> HIDE DEF q
<1> QED BY <1>1, <1>2, <1>3

LEMMA ImageSizes ==
  ASSUME ImageTypes, Image!Start
  PROVE  ImageTypes'
<1> DEFINE a == Image!FirstSize
           b == Image!ThumbnailOf(a)
<1>1. /\ SizeTypes /\ phase = "sizes" /\ made = <<>> /\ placed = [r \in {} |-> 0]
      /\ first' = a /\ thumbnail' = b /\ phase' \in {"error", "rows"}
      /\ phase' = "rows" => ~Image!Empty(a) /\ ~Image!Empty(b)
      /\ UNCHANGED <<edge, original, made, placed>>
  BY DEF ImageTypes, Image!Start, Image!input
<1>2. Image!FirstSize' = a /\ Image!ThumbnailOf(first)' = b
  BY <1>1 DEF Image!FirstSize, Image!ThumbnailOf
<1>3. SizeTypes'
  BY <1>1 DEF SizeTypes
<1>4. Sized'
  BY <1>1, <1>2 DEF Sized
<1>5. ASSUME phase' = "rows"
      PROVE  LET margin == Image!Margin(thumbnail.h)' IN
             /\ ~Image!Empty(first') /\ ~Image!Empty(thumbnail')
             /\ IsSequence(made') /\ Len(made') = 0
             /\ Len(made') < thumbnail'.h
             /\ placed' = [r \in margin .. margin + Len(made') - 1 |-> r - margin]
  <2> DEFINE margin == Image!Margin(thumbnail.h)'
  <2>1. /\ ~Image!Empty(first') /\ ~Image!Empty(thumbnail')
        /\ IsSequence(made') /\ Len(made') = 0
    BY <1>1, <1>5, EmptyStream DEF Image!Empty
  <2>2. thumbnail'.h \in 1 .. edge'
    BY <1>1, <1>5, ThumbnailFits
  <2>3. margin \in Nat
    <3>1. edge' \in Nat \ {0}
      BY <1>3 DEF SizeTypes
    <3>2. margin = (edge' - thumbnail'.h) \div 2
      BY DEF Image!Margin
    <3>3. edge' - thumbnail'.h \in Nat
      BY <2>2, <3>1
    <3> QED BY <3>2, <3>3
  <2> HIDE DEF margin
  <2>4. margin .. margin + Len(made') - 1 = {}
    BY <2>1, <2>3
  <2>5. placed' = [r \in {} |-> 0]
    BY <1>1
  <2>6. [r \in {} |-> 0] = [r \in {} |-> r - margin]
    OBVIOUS
  <2>7. placed' = [r \in margin .. margin + Len(made') - 1 |-> r - margin]
    BY <2>4, <2>5, <2>6
  <2>8. edge' \in Nat \ {0}
    BY <1>3 DEF SizeTypes
  <2>9. Len(made') < thumbnail'.h
    BY <2>1, <2>2, <2>8
  <2> QED BY <2>1, <2>7, <2>9 DEF margin
<1> QED
  <2>1. CASE phase' = "error"
    BY <1>3, <2>1 DEF ImageTypes
  <2>2. CASE phase' = "rows"
    <3>1. Len(made') <= thumbnail'.h
      <4>1. thumbnail'.h \in 1 .. edge'
        BY <1>1, <2>2, ThumbnailFits
      <4>2. edge' \in Nat
        BY <1>3 DEF SizeTypes
      <4> QED BY <1>5, <2>2, <4>1, <4>2
    <3>2. ~Image!Empty(first)' /\ ~Image!Empty(thumbnail)'
      BY <1>5, <2>2 DEF Image!Empty
    <3> QED BY <1>3, <1>4, <1>5, <2>2, <3>1, <3>2 DEF ImageTypes
  <2> QED BY <1>1, <2>1, <2>2

LEMMA ImageRow ==
  ASSUME ImageTypes, Image!MakeRow
  PROVE  ImageTypes'
<1> DEFINE n == Len(made)
           H == thumbnail.h
           margin == Image!Margin(H)
           row == Image!SecondRow(n).row
<1>1. /\ SizeTypes /\ Sized /\ ~Image!Empty(first) /\ ~Image!Empty(thumbnail)
      /\ phase = "rows"
      /\ IsSequence(made) /\ n < H
      /\ placed = [r \in margin .. margin + n - 1 |-> r - margin]
  BY DEF ImageTypes, Image!MakeRow
<1>2. /\ made' = Append(made, row)
      /\ placed' = [r \in DOMAIN placed \cup {n + margin} |->
                      IF r = n + margin THEN n ELSE placed[r]]
      /\ phase' = (IF n + 1 = H THEN "done" ELSE "rows")
      /\ UNCHANGED <<edge, original, first, thumbnail>>
  BY DEF Image!MakeRow, Image!input
<1> HIDE DEF row
<1>3. H \in 1 .. edge /\ edge \in Nat \ {0}
  BY <1>1, ThumbnailFits DEF SizeTypes, Sized
<1>4. margin \in Nat
  BY <1>3, MarginInside
<1>5. n \in Nat /\ IsSequence(made') /\ Len(made') = n + 1
  BY <1>1, <1>2, AppendFacts, SequenceFacts
<1>6. thumbnail'.h = H /\ Image!Margin(thumbnail.h)' = margin
  BY <1>2 DEF Image!Margin
<1>7. SizeTypes' /\ Sized' /\ ~Image!Empty(first') /\ ~Image!Empty(thumbnail')
  BY <1>1, <1>2 DEF SizeTypes, Sized, Image!FirstSize, Image!ThumbnailOf, Image!Empty
<1> HIDE DEF n, margin, H
<1>8. placed' = [r \in margin .. margin + Len(made') - 1 |-> r - margin]
  <2>1. DOMAIN placed = margin .. margin + n - 1
    BY <1>1
  <2>2. (margin .. margin + n - 1) \cup {n + margin} = margin .. margin + (n + 1) - 1
    BY <1>4, <1>5
  <2>3. \A r \in margin .. margin + (n + 1) - 1 :
          (IF r = n + margin THEN n ELSE placed[r]) = r - margin
    BY <1>1, <1>4, <1>5
  <2> QED BY <1>2, <1>5, <2>1, <2>2, <2>3
<1>9. Len(made') <= H /\ (phase' = "rows" => Len(made') < H) /\ (phase' = "done" => Len(made') = H)
  BY <1>1, <1>2, <1>3, <1>5
<1>10. ~Image!Empty(first)' /\ ~Image!Empty(thumbnail)'
  BY <1>7 DEF Image!Empty
<1> QED BY <1>2, <1>5, <1>6, <1>7, <1>8, <1>9, <1>10 DEF ImageTypes

LEMMA ImageStep ==
  ASSUME ImageInv, [PartsNext]_<<part, phase, assetVars, rasterVars, ofPixels, resultVars, vars>>
  PROVE  ImageInv'
<1> SUFFICES ASSUME part' = "image" PROVE ImageTypes'
  BY DEF ImageInv
<1>1. part = "image" /\ ImageTypes
  BY DEF PartsNext, ImageInv
<1>2. CASE UNCHANGED <<phase, imageVars>>
  <2>1. UNCHANGED <<phase, edge, original, first, thumbnail, made, placed>>
    BY <1>2 DEF imageVars
  <2>2. /\ SizeTypes' = SizeTypes /\ Sized' = Sized
        /\ Image!Empty(first)' = Image!Empty(first)
        /\ Image!Empty(thumbnail)' = Image!Empty(thumbnail)
        /\ Image!Margin(thumbnail.h)' = Image!Margin(thumbnail.h)
    BY <2>1 DEF SizeTypes, Sized, Image!FirstSize, Image!ThumbnailOf, Image!Empty, Image!Margin
  <2> QED BY <1>1, <2>1, <2>2 DEF ImageTypes
<1>3. CASE Image!Start
  BY <1>1, <1>3, ImageSizes
<1>4. CASE Image!MakeRow
  BY <1>1, <1>4, ImageRow
<1>5. UNCHANGED <<phase, imageVars>> \/ Image!Start \/ Image!MakeRow
  BY <1>1 DEF PartsNext, Image!Next, ofPixels
<1> QED BY <1>2, <1>3, <1>4, <1>5

LEMMA ImageInvariant == PartsSpec => []ImageInv
<1>1. ImageInv /\ [PartsNext]_<<part, phase, assetVars, rasterVars, ofPixels, resultVars, vars>>
        => ImageInv'
  BY ImageStep
<1> QED BY ImageStart, <1>1, PTL DEF PartsSpec

(* For every crop and side of the square: the thumbnail, whose size is       *)
(* rounded down twice, fits the square with one edge as long and keeps the   *)
(* crop's aspect ratio to one pixel; and its rows lie in the middle of the   *)
(* square, each once and in their order.                                     *)
THEOREM ThumbnailKeepsItsShape ==
  PartsSpec => [](part = "image" => Image!KeepsTheAspect /\ Image!Centred)
<1> SUFFICES ASSUME ImageInv, part = "image", phase = "done"
             PROVE  Image!KeepsTheAspect /\ Image!Centred
  BY ImageInvariant, PTL DEF Image!KeepsTheAspect, Image!Centred
<1> DEFINE H == thumbnail.h
           margin == Image!Margin(H)
<1>1. /\ SizeTypes /\ Sized /\ ~Image!Empty(thumbnail)
      /\ Len(made) = H
      /\ placed = [r \in margin .. margin + Len(made) - 1 |-> r - margin]
  BY DEF ImageInv, ImageTypes
<1>2. Image!KeepsTheAspect
  BY <1>1, ThumbnailFits DEF Image!KeepsTheAspect, Sized
<1>3. H \in 1 .. edge /\ edge \in Nat \ {0}
  BY <1>1, ThumbnailFits DEF SizeTypes, Sized
<1>4. margin \in Nat /\ margin + H <= edge /\ edge - H - 2 * margin \in {0, 1}
  BY <1>3, MarginInside
<1> HIDE DEF H, margin
<1>5. DOMAIN placed = margin .. margin + H - 1 /\ H \in Nat
  BY <1>1, <1>3
<1>6. /\ Image!Min(DOMAIN placed) = margin /\ Image!Max(DOMAIN placed) = margin + H - 1
  <2>1. margin \in DOMAIN placed /\ \A r \in DOMAIN placed : r \in Int /\ margin <= r
    BY <1>3, <1>4, <1>5
  <2>2. margin + H - 1 \in DOMAIN placed /\ \A r \in DOMAIN placed : margin + H - 1 >= r
    BY <1>3, <1>4, <1>5
  <2>3. margin \in Int /\ margin + H - 1 \in Int
    BY <1>4, <1>5
  <2>4. \A x, z \in Int : (x <= z /\ z <= x => x = z) /\ (x >= z /\ z >= x => x = z)
    OBVIOUS
  <2>5. \A x \in DOMAIN placed : (\A z \in DOMAIN placed : x <= z) => x = margin
    BY <2>1, <2>3, <2>4
  <2>6. \A x \in DOMAIN placed : (\A z \in DOMAIN placed : x >= z) => x = margin + H - 1
    BY <2>1, <2>2, <2>3, <2>4
  <2>7. Image!Min(DOMAIN placed) = margin
    BY <2>1, <2>5 DEF Image!Min
  <2>8. Image!Max(DOMAIN placed) = margin + H - 1
    BY <2>2, <2>6 DEF Image!Max
  <2> QED BY <2>7, <2>8
<1>7. Image!Cardinality(DOMAIN placed) = H
  <2>1. Image!Cardinality(DOMAIN placed) = Cardinality(DOMAIN placed)
    BY DEF Image!Cardinality, Cardinality
  <2>2. margin \in Int /\ margin + H - 1 \in Int /\ ~(margin > margin + H - 1)
    BY <1>3, <1>4, <1>5
  <2>3. Cardinality(margin .. margin + H - 1) = (margin + H - 1) - margin + 1
    BY <2>2, FS_Interval
  <2>4. (margin + H - 1) - margin + 1 = H
    BY <1>4, <1>5
  <2> QED BY <1>5, <2>1, <2>3, <2>4
<1>8. DOMAIN placed \subseteq 0 .. edge - 1
  BY <1>3, <1>4, <1>5
<1>9. Image!Abs((edge - 1 - (margin + H - 1)) - margin) <= 1
  <2>1. (edge - 1 - (margin + H - 1)) - margin = edge - H - 2 * margin
    BY <1>3, <1>4, <1>5
  <2>2. edge - H - 2 * margin \in Int /\ edge - H - 2 * margin <= 1 /\ -(edge - H - 2 * margin) <= 1
    BY <1>4
  <2> QED BY <2>1, <2>2, ImageAbs
<1>10. \A r \in DOMAIN placed : placed[r] = r - margin
  BY <1>1
<1>11. Image!Centred
  BY <1>1, <1>6, <1>7, <1>8, <1>9, <1>10 DEF Image!Centred, H
<1> QED BY <1>2, <1>11

(* A weight is not zero only within the support of the filter.               *)
LEMMA WeightWithin ==
  ASSUME NEW n \in Nat \ {0}, NEW m \in Nat \ {0}, NEW cubic \in BOOLEAN,
         NEW i \in Nat, NEW j \in Nat, Image!Weight(n, m, cubic, i, j) # 0
  PROVE  LET reach == Image!Support(cubic) * Image!Span(n, m) IN
         /\ reach \in Nat
         /\ m * (2 * j + 1) - n * (2 * i + 1) < reach
         /\ n * (2 * i + 1) - m * (2 * j + 1) < reach
<1> DEFINE v == m * (2 * j + 1) - n * (2 * i + 1)
           x == Image!Distance(n, m, i, j)
           u == Image!Span(n, m)
           reach == Image!Support(cubic) * u
<1>1. v \in Int /\ n * (2 * i + 1) - m * (2 * j + 1) = -v
  <2>1. m * (2 * j + 1) \in Int /\ n * (2 * i + 1) \in Int
    OBVIOUS
  <2> QED BY <2>1
<1>2. x = IF v < 0 THEN -v ELSE v
  BY DEF Image!Distance, Image!Abs
<1>3. u \in Nat
  <2>1. Image!Max({n, m}) \in Nat
    <3>1. n \in Int /\ m \in Int
      OBVIOUS
    <3>2. Image!Max({n, m}) = IF n >= m THEN n ELSE m
      BY <3>1, ImageMin
    <3> QED BY <3>2
  <2> QED BY <2>1 DEF Image!Span
<1>4. Image!Weight(n, m, cubic, i, j)
        = IF cubic
          THEN IF x < u THEN (3 * x - 5 * u) * x * x + 2 * u * u * u
               ELSE IF x < 2 * u THEN ((5 * u - x) * x - 8 * u * u) * x + 4 * u * u * u
               ELSE 0
          ELSE Image!Max({u - x, 0}) * 2 * u * u
  BY DEF Image!Weight
<1>5. reach = (IF cubic THEN 2 ELSE 1) * u
  BY DEF Image!Support
<1> HIDE DEF v, x, u, reach
<1>6. x \in Nat
  BY <1>1, <1>2
<1>7. CASE cubic
  <2>1. reach = 2 * u
    BY <1>5, <1>7
  <2>2. x < u \/ x < 2 * u
    BY <1>4, <1>7
  <2>3. x < reach
    BY <1>3, <1>6, <2>1, <2>2
  <2> QED BY <1>1, <1>2, <1>3, <2>1, <2>3 DEF v, reach, u
<1>8. CASE ~cubic
  <2>1. reach = u
    BY <1>3, <1>5, <1>8
  <2>2. x < u
    <3> SUFFICES ASSUME ~(x < u) PROVE FALSE
      OBVIOUS
    <3>1. u - x \in Int /\ u - x <= 0
      BY <1>3, <1>6
    <3>2. Image!Max({u - x, 0}) = 0
      <4> DEFINE v1 == u - x
      <4>1. v1 \in Int /\ v1 <= 0 /\ 0 \in Int
        BY <3>1
      <4> HIDE DEF v1
      <4>2. Image!Max({v1, 0}) = IF v1 >= 0 THEN v1 ELSE 0
        BY <4>1, ImageMin
      <4> QED BY <4>1, <4>2 DEF v1
    <3>3. Image!Weight(n, m, cubic, i, j) = 0 * 2 * u * u
      BY <1>4, <1>8, <3>2
    <3>4. 0 * 2 * u * u = 0
      BY <1>3
    <3> QED BY <3>3, <3>4
  <2> QED BY <1>1, <1>2, <1>3, <2>1, <2>2 DEF v, reach, u
<1> QED BY <1>7, <1>8

(* The window of an output sample, and what it holds.                        *)
LEMMA WindowHolds ==
  ASSUME NEW n \in Nat \ {0}, NEW m \in Nat \ {0}, NEW cubic \in BOOLEAN, NEW i \in Nat
  PROVE  /\ Image!Tap(n, m, cubic, i) \subseteq 0 .. n - 1
         /\ \A j \in 0 .. n - 1 : Image!Weight(n, m, cubic, i, j) # 0
                                    => j \in Image!Tap(n, m, cubic, i)
<1> DEFINE reach == Image!Support(cubic) * Image!Span(n, m)
           centre == n * (2 * i + 1)
           low == Image!Low(n, m, cubic, i)
           high == Image!High(n, m, cubic, i)
           L == low \div (2 * m)
           H == high \div (2 * m)
           half == Image!Ceil(reach, 2 * m)
           most == Image!MaxTaps(n, m, cubic)
           start == Image!TapStart(n, m, cubic, i)
           end == Image!TapEnd(n, m, cubic, i)
<1>1. reach \in Nat /\ centre \in Nat /\ 2 * m \in Nat \ {0}
  <2>1. Image!Max({n, m}) \in Nat
    <3>1. n \in Int /\ m \in Int
      OBVIOUS
    <3>2. Image!Max({n, m}) = IF n >= m THEN n ELSE m
      BY <3>1, ImageMin
    <3> QED BY <3>2
  <2>2. Image!Span(n, m) \in Nat /\ Image!Support(cubic) \in Nat
    BY <2>1 DEF Image!Span, Image!Support
  <2> QED BY <2>2
<1>2. low = centre - reach + m /\ high = centre + reach + m
  BY DEF Image!Low, Image!High
<1>3. half = (reach + 2 * m - 1) \div (2 * m) /\ most = 2 * half + 1
  BY DEF Image!Ceil, Image!MaxTaps
<1>4. start = Image!Max({L, 0}) /\ end = Image!Min({H, n, start + most})
      /\ Image!Tap(n, m, cubic, i) = start .. end - 1
  BY DEF Image!TapStart, Image!TapEnd, Image!Tap
<1> HIDE DEF reach, low, high, most, start, end
<1>5. low \in Int /\ high \in Int
  BY <1>1, <1>2
<1>6. /\ L \in Int /\ low < 2 * m * L + 2 * m
      /\ H \in Int
  BY <1>1, <1>5, Quotient
<1>7. half \in Int /\ reach <= 2 * m * half
  <2>1. reach + 2 * m - 1 \in Int
    BY <1>1
  <2>2. /\ (reach + 2 * m - 1) \div (2 * m) \in Int
        /\ reach + 2 * m - 1 < 2 * m * ((reach + 2 * m - 1) \div (2 * m)) + 2 * m
    BY <1>1, <2>1, Quotient
  <2>3. half \in Int /\ reach + 2 * m - 1 < 2 * m * half + 2 * m
    BY <1>3, <2>2
  <2> HIDE DEF half
  <2>4. 2 * m * half \in Int
    BY <2>3
  <2> QED BY <1>1, <2>3, <2>4
<1> HIDE DEF centre, L, H, half
<1>8. start \in Nat /\ start >= L
  <2>1. start = IF L >= 0 THEN L ELSE 0
    <3>1. 0 \in Int
      OBVIOUS
    <3> QED BY <1>4, <1>6, <3>1, ImageMin
  <2> QED BY <1>6, <2>1
<1>9. most \in Int /\ start + most \in Int
  BY <1>3, <1>7, <1>8
<1>10. /\ end \in Int /\ end <= H /\ end <= n /\ end <= start + most
       /\ end = H \/ end = n \/ end = start + most
  <2> DEFINE s == start + most
  <2> HIDE DEF s
  <2>1. s \in Int /\ end = Image!Min({H, n, s})
    BY <1>4, <1>9 DEF s
  <2>2. \E x \in {H, n, s} : \A z \in {H, n, s} : x <= z
    BY <1>6, <2>1
  <2>3. end \in {H, n, s} /\ \A z \in {H, n, s} : end <= z
    BY <2>1, <2>2 DEF Image!Min
  <2> QED BY <1>6, <2>1, <2>3 DEF s
<1>11. Image!Tap(n, m, cubic, i) \subseteq 0 .. n - 1
  BY <1>4, <1>8, <1>10
<1>12. ASSUME NEW j \in 0 .. n - 1, Image!Weight(n, m, cubic, i, j) # 0
       PROVE  j \in Image!Tap(n, m, cubic, i)
  <2>1. j \in Nat
    OBVIOUS
  <2>2. m * (2 * j + 1) - centre < reach /\ centre - m * (2 * j + 1) < reach
    BY <1>12, <2>1, WeightWithin DEF reach, centre
  <2>3. m * (2 * j + 1) = 2 * m * (j + 1) - m /\ 2 * m * (j + 1) \in Int
    BY <2>1
  <2>4. low < 2 * m * (j + 1) /\ 2 * m * (j + 1) < high
    BY <1>1, <1>2, <2>2, <2>3
  <2>5. L <= j
    <3>1. L <= j + 1
      <4>1. low <= (2 * m) * (j + 1)
        BY <1>5, <2>3, <2>4
      <4> QED BY <1>1, <1>5, <2>1, <4>1, QuotientBounds DEF L
    <3>2. L # j + 1
      <4> SUFFICES ASSUME L = j + 1 PROVE FALSE
        OBVIOUS
      <4>1. (2 * m) * (j + 1) <= low
        BY <1>1, <1>5, <2>1, QuotientBounds DEF L
      <4> QED BY <1>5, <2>3, <2>4, <4>1
    <3> QED BY <1>6, <2>1, <3>1, <3>2
  <2>6. j + 1 <= H
    <3>1. (2 * m) * (j + 1) <= high
      BY <1>5, <2>3, <2>4
    <3> QED BY <1>1, <1>5, <2>1, <3>1, QuotientBounds DEF H
  <2>7. j + 1 <= start + most
    <3>1. 2 * m * (j + 1) < 2 * m * (L + 1 + 2 * half)
      <4>1. high = low + 2 * reach
        BY <1>1, <1>2
      <4>2. 2 * m * L \in Int /\ 2 * m * half \in Int /\ 2 * m \in Int
        BY <1>6, <1>7
      <4>3. 2 * m * (L + 1 + 2 * half) = 2 * m * L + 2 * m + 2 * (2 * m * half)
        BY <1>6, <1>7
      <4> QED BY <1>1, <1>5, <1>6, <1>7, <2>3, <2>4, <4>1, <4>2, <4>3
    <3>2. j + 1 <= L + 1 + 2 * half
      <4>1. (2 * m) * (j + 1) <= (2 * m) * (L + 1 + 2 * half)
        <5>1. 2 * m * (L + 1 + 2 * half) \in Int
          BY <1>6, <1>7
        <5> QED BY <2>3, <3>1, <5>1
      <4>2. L + 1 + 2 * half \in Int /\ j + 1 \in Int
        BY <1>6, <1>7
      <4> QED BY <1>1, <4>1, <4>2, ScaledDown
    <3> QED BY <1>3, <1>6, <1>7, <1>8, <2>1, <3>2
  <2>8. j + 1 <= n /\ start <= j
    <3>1. start = IF L >= 0 THEN L ELSE 0
      <4>1. 0 \in Int
        OBVIOUS
      <4> QED BY <1>4, <1>6, <4>1, ImageMin
    <3> QED BY <1>6, <2>1, <2>5, <3>1
  <2>9. j + 1 <= end
    BY <1>10, <2>6, <2>7, <2>8
  <2> QED BY <1>4, <1>8, <1>10, <2>1, <2>8, <2>9
<1> QED BY <1>11, <1>12

(* For every crop and side of the square, of both resizes and on both axes:  *)
(* a window of coefficients lies in its source and leaves out no sample that *)
(* has a weight, although it is cut to max_taps.                             *)
THEOREM WindowsHoldEveryWeight == PartsSpec => [](part = "image" => Image!WindowsCover)
<1> SUFFICES ASSUME ImageInv, part = "image", phase = "rows" PROVE Image!WindowsCover
  BY ImageInvariant, PTL DEF Image!WindowsCover
<1>1. /\ SizeTypes /\ Sized /\ ~Image!Empty(first) /\ ~Image!Empty(thumbnail)
  BY DEF ImageInv, ImageTypes
<1>2. /\ original.w \in Nat \ {0} /\ original.h \in Nat \ {0} /\ edge \in Nat \ {0}
  BY <1>1 DEF SizeTypes
<1>3. /\ thumbnail.w \in Nat \ {0} /\ thumbnail.h \in Nat \ {0}
  <2>1. thumbnail.w \in 1 .. edge /\ thumbnail.h \in 1 .. edge
    BY <1>1, ThumbnailFits DEF Sized
  <2> QED BY <1>2, <2>1
<1>4. /\ first.w \in Nat \ {0} /\ first.h \in Nat \ {0}
  <2>1. (original.h * edge) \div original.w \in Nat /\ (original.w * edge) \div original.h \in Nat
    <3>1. original.h * edge \in Nat /\ original.w * edge \in Nat
      BY <1>2
    <3>2. original.w * 0 <= original.h * edge /\ original.h * 0 <= original.w * edge
      BY <1>2
    <3> QED BY <1>2, <3>1, <3>2, Quotient, QuotientBounds
  <2>2. first.w \in Nat /\ first.h \in Nat
    BY <1>1, <1>2, <2>1 DEF Sized, Image!FirstSize
  <2> QED BY <1>1, <2>2 DEF Image!Empty
<1>5. ASSUME NEW axis \in Image!Axes
      PROVE  axis[1] \in Nat \ {0} /\ axis[2] \in Nat \ {0} /\ axis[3] \in BOOLEAN
  <2>1. \/ axis = <<original.w, first.w, FALSE>> \/ axis = <<original.h, first.h, FALSE>>
        \/ axis = <<first.w, thumbnail.w, TRUE>> \/ axis = <<first.h, thumbnail.h, TRUE>>
    BY DEF Image!Axes
  <2>2. CASE axis = <<original.w, first.w, FALSE>>
    BY <1>2, <1>4, <2>2
  <2>3. CASE axis = <<original.h, first.h, FALSE>>
    BY <1>2, <1>4, <2>3
  <2>4. CASE axis = <<first.w, thumbnail.w, TRUE>>
    BY <1>3, <1>4, <2>4
  <2>5. CASE axis = <<first.h, thumbnail.h, TRUE>>
    BY <1>3, <1>4, <2>5
  <2> QED BY <2>1, <2>2, <2>3, <2>4, <2>5
<1>6. ASSUME NEW axis \in Image!Axes, NEW i \in 0 .. axis[2] - 1
      PROVE  i \in Nat
  BY <1>5
<1> QED BY <1>5, <1>6, WindowHolds DEF Image!WindowsCover
=============================================================================
