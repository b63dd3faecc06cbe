---------------------- MODULE BundlePreparationProofs ----------------------
(* Theorems about preparing a bundle, for any number of preparers, processes *)
(* and artifacts: nobody removes another's directory, and a copy that was    *)
(* reported stays whole.                                                     *)
EXTENDS BundlePreparation, TLAPS

Publishing == {"move", "complete", "verify", "withdraw"}

(* Types of what the type invariant leaves out.                              *)
Types ==
    /\ TypeOK
    /\ source \in [Artifacts -> Content]
    /\ process \in [Preparers -> Processes] /\ mode \in [Preparers -> {"copy", "link"}]

OwnInv == Types /\ RemovesItsOwn

LEMMA Counting ==
  /\ 1 \in Artifacts /\ Artifacts \subseteq Nat
  /\ \A a \in Artifacts : a + 1 \notin Artifacts => \A b \in Artifacts : b <= a
  /\ \A a \in Artifacts : a >= 1
  BY BundleAssumption

LEMMA CreatedIsNew ==
  ASSUME NEW p \in Preparers
  PROVE  Created(p) \in Directory /\ Created(p) # None /\ Created(p).owner = p
<1>1. Created(p) \in Directory BY DEF Created, Directory
<1>2. Created(p).owner = p BY DEF Created
<1> QED BY <1>1, <1>2, NoneAssumption

(* One step of a removal leaves nothing, or a directory of the same owner.   *)
LEMMA RemovingKeepsOwner ==
  ASSUME NEW dir \in Directory, NEW left \in Removing(dir), left # None
  PROVE  left \in Directory /\ left.owner = dir.owner
<1>1. left \in Smaller(dir) BY DEF Removing
<1>2. CASE \E a \in Artifacts : left = [dir EXCEPT !.art[a] = None]
  BY <1>2 DEF Directory
<1>3. CASE left = [dir EXCEPT !.manifest = FALSE]
  BY <1>3 DEF Directory
<1> QED BY <1>1, <1>2, <1>3 DEF Smaller

-----------------------------------------------------------------------------
(* Nobody removes another's directory.                                       *)

LEMMA OwnInit == Init => OwnInv
  BY Counting DEF Init, OwnInv, Types, TypeOK, RemovesItsOwn, Working, Ended, Mine, Publishing

(* Only p's own step moves p; the others stay where they are.                *)
Moves(p) ==
    /\ pc' = [pc EXCEPT ![p] = pc'[p]] /\ pc'[p] \in Working \cup Ended \cup {"stage"}
    /\ next' \in [Preparers -> Artifacts] /\ \A q \in Preparers \ {p} : next'[q] = next[q]

LEMMA GotoMoves ==
  ASSUME Types, NEW p \in Preparers, NEW w \in Working \cup Ended \cup {"stage"}, Goto(p, w)
  PROVE  Moves(p) /\ pc'[p] = w /\ next'[p] = 1
  BY Counting DEF Goto, Moves, Types, TypeOK

(* A step that leaves the disk alone, and does not enter the work or the     *)
(* publication.                                                              *)
LEMMA QuietOwn ==
  ASSUME OwnInv, NEW p \in Preparers, Moves(p), UNCHANGED <<Disk, request>>,
         stuck' \in [Preparers -> BOOLEAN],
         pc'[p] \in Working => pc[p] \in Working,
         pc'[p] \in Publishing => pc[p] \in Publishing
  PROVE  OwnInv'
<1>1. Types' BY DEF OwnInv, Types, TypeOK, Moves, Disk, request
<1>2. \A q \in Preparers : q # p => pc'[q] = pc[q] BY DEF Moves, OwnInv, Types, TypeOK
<1>3. \A q \in Preparers : /\ pc'[q] \in Working => pc[q] \in Working
                           /\ pc'[q] \in Publishing => pc[q] \in Publishing
  BY <1>2
<1>4. \A q \in Preparers : Mine(q)' = Mine(q) BY DEF Mine, Disk, request
<1> QED BY <1>1, <1>3, <1>4 DEF OwnInv, RemovesItsOwn, Publishing, Disk

(* A step on p's staging directory alone.                                    *)
LEMMA StagingOwn ==
  ASSUME OwnInv, NEW p \in Preparers, Moves(p), UNCHANGED <<source, destination, Outside>>,
         NEW dir \in Directory \cup {None}, staging' = [staging EXCEPT ![process[p]] = dir],
         pc[p] \in Working \/ Mine(p) = None,
         dir = None => pc'[p] \notin Working,
         dir # None => dir.owner = p,
         pc'[p] \in Publishing => pc[p] \in Publishing
  PROVE  OwnInv'
<1>1. Types' BY DEF OwnInv, Types, TypeOK, Moves, Outside, request
<1>2. \A q \in Preparers : q # p => pc'[q] = pc[q] BY DEF Moves, OwnInv, Types, TypeOK
<1>3. \A q \in Preparers : process[q] \in Processes BY DEF OwnInv, Types
<1>4. Mine(p)' = dir BY <1>3 DEF Mine, OwnInv, Types, TypeOK, Outside, request
<1>5. ASSUME NEW q \in Preparers, q # p, pc[q] \in Working
      PROVE  Mine(q)' = Mine(q)
  <2>1. process[q] # process[p]
    BY <1>5 DEF OwnInv, RemovesItsOwn, Mine
  <2> QED BY <1>3, <2>1 DEF Mine, OwnInv, Types, TypeOK, Outside, request
<1>6. \A q \in Preparers : pc'[q] \in Publishing => pc[q] \in Publishing BY <1>2
<1>7. \A q \in Preparers : pc'[q] \in Working => Mine(q)' # None /\ Mine(q)'.owner = q
  BY <1>2, <1>4, <1>5 DEF OwnInv, RemovesItsOwn
<1> QED BY <1>1, <1>6, <1>7 DEF OwnInv, RemovesItsOwn, Publishing

(* A step on the destination p has reserved, or reserves.                    *)
LEMMA DestinationOwn ==
  ASSUME OwnInv, NEW p \in Preparers, Moves(p), UNCHANGED <<source, Outside>>,
         staging' = staging
           \/ \E dir \in Directory : dir.owner = p /\ staging' = [staging EXCEPT ![process[p]] = dir],
         pc[p] \in Working, pc[p] \in Publishing \/ destination = None,
         destination' \in Directory \cup {None},
         destination' = None => pc'[p] \notin Publishing,
         destination' # None => destination'.owner = p
  PROVE  OwnInv'
<1>1. Types' BY DEF OwnInv, Types, TypeOK, Moves, Outside, request
<1>2. \A q \in Preparers : q # p => pc'[q] = pc[q] BY DEF Moves, OwnInv, Types, TypeOK
<1>3. \A q \in Preparers : process[q] \in Processes BY DEF OwnInv, Types
<1>4. Mine(p)' # None /\ Mine(p)'.owner = p
  BY <1>3, NoneAssumption DEF Mine, OwnInv, Types, TypeOK, Outside, request, RemovesItsOwn
<1>5. ASSUME NEW q \in Preparers, q # p, pc[q] \in Working
      PROVE  Mine(q)' = Mine(q)
  <2>1. process[q] # process[p]
    BY <1>5 DEF OwnInv, RemovesItsOwn, Mine
  <2> QED BY <1>3, <2>1 DEF Mine, OwnInv, Types, TypeOK, Outside, request
<1>6. \A q \in Preparers : q # p => pc[q] \notin Publishing
  BY DEF OwnInv, RemovesItsOwn, Publishing
<1>7. \A q \in Preparers : pc'[q] \in Working => Mine(q)' # None /\ Mine(q)'.owner = q
  BY <1>2, <1>4, <1>5 DEF OwnInv, RemovesItsOwn
<1>8. \A q \in Preparers : pc'[q] \in Publishing => q = p BY <1>2, <1>6
<1> QED BY <1>1, <1>7, <1>8 DEF OwnInv, RemovesItsOwn, Publishing

LEMMA OwnStep ==
  ASSUME OwnInv, NEW p \in Preparers, Prepare(p) \/ StepFails(p) \/ RemovalFails(p) \/ Crash(p)
  PROVE  OwnInv'
<1> USE DEF Disk, Outside
<1>t. /\ Types /\ Mine(p) \in Directory \cup {None} /\ destination \in Directory \cup {None}
      /\ pc[p] \in Working => Mine(p) # None /\ Mine(p).owner = p
      /\ pc[p] \in Publishing => destination # None /\ destination.owner = p
  BY DEF OwnInv, Types, TypeOK, RemovesItsOwn, Mine, Publishing
<1>w. /\ {"check", "bring", "manifest", "verifyStaging", "reserve", "move", "complete", "verify",
           "withdraw", "cleanup", "done"} = Working
      /\ Ended = {"idle", "ok", "error", "crashed"}
  BY DEF Working, Ended
<1>1. CASE Start(p)
  BY <1>1, <1>t, <1>w, GotoMoves, QuietOwn DEF Start, Types, TypeOK, Publishing
<1>2. CASE CreateStaging(p)
  <2>1. CASE Mine(p) = None
    BY <1>2, <2>1, <1>t, <1>w, GotoMoves, CreatedIsNew, StagingOwn DEF CreateStaging, Publishing
  <2>2. CASE Mine(p) # None
    BY <1>2, <2>2, <1>t, <1>w, GotoMoves, QuietOwn DEF CreateStaging, Types, TypeOK, Publishing
  <2> QED BY <2>1, <2>2
<1>3. CASE VerifySource(p)
  <2>1. CASE Goto(p, "cleanup")
    BY <1>3, <2>1, <1>t, <1>w, GotoMoves, QuietOwn DEF VerifySource, Types, TypeOK, Publishing
  <2>2. CASE pc' = [pc EXCEPT ![p] = "bring"] /\ UNCHANGED next
    <3>1. Moves(p) /\ pc'[p] = "bring" BY <2>2, <1>t, <1>w DEF Moves, Types, TypeOK
    <3> QED BY <1>3, <3>1, <1>t, <1>w, QuietOwn DEF VerifySource, Types, TypeOK, Publishing
  <2> QED BY <1>3, <2>1, <2>2 DEF VerifySource
<1>4. CASE Bring(p)
  <2> DEFINE what == IF mode[p] = "copy" THEN source[next[p]] ELSE "link"
             dir == [Mine(p) EXCEPT !.art[next[p]] = what]
  <2>1. what \in Content \cup {"link"} /\ next[p] \in Artifacts BY <1>t DEF Types, TypeOK
  <2>2. Mine(p) \in Directory /\ pc[p] = "bring" BY <1>4, <1>t DEF Bring
  <2>3. dir \in Directory /\ dir.owner = p BY <1>t, <1>w, <2>1, <2>2 DEF Directory
  <2>4. staging' = [staging EXCEPT ![process[p]] = dir]
    BY <1>4, <1>t DEF Bring, Mine, Types, TypeOK
  <2>5. Moves(p) /\ pc'[p] \in {"check", "manifest"}
    <3>1. CASE Goto(p, "manifest") BY <3>1, <1>t, <1>w, GotoMoves
    <3>2. CASE /\ pc' = [pc EXCEPT ![p] = "check"] /\ next' = [next EXCEPT ![p] = next[p] + 1]
               /\ next[p] + 1 \in Artifacts
      BY <3>2, <1>t, <1>w DEF Moves, Types, TypeOK
    <3> QED BY <1>4, <3>1, <3>2 DEF Bring
  <2> HIDE DEF dir, what
  <2>6. dir # None BY <2>3, NoneAssumption
  <2> QED BY <1>4, <1>w, <2>2, <2>3, <2>4, <2>5, <2>6, StagingOwn DEF Bring, Publishing
<1>5. CASE WriteManifest(p)
  <2> DEFINE dir == [Mine(p) EXCEPT !.manifest = TRUE]
  <2>1. Mine(p) \in Directory /\ pc[p] = "manifest" BY <1>5, <1>t DEF WriteManifest
  <2>2. dir \in Directory /\ dir.owner = p BY <1>t, <1>w, <2>1 DEF Directory
  <2>3. staging' = [staging EXCEPT ![process[p]] = dir]
    BY <1>5, <1>t DEF WriteManifest, Mine, Types, TypeOK
  <2>4. Moves(p) /\ pc'[p] = "verifyStaging" BY <1>5, <1>t, <1>w, GotoMoves DEF WriteManifest
  <2> HIDE DEF dir
  <2>5. dir # None BY <2>2, NoneAssumption
  <2> QED BY <1>5, <1>w, <2>1, <2>2, <2>3, <2>4, <2>5, StagingOwn DEF WriteManifest, Publishing
<1>6. CASE VerifyStaging(p) \/ VerifyDestination(p)
  <2>1. CASE \E w \in {"cleanup", "reserve", "withdraw", "done"} :
               /\ Goto(p, w)
               /\ w = "withdraw" => pc[p] = "verify"
    <3>1. PICK w \in {"cleanup", "reserve", "withdraw", "done"} :
            /\ Goto(p, w)
            /\ w = "withdraw" => pc[p] = "verify"
      BY <2>1
    <3>2. Moves(p) /\ pc'[p] = w BY <3>1, <1>t, <1>w, GotoMoves
    <3>3. pc[p] \in {"verifyStaging", "verify"} BY <1>6 DEF VerifyStaging, VerifyDestination
    <3> QED BY <1>6, <3>1, <3>2, <3>3, <1>t, <1>w, QuietOwn
        DEF VerifyStaging, VerifyDestination, Types, TypeOK, Publishing
  <2>2. CASE UNCHANGED pc /\ next' = [next EXCEPT ![p] = next[p] + 1] /\ next[p] + 1 \in Artifacts
    <3>1. Moves(p) /\ pc'[p] = pc[p] BY <2>2, <1>t DEF Moves, Types, TypeOK
    <3> QED BY <1>6, <3>1, <1>t, QuietOwn DEF VerifyStaging, VerifyDestination, Types, TypeOK
  <2> QED BY <1>6, <2>1, <2>2 DEF VerifyStaging, VerifyDestination, Verify
<1>7. CASE Reserve(p)
  <2>1. CASE destination = None
    BY <1>7, <2>1, <1>t, <1>w, GotoMoves, CreatedIsNew, DestinationOwn DEF Reserve
  <2>2. CASE destination # None
    BY <1>7, <2>2, <1>t, <1>w, GotoMoves, QuietOwn DEF Reserve, Types, TypeOK, Publishing
  <2> QED BY <2>1, <2>2
<1>8. CASE Move(p)
  <2> DEFINE a == next[p]
             dir == [Mine(p) EXCEPT !.art[a] = None]
             dest == [destination EXCEPT !.art[a] = Mine(p).art[a]]
  <2>1. Mine(p) \in Directory /\ destination \in Directory /\ pc[p] = "move" /\ a \in Artifacts
    BY <1>8, <1>t DEF Move, Types, TypeOK
  <2>2. dir \in Directory /\ dir.owner = p BY <1>t, <1>w, <2>1 DEF Directory
  <2>3. dest \in Directory /\ dest.owner = p BY <1>t, <2>1 DEF Directory, Publishing
  <2>4. /\ staging' = [staging EXCEPT ![process[p]] = dir] /\ destination' = dest
    BY <1>8, <1>t DEF Move, Mine, Types, TypeOK
  <2>5. Moves(p) /\ pc'[p] \in {"move", "complete"}
    <3>1. CASE Goto(p, "complete") BY <3>1, <1>t, <1>w, GotoMoves
    <3>2. CASE UNCHANGED pc /\ next' = [next EXCEPT ![p] = a + 1] /\ a + 1 \in Artifacts
      BY <3>2, <1>t, <1>w, <2>1 DEF Moves, Types, TypeOK
    <3> QED BY <1>8, <3>1, <3>2 DEF Move, LastMoved
  <2> HIDE DEF dir, dest, a
  <2>6. dest # None BY <2>3, NoneAssumption
  <2> QED BY <1>8, <1>w, <2>1, <2>2, <2>3, <2>4, <2>5, <2>6, DestinationOwn DEF Move, Publishing
<1>9. CASE Complete(p)
  <2> DEFINE dir == [Mine(p) EXCEPT !.manifest = FALSE]
             dest == [destination EXCEPT !.manifest = TRUE]
  <2>1. Mine(p) \in Directory /\ destination \in Directory /\ pc[p] = "complete"
    BY <1>9, <1>t DEF Complete
  <2>2. dir \in Directory /\ dir.owner = p BY <1>t, <1>w, <2>1 DEF Directory
  <2>3. dest \in Directory /\ dest.owner = p BY <1>t, <2>1 DEF Directory, Publishing
  <2>4. /\ staging' = [staging EXCEPT ![process[p]] = dir] /\ destination' = dest
    BY <1>9, <1>t DEF Complete, Mine, Types, TypeOK
  <2>5. Moves(p) /\ pc'[p] = "verify" BY <1>9, <1>t, <1>w, GotoMoves DEF Complete
  <2> HIDE DEF dir, dest
  <2>6. dest # None BY <2>3, NoneAssumption
  <2> QED BY <1>9, <1>w, <2>1, <2>2, <2>3, <2>4, <2>5, <2>6, DestinationOwn DEF Complete, Publishing
<1>10. CASE Withdraw(p)
  <2>1. pc[p] = "withdraw" /\ destination \in Directory /\ destination.owner = p
    BY <1>10, <1>t DEF Withdraw, Publishing
  <2>2. destination' # None => destination' \in Directory /\ destination'.owner = p
    BY <1>10, <2>1, RemovingKeepsOwner DEF Withdraw
  <2>3. CASE destination' = None
    BY <1>10, <2>1, <2>3, <1>t, <1>w, GotoMoves, DestinationOwn DEF Withdraw, Publishing
  <2>4. CASE destination' # None
    <3>1. Moves(p) /\ pc'[p] = pc[p]
      BY <1>10, <2>4, <1>t DEF Withdraw, prepares, Moves, Types, TypeOK
    <3> QED BY <1>10, <2>1, <2>2, <2>4, <3>1, <1>t, <1>w, DestinationOwn DEF Withdraw, Publishing
  <2> QED BY <2>3, <2>4
<1>11. CASE Cleanup(p)
  <2>1. PICK left \in Removing(Mine(p)) :
          /\ staging' = [staging EXCEPT ![process[p]] = left]
          /\ IF left = None THEN Goto(p, Failed(p)) ELSE UNCHANGED prepares
    BY <1>11 DEF Cleanup
  <2>2. pc[p] \in {"cleanup", "done"} /\ Mine(p) \in Directory BY <1>11, <1>t, <1>w DEF Cleanup
  <2>3. left # None => left \in Directory /\ left.owner = p
    BY <1>t, <1>w, <2>2, RemovingKeepsOwner
  <2>4. CASE left = None
    <3>1. Moves(p) /\ pc'[p] \in {"ok", "error"}
      BY <2>1, <2>4, <1>t, <1>w, GotoMoves DEF Failed
    <3> QED BY <1>11, <2>1, <2>2, <2>4, <3>1, <1>w, StagingOwn DEF Cleanup, Publishing
  <2>5. CASE left # None
    <3>1. Moves(p) /\ pc'[p] = pc[p]
      BY <2>1, <2>5, <1>t DEF prepares, Moves, Types, TypeOK
    <3> QED BY <1>11, <2>1, <2>2, <2>3, <2>5, <3>1, <1>w, StagingOwn DEF Cleanup, Publishing
  <2> QED BY <2>4, <2>5
<1>12. CASE RemovalFails(p)
  <2>1. stuck' \in [Preparers -> BOOLEAN] BY <1>12, <1>t DEF RemovalFails, Types, TypeOK
  <2>2. PICK w \in {"cleanup", "ok", "error"} : Goto(p, w) /\ pc[p] \in Working
    BY <1>12, <1>w DEF RemovalFails, Failed
  <2> QED BY <1>12, <2>1, <2>2, <1>t, <1>w, GotoMoves, QuietOwn DEF RemovalFails, Publishing
<1>13. CASE StepFails(p)
  <2>1. PICK w \in {"error", "withdraw", "cleanup"} :
          /\ Goto(p, w)
          /\ w = "withdraw" => pc[p] \in Publishing
          /\ w # "error" => pc[p] \in Working
    BY <1>13, <1>w DEF StepFails, AfterFailure, Publishing
  <2> QED BY <1>13, <2>1, <1>t, <1>w, GotoMoves, QuietOwn
      DEF StepFails, Publishing, Types, TypeOK
<1>14. CASE Crash(p)
  BY <1>14, <1>t, <1>w, GotoMoves, QuietOwn DEF Crash, Types, TypeOK, Publishing
<1> QED BY <1>1, <1>2, <1>3, <1>4, <1>5, <1>6, <1>7, <1>8, <1>9, <1>10, <1>11, <1>12, <1>13, <1>14
        DEF Prepare

LEMMA OwnSources == ASSUME OwnInv, SourceChanges PROVE OwnInv'
  BY DEF OwnInv, Types, TypeOK, RemovesItsOwn, Mine, SourceChanges, prepares, Outside, request

LEMMA OwnStutter == ASSUME OwnInv, UNCHANGED vars PROVE OwnInv'
  BY DEF OwnInv, Types, TypeOK, RemovesItsOwn, Mine, vars, prepares, request

LEMMA OwnInvariant == Spec => []OwnInv
<1>1. OwnInv /\ [Next]_vars => OwnInv'
  BY OwnStep, OwnSources, OwnStutter DEF Next
<1> QED BY <1>1, OwnInit, PTL DEF Spec

(* A preparer at work finds the directories it created in the places it      *)
(* writes, renames and removes: whatever fails or is killed and however many *)
(* prepare the same destination, nobody removes what another made.           *)
THEOREM NobodyRemovesAnothers == Spec => []RemovesItsOwn
<1>1. OwnInv => RemovesItsOwn BY DEF OwnInv
<1> QED BY <1>1, OwnInvariant, PTL

(* Types of preparers and directories.                                       *)
THEOREM PreparationTypes == Spec => []TypeOK
<1>1. OwnInv => TypeOK BY DEF OwnInv, Types
<1> QED BY <1>1, OwnInvariant, PTL

-----------------------------------------------------------------------------
(* A reported copy stays whole.                                              *)

(* What preparer p may publish an artifact as: a copy of the pinned content, *)
(* or for links anything that is there.                                      *)
Good(p) == IF mode[p] = "copy" THEN {"pinned"} ELSE Content \cup {"link"}
Pinned(p, dir, S) == \A a \in S : dir.art[a] \in Good(p)
Before(p) == {a \in Artifacts : a < next[p]}
Rest(p) == {a \in Artifacts : a >= next[p]}

NoLinks(dir) == \A a \in Artifacts : dir.art[a] # "link"

(* How far the bundle of preparer p is known to be good: what it verified in *)
(* its staging directory is what it moves, and what it moved is what stays;  *)
(* the manifest comes last.                                                  *)
CopyInv(p) ==
    /\ mode[p] = "copy" /\ pc[p] \in {"check", "bring", "manifest", "verifyStaging"}
         => NoLinks(Mine(p))
    /\ pc[p] \in {"move", "complete"} => ~destination.manifest
    /\ pc[p] = "verifyStaging" => Pinned(p, Mine(p), Before(p))
    /\ pc[p] = "reserve" => Pinned(p, Mine(p), Artifacts)
    /\ pc[p] = "move" => Pinned(p, destination, Before(p)) /\ Pinned(p, Mine(p), Rest(p))
    /\ pc[p] = "complete" => Pinned(p, destination, Artifacts)
    /\ pc[p] \in {"verify", "done", "ok"} =>
         /\ destination # None /\ destination.owner = p
         /\ destination.manifest /\ Pinned(p, destination, Artifacts)

PublishInv == OwnInv /\ \A p \in Preparers : CopyInv(p)

(* What a step of q leaves alone: another's course, the staging directory of *)
(* another at work, and a destination of another.                            *)
Spares(q) ==
    /\ request' = request
    /\ \A p \in Preparers \ {q} : pc'[p] = pc[p] /\ next'[p] = next[p]
    /\ \A p \in Preparers \ {q} : pc[p] \in Working => Mine(p)' = Mine(p)
    /\ destination # None /\ destination.owner # q => destination' = destination

LEMMA StepSpares ==
  ASSUME OwnInv, NEW q \in Preparers, Prepare(q) \/ StepFails(q) \/ RemovalFails(q) \/ Crash(q)
  PROVE  Spares(q)
<1> USE DEF Disk, Outside
<1>t. Types BY DEF OwnInv
<1>1. \A p \in Preparers \ {q} : pc'[p] = pc[p] /\ next'[p] = next[p]
  BY <1>t DEF Types, TypeOK, Prepare, Start, CreateStaging, VerifySource, Bring, WriteManifest,
     VerifyStaging, Reserve, Move, Complete, VerifyDestination, Withdraw, Cleanup, StepFails,
     RemovalFails, Crash, Verify, Goto, prepares
<1>2. /\ staging' = staging \/ \E d : staging' = [staging EXCEPT ![process[q]] = d]
      /\ staging' = staging \/ pc[q] \in Working \/ Mine(q) = None
  <2>1. CASE Bring(q) \/ WriteManifest(q) \/ Move(q) \/ Complete(q) \/ Cleanup(q)
    BY <2>1 DEF Bring, WriteManifest, Move, Complete, Cleanup, Working
  <2>2. CASE ~(Bring(q) \/ WriteManifest(q) \/ Move(q) \/ Complete(q) \/ Cleanup(q))
    BY <2>2 DEF Prepare, Start, CreateStaging, VerifySource, VerifyStaging, Reserve,
       VerifyDestination, Withdraw, StepFails, RemovalFails, Crash
  <2> QED BY <2>1, <2>2
<1>3. request' = request
  BY DEF Prepare, Start, CreateStaging, VerifySource, Bring, WriteManifest, VerifyStaging,
     Reserve, Move, Complete, VerifyDestination, Withdraw, Cleanup, StepFails, RemovalFails, Crash
<1>4. ASSUME NEW p \in Preparers \ {q}, pc[p] \in Working
      PROVE  Mine(p)' = Mine(p)
  <2>1. Mine(p) # None /\ Mine(p).owner = p BY <1>4 DEF OwnInv, RemovesItsOwn
  <2>2. staging' = staging \/ process[p] # process[q]
    BY <1>2, <2>1 DEF OwnInv, RemovesItsOwn, Mine
  <2>3. process[p] \in Processes BY <1>t DEF Types
  <2> QED BY <1>2, <1>3, <2>2, <2>3, <1>t DEF Mine, request, Types, TypeOK
<1>5. destination # None /\ destination.owner # q => destination' = destination
  <2>1. CASE Move(q) \/ Complete(q) \/ Withdraw(q)
    BY <2>1 DEF OwnInv, RemovesItsOwn, Move, Complete, Withdraw
  <2>2. CASE ~(Move(q) \/ Complete(q) \/ Withdraw(q))
    BY <2>2 DEF Prepare, Start, CreateStaging, VerifySource, Bring, WriteManifest, VerifyStaging,
       Reserve, VerifyDestination, Cleanup, StepFails, RemovalFails, Crash
  <2> QED BY <2>1, <2>2
<1> QED BY <1>1, <1>3, <1>4, <1>5 DEF Spares

LEMMA OtherCopy ==
  ASSUME OwnInv, NEW q \in Preparers, Spares(q), NEW p \in Preparers \ {q}, CopyInv(p)
  PROVE  CopyInv(p)'
<1>1. pc'[p] = pc[p] /\ next'[p] = next[p] BY DEF Spares
<1>2. pc[p] \in Working => Mine(p)' = Mine(p) BY DEF Spares
<1>3. pc[p] \in {"move", "complete", "verify", "done", "ok"} => destination' = destination
  BY DEF Spares, OwnInv, RemovesItsOwn, CopyInv
<1>5. Good(p)' = Good(p) /\ mode' = mode BY DEF Spares, Good, request
<1>4. Before(p)' = Before(p) /\ Rest(p)' = Rest(p) BY <1>1 DEF Before, Rest
<1> QED BY <1>1, <1>2, <1>3, <1>4, <1>5 DEF CopyInv, Pinned, NoLinks, Working

(* p's own step.  Only verifying, moving and completing have something to    *)
(* carry over; every other step leads where nothing is claimed.              *)
LEMMA OwnCopy ==
  ASSUME OwnInv, NEW p \in Preparers, CopyInv(p),
         Prepare(p) \/ StepFails(p) \/ RemovalFails(p) \/ Crash(p)
  PROVE  CopyInv(p)'
<1> USE DEF Disk, Outside
<1>t. /\ Types /\ next[p] \in Artifacts /\ process[p] \in Processes
      /\ Mine(p) \in Directory \cup {None} /\ destination \in Directory \cup {None}
      /\ pc[p] \in Working => Mine(p) # None /\ Mine(p).owner = p
      /\ pc[p] \in Publishing => destination # None /\ destination.owner = p
  BY DEF OwnInv, Types, TypeOK, RemovesItsOwn, Mine, Publishing
<1>g. ASSUME NEW w \in Working \cup Ended \cup {"stage"}, Goto(p, w)
      PROVE  pc'[p] = w /\ next'[p] = 1 /\ Before(p)' = {} /\ Rest(p)' = Artifacts
  <2>1. pc'[p] = w /\ next'[p] = 1 BY <1>g, <1>t, GotoMoves
  <2>2. \A a \in Artifacts : a >= 1 /\ ~(a < 1) BY Counting
  <2>3. Before(p)' = {} BY <2>1, <2>2 DEF Before
  <2>4. Rest(p)' = Artifacts BY <2>1, <2>2 DEF Rest
  <2> QED BY <2>1, <2>3, <2>4
<1>w. /\ {"check", "bring", "manifest", "verifyStaging", "reserve", "move", "complete", "verify",
           "withdraw", "cleanup", "done"} = Working
      /\ Ended = {"idle", "ok", "error", "crashed"}
  BY DEF Working, Ended
<1>m. mode' = mode /\ Good(p)' = Good(p)
  <2>1. request' = request
    BY StepSpares DEF Spares
  <2> QED BY <2>1 DEF request, Good
<1> USE <1>m
<1>n. ASSUME pc'[p] \in {"idle", "stage", "cleanup", "withdraw", "error", "crashed"}
      PROVE  CopyInv(p)'
  BY <1>n DEF CopyInv
<1>a. /\ next[p] + 1 \notin Artifacts => Artifacts = Before(p) \cup {next[p]}
      /\ Rest(p) = {a \in Artifacts : a >= next[p] + 1} \cup {next[p]}
      /\ {a \in Artifacts : a < next[p] + 1} = Before(p) \cup {next[p]}
  <2>0. /\ next[p] \in Nat /\ \A a \in Artifacts : a \in Nat
        /\ next[p] + 1 \notin Artifacts => \A a \in Artifacts : a <= next[p]
    BY <1>t, Counting
  <2>1. ASSUME NEW a \in Artifacts
        PROVE  /\ (a < next[p] + 1) <=> (a < next[p] \/ a = next[p])
               /\ (a >= next[p]) <=> (a >= next[p] + 1 \/ a = next[p])
               /\ (a <= next[p]) <=> (a < next[p] \/ a = next[p])
    <3> HIDE DEF Disk, Outside
    <3>1. a \in Nat /\ next[p] \in Nat BY <2>0
    <3> QED BY <3>1, SMT
  <2> QED BY <1>t, <2>0, <2>1 DEF Before, Rest
<1>1. CASE Start(p) \/ Withdraw(p) \/ StepFails(p) \/ Crash(p)
  <2>1. CASE \E w \in {"stage", "error", "cleanup", "withdraw", "crashed"} : Goto(p, w)
    BY <2>1, <1>g, <1>w, <1>n
  <2>2. CASE UNCHANGED prepares /\ pc[p] = "withdraw"
    BY <2>2, <1>n DEF prepares
  <2> QED BY <1>1, <2>1, <2>2 DEF Start, Withdraw, StepFails, AfterFailure, Crash
<1>2. CASE CreateStaging(p)
  <2>1. CASE Mine(p) = None
    <3>1. pc'[p] = "check" BY <1>2, <2>1, <1>g, <1>w DEF CreateStaging
    <3>2. Mine(p)' = Created(p) BY <1>2, <2>1, <1>t DEF CreateStaging, Mine, Types, TypeOK, request
    <3>3. NoLinks(Created(p)) BY NoneAssumption DEF NoLinks, Created
    <3> QED BY <3>1, <3>2, <3>3 DEF CopyInv, NoLinks
  <2>2. CASE Mine(p) # None
    BY <1>2, <2>2, <1>g, <1>w, <1>n DEF CreateStaging
  <2> QED BY <2>1, <2>2
<1>3. CASE VerifySource(p)
  <2>1. pc'[p] \in {"bring", "cleanup"} /\ Mine(p)' = Mine(p) /\ pc[p] = "check"
    BY <1>3, <1>g, <1>w, <1>t DEF VerifySource, Types, TypeOK, Mine, request
  <2> QED BY <2>1 DEF CopyInv, NoLinks
<1>4. CASE Bring(p)
  <2>1. pc'[p] \in {"check", "manifest"} /\ pc[p] = "bring" /\ Mine(p) \in Directory
    BY <1>4, <1>g, <1>w, <1>t DEF Bring, Types, TypeOK
  <2>2. mode[p] = "copy" => Mine(p)' = [Mine(p) EXCEPT !.art[next[p]] = source[next[p]]]
    BY <1>4, <1>t DEF Bring, Mine, Types, TypeOK, request
  <2>3. source[next[p]] # "link" BY <1>t DEF Types, Content
  <2> QED BY <2>1, <2>2, <2>3 DEF CopyInv, NoLinks, Directory
<1>5. CASE WriteManifest(p)
  <2>1. pc'[p] = "verifyStaging" /\ Before(p)' = {} /\ pc[p] = "manifest"
    BY <1>5, <1>g, <1>w DEF WriteManifest
  <2>2. Mine(p)' = [Mine(p) EXCEPT !.manifest = TRUE] /\ Mine(p) \in Directory
    BY <1>5, <1>t DEF WriteManifest, Mine, Types, TypeOK, request
  <2>3. Mine(p)'.art = Mine(p).art BY <2>2 DEF Directory
  <2> QED BY <2>1, <2>3 DEF CopyInv, Pinned, NoLinks
<1>6. CASE VerifyStaging(p)
  <2>1. CASE Goto(p, "cleanup") BY <2>1, <1>g, <1>w, <1>n
  <2>2. CASE Verify(p, Mine(p), "reserve")
    <3>1. pc[p] = "verifyStaging" /\ Mine(p)' = Mine(p) BY <1>6 DEF VerifyStaging, Mine, request
    <3>2. Mine(p).art[next[p]] \in Good(p)
      <4>1. CASE mode[p] = "copy"
        BY <2>2, <3>1, <4>1, <1>t DEF Verify, Holds, Reads, CopyInv, NoLinks, Good
      <4>2. CASE mode[p] # "copy"
        BY <2>2, <3>1, <4>2, <1>t DEF Verify, Holds, Directory, Good
      <4> QED BY <4>1, <4>2
    <3>3. /\ Pinned(p, Mine(p), Before(p) \cup {next[p]})
          /\ mode[p] = "copy" => NoLinks(Mine(p))
      BY <3>1, <3>2 DEF CopyInv, Pinned
    <3>4. CASE next[p] + 1 \in Artifacts
      <4>1. pc'[p] = "verifyStaging" /\ next'[p] = next[p] + 1
        BY <2>2, <3>1, <3>4, <1>t DEF Verify, Types, TypeOK
      <4>2. Before(p)' = Before(p) \cup {next[p]} BY <4>1, <1>a DEF Before
      <4> QED BY <3>1, <3>3, <4>1, <4>2 DEF CopyInv, Pinned, NoLinks
    <3>5. CASE next[p] + 1 \notin Artifacts
      <4>1. pc'[p] = "reserve" BY <2>2, <3>5, <1>g, <1>w DEF Verify
      <4> QED BY <3>1, <3>3, <3>5, <4>1, <1>a DEF CopyInv, Pinned
    <3> QED BY <3>4, <3>5
  <2> QED BY <1>6, <2>1, <2>2 DEF VerifyStaging
<1>7. CASE Reserve(p)
  <2>1. CASE Goto(p, "cleanup") BY <2>1, <1>g, <1>w, <1>n
  <2>2. CASE Goto(p, "move")
    <3>1. /\ pc'[p] = "move" /\ Before(p)' = {} /\ Rest(p)' = Artifacts
          /\ Mine(p)' = Mine(p) /\ pc[p] = "reserve"
      BY <1>7, <2>2, <1>g, <1>w DEF Reserve, Mine, request
    <3>2. destination' = Created(p) \/ Goto(p, "cleanup")
      BY <1>7 DEF Reserve
    <3>3. destination' = Created(p)
      BY <3>1, <3>2, <1>g, <1>w
    <3>4. destination'.manifest = FALSE
      BY <3>3 DEF Created
    <3> QED BY <3>1, <3>4 DEF CopyInv, Pinned
  <2> QED BY <1>7, <2>1, <2>2 DEF Reserve
<1>8. CASE Move(p)
  <2>1. Mine(p) \in Directory /\ destination \in Directory /\ pc[p] = "move"
    BY <1>8, <1>t DEF Move
  <2>2. /\ Mine(p)' = [Mine(p) EXCEPT !.art[next[p]] = None]
        /\ destination' = [destination EXCEPT !.art[next[p]] = Mine(p).art[next[p]]]
    BY <1>8, <1>t DEF Move, Mine, Types, TypeOK, request
  <2>3. /\ \A a \in Artifacts : a # next[p] => /\ Mine(p)'.art[a] = Mine(p).art[a]
                                            /\ destination'.art[a] = destination.art[a]
        /\ destination'.art[next[p]] = Mine(p).art[next[p]]
    BY <2>1, <2>2, <1>t DEF Directory
  <2>4. Pinned(p, destination', Before(p) \cup {next[p]})
    BY <2>1, <2>3, <1>a, <1>t DEF CopyInv, Pinned, Before
  <2>m. ~destination'.manifest
    BY <2>1, <2>2 DEF CopyInv, Directory
  <2>5. CASE LastMoved(p)
    <3>1. pc'[p] = "complete" BY <1>8, <2>5, <1>g, <1>w DEF Move
    <3> QED BY <2>4, <2>5, <2>m, <3>1, <1>a DEF LastMoved, CopyInv, Pinned
  <2>6. CASE ~LastMoved(p)
    <3>1. pc'[p] = "move" /\ next'[p] = next[p] + 1
      BY <1>8, <2>1, <2>6, <1>t DEF Move, Types, TypeOK
    <3>2. Before(p)' = Before(p) \cup {next[p]} BY <3>1, <1>a DEF Before
    <3>3. \A a \in Rest(p)' : a \in Rest(p) /\ a # next[p]
      <4> HIDE <1>m DEF Disk, Outside
      <4>1. next[p] \in Nat /\ \A a \in Artifacts : a \in Nat BY <1>t, Counting
      <4>2. ASSUME NEW a \in Rest(p)' PROVE a \in Artifacts /\ a >= next[p] + 1
        BY <3>1 DEF Rest
      <4>3. ASSUME NEW a \in Artifacts, a >= next[p] + 1 PROVE a >= next[p] /\ a # next[p]
        BY <4>1, <4>3
      <4> QED BY <4>2, <4>3 DEF Rest
    <3>4. Pinned(p, Mine(p)', Rest(p)')
      BY <2>1, <2>3, <3>3 DEF CopyInv, Pinned, Rest
    <3> QED BY <2>4, <2>m, <3>1, <3>2, <3>4 DEF CopyInv, Pinned
  <2> QED BY <2>5, <2>6
<1>9. CASE Complete(p)
  <2>1. pc'[p] = "verify" /\ pc[p] = "complete" BY <1>9, <1>g, <1>w DEF Complete
  <2>2. destination' = [destination EXCEPT !.manifest = TRUE] /\ destination \in Directory
        /\ destination.owner = p
    BY <1>9, <1>t DEF Complete, Publishing
  <2>3. /\ destination' \in Directory /\ destination'.owner = p /\ destination'.manifest
        /\ destination'.art = destination.art
    BY <2>2 DEF Directory
  <2>4. destination' # None BY <2>3, NoneAssumption
  <2> QED BY <2>1, <2>3, <2>4 DEF CopyInv, Pinned
<1>10. CASE VerifyDestination(p)
  <2>1. pc[p] = "verify" /\ destination' = destination BY <1>10 DEF VerifyDestination
  <2>2. pc'[p] \in {"verify", "done", "withdraw"}
    BY <1>10, <2>1, <1>g, <1>w, <1>t DEF VerifyDestination, Verify, Types, TypeOK
  <2> QED BY <2>1, <2>2 DEF CopyInv, Pinned
<1>11. CASE Cleanup(p) \/ RemovalFails(p)
  <2>1. CASE pc[p] \in {"cleanup", "withdraw"}
    <3>1. pc'[p] \in {"cleanup", "error"}
      BY <1>11, <2>1, <1>g, <1>w DEF Cleanup, RemovalFails, Failed, prepares
    <3> QED BY <3>1, <1>n
  <2>2. CASE pc[p] = "done"
    <3>1. pc'[p] \in {"done", "ok"} /\ destination' = destination
      BY <1>11, <2>2, <1>g, <1>w DEF Cleanup, RemovalFails, Failed, prepares
    <3> QED BY <2>2, <3>1 DEF CopyInv, Pinned
  <2> QED BY <1>11, <2>1, <2>2 DEF Cleanup, RemovalFails
<1> QED BY <1>1, <1>2, <1>3, <1>4, <1>5, <1>6, <1>7, <1>8, <1>9, <1>10, <1>11 DEF Prepare

LEMMA PublishInit == Init => PublishInv
<1> SUFFICES ASSUME Init PROVE PublishInv
  OBVIOUS
<1>1. \A p \in Preparers : pc[p] = "idle" BY DEF Init
<1> QED BY <1>1, OwnInit DEF PublishInv, CopyInv

LEMMA PublishStep == PublishInv /\ [Next]_vars => PublishInv'
<1> SUFFICES ASSUME PublishInv, [Next]_vars PROVE PublishInv'
  OBVIOUS
<1>1. CASE \E q \in Preparers : Prepare(q) \/ StepFails(q) \/ RemovalFails(q) \/ Crash(q)
  <2> PICK q \in Preparers : Prepare(q) \/ StepFails(q) \/ RemovalFails(q) \/ Crash(q)
    BY <1>1
  <2>1. OwnInv' BY OwnStep DEF PublishInv
  <2>2. mode' = mode
    BY DEF Outside, request, Prepare, Start, CreateStaging, VerifySource, Bring, WriteManifest,
       VerifyStaging, Reserve, Move, Complete, VerifyDestination, Withdraw, Cleanup, StepFails,
       RemovalFails, Crash
  <2>3. ASSUME NEW p \in Preparers PROVE CopyInv(p)'
    <3>1. CASE p = q BY <2>3, <3>1, OwnCopy DEF PublishInv
    <3>2. CASE p # q BY <2>3, <3>2, StepSpares, OtherCopy DEF PublishInv
    <3> QED BY <3>1, <3>2
  <2> QED BY <2>1, <2>2, <2>3 DEF PublishInv
<1>2. CASE SourceChanges
  <2>1. OwnInv' BY <1>2, OwnSources DEF PublishInv
  <2>2. UNCHANGED <<staging, destination, pc, next, process, mode>>
    BY <1>2 DEF SourceChanges, prepares, Outside, request
  <2>3. ASSUME NEW p \in Preparers PROVE CopyInv(p)'
    <3>1. CopyInv(p) BY <2>3 DEF PublishInv
    <3>2. UNCHANGED <<Mine(p), Before(p), Rest(p)>> BY <2>2 DEF Mine, Before, Rest
    <3> QED BY <2>2, <3>1, <3>2 DEF CopyInv, Pinned, Good, NoLinks
  <2> QED BY <2>1, <2>2, <2>3 DEF PublishInv
<1>3. CASE UNCHANGED vars
  BY <1>3, OwnStutter
  DEF vars, PublishInv, CopyInv, Pinned, Good, NoLinks, Before, Rest, Mine, prepares, request
<1> QED BY <1>1, <1>2, <1>3 DEF Next

(* A copy that prepare reported stays in place, whole and pinned, whatever   *)
(* other preparers do, fail or leave behind, and however the exports change: *)
(* it was verified where it was made, moved by its owner alone, and is the   *)
(* destination of nobody else.                                               *)
THEOREM ReportedCopyStays == Spec => []PublishedStays
<1>1. PublishInv => PublishedStays
  <2> SUFFICES ASSUME PublishInv, NEW p \in Preparers, pc[p] = "ok", mode[p] = "copy"
               PROVE  destination = [owner |-> p, art |-> [a \in Artifacts |-> "pinned"],
                                     manifest |-> TRUE]
    BY DEF PublishedStays
  <2>1. /\ destination # None /\ destination.owner = p /\ destination.manifest
        /\ Pinned(p, destination, Artifacts)
    BY DEF PublishInv, CopyInv, Pinned, Good
  <2>2. destination \in Directory BY <2>1 DEF PublishInv, OwnInv, Types, TypeOK
  <2>3. destination.art = [a \in Artifacts |-> "pinned"] BY <2>1, <2>2 DEF Directory, Pinned, Good
  <2>4. destination.manifest = TRUE BY <2>1, <2>2 DEF Directory
  <2> QED BY <2>1, <2>2, <2>3, <2>4 DEF Directory
<1>2. PublishInv /\ [Next]_vars => PublishInv' BY PublishStep
<1> QED BY <1>1, <1>2, PublishInit, PTL DEF Spec
-----------------------------------------------------------------------------
(* What a preparer that gave up leaves behind.                               *)

(* Where a directory of preparer p may be found, and when: its staging       *)
(* directory under its own process id while it works, or after a removal     *)
(* failed or it was killed; its destination from the reservation on, unless  *)
(* it was withdrawn.                                                         *)
Traces(p) ==
    /\ stuck[p] => pc[p] \in {"cleanup", "ok", "error", "crashed"}
    /\ \A n \in Processes : staging[n] # None /\ staging[n].owner = p =>
         /\ n = process[p] /\ pc[p] \notin {"idle", "stage"}
         /\ pc[p] \in {"ok", "error"} => stuck[p]
    /\ destination # None /\ destination.owner = p =>
         \/ pc[p] \in Publishing \cup {"done", "ok", "crashed"}
         \/ stuck[p] /\ pc[p] \in {"cleanup", "error"}

TracesInv == PublishInv /\ \A p \in Preparers : Traces(p)

(* A step of q makes and removes directories of its own only.                *)
LEMMA MakesItsOwn ==
  ASSUME OwnInv, NEW q \in Preparers, Prepare(q) \/ StepFails(q) \/ RemovalFails(q) \/ Crash(q)
  PROVE  /\ \A n \in Processes : staging'[n] # None =>
              \/ staging'[n] = staging[n]
              \/ n = process[q] /\ staging'[n].owner = q
         /\ destination' = destination \/ destination' = None \/ destination'.owner = q
<1> USE DEF Disk, Outside
<1>t. /\ Types /\ process[q] \in Processes
      /\ Mine(q) \in Directory \cup {None} /\ destination \in Directory \cup {None}
      /\ pc[q] \in Working => Mine(q) # None /\ Mine(q).owner = q
      /\ pc[q] \in Publishing => destination # None /\ destination.owner = q
  BY DEF OwnInv, Types, TypeOK, RemovesItsOwn, Mine, Publishing
<1>s. ASSUME NEW dir, staging' = [staging EXCEPT ![process[q]] = dir],
             dir # None => dir.owner = q
      PROVE  \A n \in Processes : staging'[n] # None =>
               \/ staging'[n] = staging[n]
               \/ n = process[q] /\ staging'[n].owner = q
  BY <1>s, <1>t DEF Types, TypeOK
<1>1. CASE CreateStaging(q)
  BY <1>1, <1>s, CreatedIsNew DEF CreateStaging
<1>2. CASE Bring(q) \/ WriteManifest(q) \/ Move(q) \/ Complete(q)
  <2>1. pc[q] \in Working /\ Mine(q) \in Directory /\ Mine(q).owner = q
    BY <1>2, <1>t DEF Bring, WriteManifest, Move, Complete, Working
  <2>2. PICK dir \in Directory : /\ staging' = [staging EXCEPT ![process[q]] = dir]
                                 /\ dir.owner = q
    <3> DEFINE brought == [Mine(q) EXCEPT !.art[next[q]] = IF mode[q] = "copy"
                                                           THEN source[next[q]] ELSE "link"]
               listed == [Mine(q) EXCEPT !.manifest = TRUE]
               moved == [Mine(q) EXCEPT !.art[next[q]] = None]
               completed == [Mine(q) EXCEPT !.manifest = FALSE]
    <3>1. \A dir \in {brought, listed, moved, completed} : dir \in Directory /\ dir.owner = q
      <4>1. source[next[q]] \in Content /\ next[q] \in Artifacts
        BY <1>t DEF Types, TypeOK
      <4>2. brought \in Directory /\ brought.owner = q
        BY <2>1, <4>1 DEF Directory
      <4>3. /\ listed \in Directory /\ listed.owner = q
            /\ completed \in Directory /\ completed.owner = q
        BY <2>1 DEF Directory
      <4>4. moved \in Directory /\ moved.owner = q
        BY <2>1 DEF Directory
      <4> QED BY <4>2, <4>3, <4>4
    <3>2. \E dir \in {brought, listed, moved, completed} :
             staging' = [staging EXCEPT ![process[q]] = dir]
      BY <1>2, <1>t DEF Bring, WriteManifest, Move, Complete, Mine, Types, TypeOK
    <3> QED BY <3>1, <3>2
  <2>3. destination' = destination \/ destination'.owner = q
    <3>1. CASE Bring(q) \/ WriteManifest(q)
      BY <3>1 DEF Bring, WriteManifest
    <3>2. CASE Move(q) \/ Complete(q)
      BY <3>2, <1>t DEF Move, Complete, Publishing, Directory
    <3> QED BY <1>2, <3>1, <3>2
  <2> QED BY <1>s, <2>2, <2>3
<1>3. CASE Cleanup(q)
  <2>1. PICK left \in Removing(Mine(q)) : staging' = [staging EXCEPT ![process[q]] = left]
    BY <1>3 DEF Cleanup
  <2>2. left # None => left.owner = q
    BY <1>3, <1>t, RemovingKeepsOwner DEF Cleanup, Working
  <2> QED BY <1>3, <1>s, <2>1, <2>2 DEF Cleanup
<1>4. CASE Reserve(q)
  BY <1>4, CreatedIsNew DEF Reserve
<1>5. CASE Withdraw(q)
  BY <1>5, <1>t, RemovingKeepsOwner DEF Withdraw, Publishing
<1>6. CASE ~(\/ CreateStaging(q) \/ Bring(q) \/ WriteManifest(q) \/ Move(q) \/ Complete(q)
             \/ Cleanup(q) \/ Reserve(q) \/ Withdraw(q))
  <2>1. UNCHANGED <<staging, destination>>
    BY <1>6 DEF Prepare, Start, VerifySource, VerifyStaging, VerifyDestination, StepFails,
                RemovalFails, Crash
  <2> QED BY <2>1
<1> QED BY <1>1, <1>2, <1>3, <1>4, <1>5, <1>6

LEMMA OtherTraces ==
  ASSUME OwnInv, NEW q \in Preparers, Prepare(q) \/ StepFails(q) \/ RemovalFails(q) \/ Crash(q),
         NEW p \in Preparers \ {q}, Traces(p)
  PROVE  Traces(p)'
<1>1. pc'[p] = pc[p] /\ process' = process
  BY StepSpares DEF Spares, request
<1>2. stuck'[p] = stuck[p]
  BY DEF Outside, Prepare, Start, CreateStaging, VerifySource, Bring, WriteManifest,
     VerifyStaging, Reserve, Move, Complete, VerifyDestination, Withdraw, Cleanup, StepFails,
     RemovalFails, Crash, OwnInv, Types, TypeOK
<1>3. /\ \A n \in Processes : staging'[n] # None /\ staging'[n].owner = p
                                => staging'[n] = staging[n]
      /\ destination' # None /\ destination'.owner = p => destination' = destination
  BY MakesItsOwn
<1> QED BY <1>1, <1>2, <1>3 DEF Traces

LEMMA OwnTraces ==
  ASSUME OwnInv, NEW p \in Preparers, Traces(p),
         Prepare(p) \/ StepFails(p) \/ RemovalFails(p) \/ Crash(p)
  PROVE  Traces(p)'
<1> USE DEF Disk, Outside
<1>t. /\ Types /\ process[p] \in Processes /\ process' = process
      /\ pc[p] \in Publishing => destination # None /\ destination.owner = p
  <2>1. process' = process
    BY StepSpares DEF Spares, request
  <2> QED BY <2>1 DEF OwnInv, Types, RemovesItsOwn, Publishing
<1>w. /\ {"check", "bring", "manifest", "verifyStaging", "reserve", "move", "complete", "verify",
           "withdraw", "cleanup", "done"} = Working
      /\ Ended = {"idle", "ok", "error", "crashed"}
  BY DEF Working, Ended
<1>g. ASSUME NEW w \in Working \cup Ended \cup {"stage"}, Goto(p, w) PROVE pc'[p] = w
  BY <1>g, <1>t, GotoMoves
<1>s. \A n \in Processes : staging'[n] # None /\ staging'[n].owner = p =>
         n = process[p] \/ staging'[n] = staging[n]
  BY MakesItsOwn
(* p works on, and its directories stay where they are, or are where they    *)
(* may be.                                                                   *)
<1>a. ASSUME UNCHANGED stuck, ~stuck[p], pc'[p] \in Working \cup {"crashed"},
             \/ /\ destination' = destination
                /\ pc[p] \notin Publishing \cup {"done", "ok", "crashed"}
             \/ pc'[p] \in Publishing \cup {"done", "crashed"}
             \/ destination' = None
      PROVE  Traces(p)'
  <2>1. \A n \in Processes : staging'[n] # None /\ staging'[n].owner = p => n = process[p]
    BY <1>s DEF Traces
  <2>2. pc'[p] \notin {"idle", "stage", "ok", "error"}
    BY <1>a, <1>w
  <2>3. destination' # None /\ destination'.owner = p =>
           pc'[p] \in Publishing \cup {"done", "ok", "crashed"}
    BY <1>a DEF Traces
  <2> QED BY <1>a, <1>t, <2>1, <2>2, <2>3 DEF Traces
<1>1. CASE Start(p) \/ (StepFails(p) /\ pc[p] = "stage") \/ (CreateStaging(p) /\ Mine(p) # None)
  <2>1. pc'[p] \in {"stage", "error"} /\ UNCHANGED <<staging, destination, stuck>>
    BY <1>1, <1>g, <1>w DEF Start, StepFails, CreateStaging
  <2>2. pc[p] \in {"idle", "stage"}
    BY <1>1 DEF Start, CreateStaging
  <2> QED BY <1>t, <2>1, <2>2 DEF Traces, Publishing
<1>2. CASE CreateStaging(p) /\ Mine(p) = None
  <2>1. pc[p] = "stage" /\ pc'[p] = "check" /\ UNCHANGED <<destination, stuck>>
    BY <1>2, <1>g, <1>w DEF CreateStaging
  <2> QED BY <1>a, <1>w, <2>1 DEF Traces, Publishing
<1>3. CASE VerifySource(p) \/ Bring(p) \/ WriteManifest(p) \/ VerifyStaging(p)
  <2>1. /\ pc[p] \in {"check", "bring", "manifest", "verifyStaging"}
        /\ UNCHANGED <<destination, stuck>>
        /\ pc'[p] \in {"check", "bring", "manifest", "verifyStaging", "reserve", "cleanup"}
    <3>1. CASE VerifySource(p)
      BY <3>1, <1>g, <1>w, <1>t DEF VerifySource, Types, TypeOK
    <3>2. CASE Bring(p)
      BY <3>2, <1>g, <1>w, <1>t DEF Bring, Types, TypeOK
    <3>3. CASE WriteManifest(p)
      BY <3>3, <1>g, <1>w DEF WriteManifest
    <3>4. CASE VerifyStaging(p)
      BY <3>4, <1>g, <1>w DEF VerifyStaging, Verify
    <3> QED BY <1>3, <3>1, <3>2, <3>3, <3>4
  <2> QED BY <1>a, <1>w, <2>1 DEF Traces, Publishing
<1>4. CASE Reserve(p)
  <2>1. /\ pc[p] = "reserve" /\ UNCHANGED stuck
        /\ \/ destination' = destination /\ pc'[p] = "cleanup"
           \/ pc'[p] = "move"
    BY <1>4, <1>g, <1>w DEF Reserve
  <2> QED BY <1>a, <1>w, <2>1 DEF Traces, Publishing
<1>5. CASE Move(p) \/ Complete(p) \/ VerifyDestination(p)
  <2>1. /\ pc[p] \in {"move", "complete", "verify"} /\ UNCHANGED stuck
        /\ pc'[p] \in {"move", "complete", "verify", "withdraw", "done"}
    <3>1. CASE Move(p)
      BY <3>1, <1>g, <1>w DEF Move
    <3>2. CASE Complete(p)
      BY <3>2, <1>g, <1>w DEF Complete
    <3>3. CASE VerifyDestination(p)
      BY <3>3, <1>g, <1>w DEF VerifyDestination, Verify
    <3> QED BY <1>5, <3>1, <3>2, <3>3
  <2> QED BY <1>a, <1>w, <2>1 DEF Traces, Publishing
<1>6. CASE Withdraw(p)
  <2>1. /\ pc[p] = "withdraw" /\ UNCHANGED stuck
        /\ \/ destination' = None /\ pc'[p] = "cleanup"
           \/ pc'[p] = "withdraw"
    BY <1>6, <1>g, <1>w DEF Withdraw, prepares
  <2> QED BY <1>a, <1>w, <2>1 DEF Traces, Publishing
<1>7. CASE Cleanup(p)
  <2>1. PICK left : /\ staging' = [staging EXCEPT ![process[p]] = left]
                    /\ IF left = None THEN Goto(p, Failed(p)) ELSE UNCHANGED prepares
    BY <1>7 DEF Cleanup
  <2>2. pc[p] \in {"cleanup", "done"} /\ UNCHANGED <<destination, stuck>>
    BY <1>7 DEF Cleanup
  <2>3. CASE left = None
    <3>1. pc'[p] = IF pc[p] = "cleanup" THEN "error" ELSE "ok"
      BY <2>1, <2>3, <1>g, <1>w DEF Failed
    <3>2. \A n \in Processes : ~(staging'[n] # None /\ staging'[n].owner = p)
      BY <2>1, <2>3, <1>t DEF Types, TypeOK, Traces
    <3>3. destination' # None /\ destination'.owner = p =>
             \/ pc'[p] \in Publishing \cup {"done", "ok", "crashed"}
             \/ stuck'[p] /\ pc'[p] \in {"cleanup", "error"}
      BY <2>2, <3>1 DEF Traces, Publishing
    <3> QED BY <2>2, <3>1, <3>2, <3>3 DEF Traces
  <2>4. CASE left # None
    <3>1. pc'[p] = pc[p]
      BY <2>1, <2>4 DEF prepares
    <3>2. \A n \in Processes : staging'[n] # None /\ staging'[n].owner = p => n = process[p]
      BY <1>s DEF Traces
    <3>3. destination' # None /\ destination'.owner = p =>
             \/ pc'[p] \in Publishing \cup {"done", "ok", "crashed"}
             \/ stuck'[p] /\ pc'[p] \in {"cleanup", "error"}
      BY <2>2, <3>1 DEF Traces
    <3> QED BY <1>t, <2>2, <3>1, <3>2, <3>3 DEF Traces
  <2> QED BY <2>3, <2>4
<1>8. CASE RemovalFails(p)
  <2>1. /\ pc[p] \in {"withdraw", "cleanup", "done"} /\ stuck'[p]
        /\ UNCHANGED <<staging, destination>>
    BY <1>8, <1>t DEF RemovalFails, Types, TypeOK
  <2>2. pc'[p] \in {"cleanup", "error", "ok"}
    BY <1>8, <1>g, <1>w DEF RemovalFails, Failed
  <2> QED BY <1>t, <2>1, <2>2 DEF Traces
<1>9. CASE StepFails(p) /\ pc[p] # "stage"
  <2>1. UNCHANGED <<destination, stuck>>
    BY <1>9 DEF StepFails
  <2>2. /\ pc[p] \in {"check", "bring", "manifest", "verifyStaging", "reserve", "move", "complete",
                      "verify"}
        /\ pc'[p] = IF pc[p] \in {"move", "complete", "verify"} THEN "withdraw" ELSE "cleanup"
    BY <1>9, <1>g, <1>w DEF StepFails, AfterFailure
  <2> QED BY <1>a, <1>w, <2>1, <2>2 DEF Traces, Publishing
<1>10. CASE Crash(p)
  <2>1. pc'[p] = "crashed" /\ UNCHANGED <<staging, destination, stuck>>
    BY <1>10, <1>g, <1>w DEF Crash
  <2> QED BY <1>t, <2>1 DEF Traces
<1> QED BY <1>1, <1>2, <1>3, <1>4, <1>5, <1>6, <1>7, <1>8, <1>9, <1>10 DEF Prepare

LEMMA TracesInvariant == Spec => []TracesInv
<1>1. Init => TracesInv
  <2> SUFFICES ASSUME Init PROVE \A p \in Preparers : Traces(p)
    BY PublishInit DEF TracesInv
  <2> QED BY DEF Init, Traces
<1>2. TracesInv /\ [Next]_vars => TracesInv'
  <2> SUFFICES ASSUME TracesInv, [Next]_vars PROVE TracesInv'
    OBVIOUS
  <2>1. PublishInv'
    BY PublishStep DEF TracesInv
  <2>2. OwnInv
    BY DEF TracesInv, PublishInv
  <2>3. ASSUME NEW p \in Preparers PROVE Traces(p)'
    <3>1. CASE \E q \in Preparers : Prepare(q) \/ StepFails(q) \/ RemovalFails(q) \/ Crash(q)
      BY <2>2, <3>1, OwnTraces, OtherTraces DEF TracesInv
    <3>2. CASE SourceChanges \/ UNCHANGED vars
      BY <3>2 DEF SourceChanges, vars, prepares, Outside, request, TracesInv, Traces
    <3> QED BY <3>1, <3>2 DEF Next
  <2> QED BY <2>1, <2>3 DEF TracesInv
<1> QED BY <1>1, <1>2, PTL DEF Spec

(* A bundle that can be seen, having its manifest, is whole unless its maker *)
(* is withdrawing it, was killed or could not remove it; and a call that     *)
(* returned leaves nothing of its own staging, nor, after an error, of its   *)
(* destination, unless a removal failed (bundle.rs: prepare).                *)
THEOREM GivenUpIsGone == Spec => []Withdrawn
<1>1. TracesInv => Withdrawn
  <2> SUFFICES ASSUME TracesInv PROVE ManifestLast /\ LeavesNothing
    BY DEF TracesInv, PublishInv, OwnInv, Types, Withdrawn
  <2>1. LeavesNothing
    BY DEF TracesInv, Traces, LeavesNothing, Publishing
  <2>2. ManifestLast
    <3> SUFFICES ASSUME destination # None, destination.manifest
                 PROVE  \/ \A a \in Artifacts :
                              /\ destination.art[a] # None
                              /\ mode[destination.owner] = "copy" => destination.art[a] = "pinned"
                        \/ pc[destination.owner] \in {"withdraw", "crashed"}
                        \/ stuck[destination.owner]
      BY DEF ManifestLast
    <3> DEFINE p == destination.owner
    <3>1. p \in Preparers /\ None \notin Content \cup {"link"}
      BY NoneAssumption DEF TracesInv, PublishInv, OwnInv, Types, TypeOK, Directory
    <3>2. CopyInv(p) /\ Traces(p)
      BY <3>1 DEF TracesInv, PublishInv
    <3> HIDE DEF p
    <3>3. CASE pc[p] \in {"verify", "done", "ok"}
      BY <3>1, <3>2, <3>3 DEF CopyInv, Pinned, Good, Content, p
    <3>4. CASE pc[p] \notin {"verify", "done", "ok"}
      BY <3>2, <3>4 DEF CopyInv, Traces, Publishing, p
    <3> QED BY <3>3, <3>4
  <2> QED BY <2>1, <2>2
<1> QED BY <1>1, TracesInvariant, PTL
=============================================================================
