----------------------- MODULE FilePublicationProofs ------------------------
(* Theorems about the two parts that publish files by renaming: the model    *)
(* package of the asset tool, for any number of runs and inputs, which holds *)
(* pinned models and is kept through failing renames, crashes and edits; and *)
(* the PDF session, for every set of annotations, colours and weights, every *)
(* limit of the history and any number of edits and saves.                   *)
EXTENDS PackPublication, PdfSession, SequenceTheorems, WellFoundedInduction, TLAPS

-----------------------------------------------------------------------------
(* The package: its inductive invariant.                                     *)

Phases == Ended \cup {"locked", "sources", "inventory", "copy", "copied", "compare", "staging",
                      "assembled", "recheck", "retire", "publish", "restore", "failed", "done",
                      "unlockDone", "unlockFailed"}
Sources == {"pinned", "changed"}
Packages == Package \cup {None}

Types ==
    /\ output \in Packages /\ source \in Sources /\ lock \in BOOLEAN
    /\ pc \in [Tools -> Phases] /\ inputs \in [Tools -> Inputs] /\ replace \in [Tools -> BOOLEAN]
    /\ previous \in [Tools -> Packages] /\ stage \in [Tools -> Packages]
    /\ backup \in [Tools -> Packages] /\ kept \in [Tools -> BOOLEAN]
    /\ before \in [Tools -> Sources \cup {None}] /\ copied \in [Tools -> Sources \cup {None}]

(* The lock directory admits one run, and a crashed run leaves it.           *)
Active(t) == pc[t] \notin Ended
OneWorks == \A t \in Tools : Active(t) => lock /\ \A u \in Tools : Active(u) => u = t

(* Only a copy that no verification has seen can hold changed models; such a *)
(* run gets no further than its error.                                       *)
Sound(p) == p # None => p.models # "changed"
Careful(t) ==
    /\ Sound(previous[t]) /\ Sound(stage[t]) /\ Sound(backup[t])
    /\ copied[t] = "changed" => pc[t] \in {"copied", "failed", "unlockFailed", "error", "crashed"}

(* From its inspection until it retires it a run finds the package it saw,   *)
(* perhaps edited.  Between retiring and publishing nothing is published.    *)
SameBuilt(p, q) == /\ p = None <=> q = None
                   /\ p # None => p.built = q.built
Looking == {"sources", "inventory", "copy", "copied", "compare", "staging", "assembled",
            "recheck", "retire"}
Swapping == {"publish", "restore"}
Found(t) ==
    /\ pc[t] \in {"idle", "locked"} => previous[t] = None
    /\ pc[t] \in Looking => SameBuilt(output, previous[t])
    /\ pc[t] \in Swapping => output = None /\ SameBuilt(backup[t], previous[t])
    /\ pc[t] \in {"assembled", "recheck", "retire", "publish"} => stage[t] # None
    /\ pc[t] = "done" => output # None
    /\ pc[t] = "failed" => previous[t] = None \/ kept[t] \/ SameBuilt(output, previous[t])

(* The previous package is set aside only while it is swapped, and after a   *)
(* failure only where the error says so.                                     *)
SetAside(t) ==
    /\ backup[t] # None =>
         pc[t] \in Swapping \cup {"failed", "done", "unlockFailed", "error", "crashed"}
    /\ backup[t] # None /\ pc[t] \in {"failed", "unlockFailed", "error"} => kept[t]
    /\ kept[t] => pc[t] \in {"failed", "unlockFailed", "error", "crashed"}

(* What is set aside is what was verified, unless users race the last check. *)
Checked(t) ==
    Racing \/ /\ pc[t] = "retire" => output = previous[t]
              /\ backup[t] # None => backup[t] = previous[t]

InOrder(t) == Careful(t) /\ Found(t) /\ SetAside(t) /\ Checked(t)
PackInv == Types /\ OneWorks /\ Sound(output) /\ \A t \in Tools : InOrder(t)

LEMMA PackInit == Init => PackInv
<1> SUFFICES ASSUME Init PROVE PackInv
  OBVIOUS
<1>1. Types
  BY PackAssumption DEF Init, Types, Packages, Package, Phases, Ended, Sources
<1>2. OneWorks
  BY DEF Init, OneWorks, Active, Ended
<1>3. Sound(output)
  BY DEF Init, Sound
<1>4. ASSUME NEW t \in Tools PROVE InOrder(t)
  BY <1>4, PackAssumption
     DEF Init, InOrder, Careful, Found, SetAside, Checked, Sound, Looking, Swapping
<1> QED BY <1>1, <1>2, <1>3, <1>4 DEF PackInv

-----------------------------------------------------------------------------
(* One run's step.                                                           *)

Apart(u) == /\ pc'[u] = pc[u] /\ previous'[u] = previous[u] /\ copied'[u] = copied[u]
            /\ stage'[u] = stage[u] /\ backup'[u] = backup[u] /\ kept'[u] = kept[u]

(* What a run owes the others: it changes nothing of theirs, and touches     *)
(* what is published only while it holds the lock.                           *)
Tidy(t) == /\ Types'
           /\ \A u \in Tools \ {t} : Apart(u)
           /\ Active(t) \/ output' = output
           /\ Active(t) \/ ~lock \/ pc'[t] \in Ended
           /\ lock' \/ pc'[t] \in Ended
           /\ Active(t) \/ lock' \/ ~lock

(* Nobody else works while a run that holds the lock moves on.               *)
LEMMA RunsApart ==
  ASSUME PackInv, NEW t \in Tools, Tidy(t), Sound(output'), InOrder(t)'
  PROVE  PackInv'
<1>1. OneWorks'
  BY DEF PackInv, OneWorks, Active, Tidy, Apart
<1>2. ASSUME NEW u \in Tools, u # t PROVE InOrder(u)'
  <2>1. Apart(u) /\ InOrder(u)
    BY <1>2 DEF Tidy, PackInv
  <2>2. pc[u] \in Ended \/ output' = output
    BY <1>2 DEF Tidy, PackInv, OneWorks, Active
  <2>3. Careful(u)' /\ SetAside(u)'
    BY <2>1 DEF Apart, InOrder, Careful, SetAside, Sound
  <2>4. CASE pc[u] \in Ended
    BY <2>1, <2>3, <2>4 DEF Apart, InOrder, Found, Checked, Ended, Looking, Swapping
  <2>5. CASE output' = output
    BY <2>1, <2>3, <2>5 DEF Apart, InOrder, Found, Checked
  <2> QED BY <2>2, <2>4, <2>5
<1> QED BY <1>1, <1>2 DEF PackInv, Tidy

-----------------------------------------------------------------------------
(* The runs' steps one by one.                                               *)

SameWork(t) == /\ previous'[t] = previous[t] /\ copied'[t] = copied[t]
               /\ stage'[t] = stage[t] /\ backup'[t] = backup[t] /\ kept'[t] = kept[t]

USE DEF Goto, Fails, Files, request, work, SameWork

LEMMA LockStep ==
  ASSUME PackInv, NEW t \in Tools, Lock(t)
  PROVE  PackInv'
<1>1. Types /\ OneWorks /\ InOrder(t) /\ Sound(output)
  BY DEF PackInv
<1>2. /\ pc[t] = "idle"
      /\ pc'[t] \in {"locked", "refused"}
      /\ output' = output
      /\ SameWork(t)
  BY <1>1 DEF Lock, Types, Locks
<1>3. Types'
  BY <1>1, PackAssumption DEF Lock, Types, Locks, Phases, Ended, Packages, Package, Sources
<1>4. Tidy(t)
  BY <1>1, <1>3 DEF Lock, Types, Locks, Tidy, Apart, OneWorks, Active, Ended
<1>5. Sound(output')
  BY <1>2 DEF PackInv, Sound
<1>6. InOrder(t)'
  BY <1>1, <1>2 DEF InOrder, Careful, Found, SetAside, Checked, Sound, SameBuilt, Looking,
                    Swapping
<1> QED BY <1>4, <1>5, <1>6, RunsApart

LEMMA InspectStep ==
  ASSUME PackInv, NEW t \in Tools, Inspect(t)
  PROVE  PackInv'
<1>1. Types /\ OneWorks /\ InOrder(t) /\ Sound(output)
  BY DEF PackInv
<1>2. /\ pc[t] = "locked"
      /\ pc'[t] \in {"sources", "staging", "failed"}
      /\ output' = output
      /\ previous'[t] = output
      /\ copied'[t] = copied[t]
      /\ stage'[t] = stage[t]
      /\ backup'[t] = backup[t]
      /\ kept'[t] = kept[t]
  BY <1>1 DEF Inspect, Types
<1>3. Types'
  BY <1>1, PackAssumption DEF Inspect, Types, Phases, Ended, Packages, Package, Sources
<1>4. Tidy(t)
  BY <1>1, <1>3 DEF Inspect, Types, Tidy, Apart, OneWorks, Active, Ended
<1>5. Sound(output')
  BY <1>2 DEF PackInv, Sound
<1>6. InOrder(t)'
  BY <1>1, <1>2 DEF InOrder, Careful, Found, SetAside, Checked, Sound, SameBuilt, Looking,
                    Swapping
<1> QED BY <1>4, <1>5, <1>6, RunsApart

LEMMA VerifySourcesStep ==
  ASSUME PackInv, NEW t \in Tools, VerifySources(t)
  PROVE  PackInv'
<1>1. Types /\ OneWorks /\ InOrder(t) /\ Sound(output)
  BY DEF PackInv
<1>2. /\ pc[t] = "sources"
      /\ pc'[t] \in {"inventory", "failed"}
      /\ output' = output
      /\ SameWork(t)
  BY <1>1 DEF VerifySources, Types
<1>3. Types'
  BY <1>1, PackAssumption DEF VerifySources, Types, Phases, Ended, Packages, Package, Sources
<1>4. Tidy(t)
  BY <1>1, <1>3 DEF VerifySources, Types, Tidy, Apart, OneWorks, Active, Ended
<1>5. Sound(output')
  BY <1>2 DEF PackInv, Sound
<1>6. InOrder(t)'
  BY <1>1, <1>2 DEF InOrder, Careful, Found, SetAside, Checked, Sound, SameBuilt, Looking,
                    Swapping
<1> QED BY <1>4, <1>5, <1>6, RunsApart

LEMMA TakeInventoryStep ==
  ASSUME PackInv, NEW t \in Tools, TakeInventory(t)
  PROVE  PackInv'
<1>1. Types /\ OneWorks /\ InOrder(t) /\ Sound(output)
  BY DEF PackInv
<1>2. /\ pc[t] = "inventory"
      /\ pc'[t] = "copy"
      /\ output' = output
      /\ SameWork(t)
  BY <1>1 DEF TakeInventory, Types
<1>3. Types'
  BY <1>1, PackAssumption DEF TakeInventory, Types, Phases, Ended, Packages, Package, Sources
<1>4. Tidy(t)
  BY <1>1, <1>3 DEF TakeInventory, Types, Tidy, Apart, OneWorks, Active, Ended
<1>5. Sound(output')
  BY <1>2 DEF PackInv, Sound
<1>6. InOrder(t)'
  BY <1>1, <1>2 DEF InOrder, Careful, Found, SetAside, Checked, Sound, SameBuilt, Looking,
                    Swapping
<1> QED BY <1>4, <1>5, <1>6, RunsApart

LEMMA CopyStep ==
  ASSUME PackInv, NEW t \in Tools, Copy(t)
  PROVE  PackInv'
<1>1. Types /\ OneWorks /\ InOrder(t) /\ Sound(output)
  BY DEF PackInv
<1>2. /\ pc[t] = "copy"
      /\ pc'[t] \in {"copied", "failed"}
      /\ output' = output
      /\ previous'[t] = previous[t]
      /\ stage'[t] = stage[t]
      /\ backup'[t] = backup[t]
      /\ kept'[t] = kept[t]
  BY <1>1 DEF Copy, Types
<1>3. Types'
  BY <1>1, PackAssumption DEF Copy, Types, Phases, Ended, Packages, Package, Sources
<1>4. Tidy(t)
  BY <1>1, <1>3 DEF Copy, Types, Tidy, Apart, OneWorks, Active, Ended
<1>5. Sound(output')
  BY <1>2 DEF PackInv, Sound
<1>6. InOrder(t)'
  BY <1>1, <1>2 DEF InOrder, Careful, Found, SetAside, Checked, Sound, SameBuilt, Looking,
                    Swapping
<1> QED BY <1>4, <1>5, <1>6, RunsApart

LEMMA VerifyCopyStep ==
  ASSUME PackInv, NEW t \in Tools, VerifyCopy(t)
  PROVE  PackInv'
<1>1. Types /\ OneWorks /\ InOrder(t) /\ Sound(output)
  BY DEF PackInv
<1>2. /\ pc[t] = "copied"
      /\ \/ pc'[t] = "failed"
         \/ pc'[t] = "compare" /\ copied[t] = "pinned"
      /\ output' = output
      /\ SameWork(t)
  BY <1>1 DEF VerifyCopy, Types, CopyVerified, Pinned
<1>3. Types'
  BY <1>1, PackAssumption DEF VerifyCopy, Types, CopyVerified, Pinned, Phases, Ended,
                              Packages, Package, Sources
<1>4. Tidy(t)
  BY <1>1, <1>3 DEF VerifyCopy, Types, CopyVerified, Pinned, Tidy, Apart, OneWorks, Active,
                    Ended
<1>5. Sound(output')
  BY <1>2 DEF PackInv, Sound
<1>6. InOrder(t)'
  BY <1>1, <1>2 DEF InOrder, Careful, Found, SetAside, Checked, Sound, SameBuilt, Looking,
                    Swapping
<1> QED BY <1>4, <1>5, <1>6, RunsApart

LEMMA CompareSourcesStep ==
  ASSUME PackInv, NEW t \in Tools, CompareSources(t)
  PROVE  PackInv'
<1>1. Types /\ OneWorks /\ InOrder(t) /\ Sound(output)
  BY DEF PackInv
<1>2. /\ pc[t] = "compare"
      /\ pc'[t] \in {"staging", "failed"}
      /\ output' = output
      /\ SameWork(t)
  BY <1>1 DEF CompareSources, Types
<1>3. Types'
  BY <1>1, PackAssumption DEF CompareSources, Types, Phases, Ended, Packages, Package, Sources
<1>4. Tidy(t)
  BY <1>1, <1>3 DEF CompareSources, Types, Tidy, Apart, OneWorks, Active, Ended
<1>5. Sound(output')
  BY <1>2 DEF PackInv, Sound
<1>6. InOrder(t)'
  BY <1>1, <1>2 DEF InOrder, Careful, Found, SetAside, Checked, Sound, SameBuilt, Looking,
                    Swapping
<1> QED BY <1>4, <1>5, <1>6, RunsApart

LEMMA AssembleStep ==
  ASSUME PackInv, NEW t \in Tools, Assemble(t)
  PROVE  PackInv'
<1>1. Types /\ OneWorks /\ InOrder(t) /\ Sound(output)
  BY DEF PackInv
<1>2. /\ pc[t] = "staging"
      /\ pc'[t] = "assembled"
      /\ output' = output
      /\ stage'[t] = [built |-> inputs[t], models |-> copied[t], edited |-> FALSE]
      /\ previous'[t] = previous[t]
      /\ copied'[t] = copied[t]
      /\ backup'[t] = backup[t]
      /\ kept'[t] = kept[t]
  BY <1>1 DEF Assemble, Types
<1>3. stage'[t] # None /\ stage'[t].models = copied[t]
  <2>1. [built |-> inputs[t], models |-> copied[t], edited |-> FALSE] \in Package
    BY <1>1 DEF Types, Package, Sources
  <2>2. stage'[t] \in Package /\ stage'[t].models = copied[t]
    BY <1>2, <2>1
  <2> QED BY <2>2, PackAssumption
<1>4. Types'
  BY <1>1, PackAssumption DEF Assemble, Types, Phases, Ended, Packages, Package, Sources
<1>5. Tidy(t)
  BY <1>1, <1>4 DEF Assemble, Types, Tidy, Apart, OneWorks, Active, Ended
<1>6. Sound(output')
  BY <1>2 DEF PackInv, Sound
<1>7. InOrder(t)'
  BY <1>1, <1>2, <1>3 DEF InOrder, Careful, Found, SetAside, Checked, Sound, SameBuilt,
                          Looking, Swapping
<1> QED BY <1>5, <1>6, <1>7, RunsApart

LEMMA DecideStep ==
  ASSUME PackInv, NEW t \in Tools, Decide(t)
  PROVE  PackInv'
<1>1. Types /\ OneWorks /\ InOrder(t) /\ Sound(output)
  BY DEF PackInv
<1>2. /\ pc[t] = "assembled"
      /\ \/ pc'[t] = "publish" /\ previous[t] = None
         \/ pc'[t] = "done" /\ previous[t] = stage[t]
         \/ pc'[t] \in {"recheck", "failed"}
      /\ output' = output
      /\ SameWork(t)
  BY <1>1 DEF Decide, Types
<1>3. Types'
  BY <1>1, PackAssumption DEF Decide, Types, Phases, Ended, Packages, Package, Sources
<1>4. Tidy(t)
  BY <1>1, <1>3 DEF Decide, Types, Tidy, Apart, OneWorks, Active, Ended
<1>5. Sound(output')
  BY <1>2 DEF PackInv, Sound
<1>6. InOrder(t)'
  BY <1>1, <1>2 DEF InOrder, Careful, Found, SetAside, Checked, Sound, SameBuilt, Looking,
                    Swapping
<1> QED BY <1>4, <1>5, <1>6, RunsApart

LEMMA RecheckStep ==
  ASSUME PackInv, NEW t \in Tools, Recheck(t)
  PROVE  PackInv'
<1>1. Types /\ OneWorks /\ InOrder(t) /\ Sound(output)
  BY DEF PackInv
<1>2. /\ pc[t] = "recheck"
      /\ \/ pc'[t] = "retire" /\ output = previous[t]
         \/ pc'[t] = "failed"
      /\ output' = output
      /\ SameWork(t)
  BY <1>1 DEF Recheck, Types, StillSame
<1>3. Types'
  BY <1>1, PackAssumption DEF Recheck, Types, StillSame, Phases, Ended, Packages, Package,
                              Sources
<1>4. Tidy(t)
  BY <1>1, <1>3 DEF Recheck, Types, StillSame, Tidy, Apart, OneWorks, Active, Ended
<1>5. Sound(output')
  BY <1>2 DEF PackInv, Sound
<1>6. InOrder(t)'
  BY <1>1, <1>2 DEF InOrder, Careful, Found, SetAside, Checked, Sound, SameBuilt, Looking,
                    Swapping
<1> QED BY <1>4, <1>5, <1>6, RunsApart

LEMMA RetireStep ==
  ASSUME PackInv, NEW t \in Tools, Retire(t)
  PROVE  PackInv'
<1>1. Types /\ OneWorks /\ InOrder(t) /\ Sound(output)
  BY DEF PackInv
<1>2. /\ pc[t] = "retire"
      /\ \/ /\ pc'[t] = "publish" /\ output' = None
            /\ output # None /\ backup'[t] = output
         \/ pc'[t] = "failed" /\ output' = output /\ backup'[t] = backup[t]
      /\ previous'[t] = previous[t]
      /\ copied'[t] = copied[t]
      /\ stage'[t] = stage[t]
      /\ kept'[t] = kept[t]
  BY <1>1 DEF Retire, Types
<1>3. Types'
  BY <1>1, PackAssumption DEF Retire, Types, Phases, Ended, Packages, Package, Sources
<1>4. Tidy(t)
  BY <1>1, <1>3 DEF Retire, Types, Tidy, Apart, OneWorks, Active, Ended
<1>5. Sound(output')
  BY <1>1, <1>2 DEF Sound
<1>6. InOrder(t)'
  BY <1>1, <1>2 DEF InOrder, Careful, Found, SetAside, Checked, Sound, SameBuilt, Looking,
                    Swapping
<1> QED BY <1>4, <1>5, <1>6, RunsApart

LEMMA PublishStep ==
  ASSUME PackInv, NEW t \in Tools, Publish(t)
  PROVE  PackInv'
<1>1. Types /\ OneWorks /\ InOrder(t) /\ Sound(output)
  BY DEF PackInv
<1>2. /\ pc[t] = "publish"
      /\ \/ /\ pc'[t] = "done" /\ output = None
            /\ output' = stage[t] /\ stage'[t] = None
         \/ pc'[t] = "restore" /\ output' = output /\ stage'[t] = stage[t]
      /\ previous'[t] = previous[t]
      /\ copied'[t] = copied[t]
      /\ backup'[t] = backup[t]
      /\ kept'[t] = kept[t]
  BY <1>1 DEF Publish, Types
<1>3. Types'
  BY <1>1, PackAssumption DEF Publish, Types, Phases, Ended, Packages, Package, Sources
<1>4. Tidy(t)
  BY <1>1, <1>3 DEF Publish, Types, Tidy, Apart, OneWorks, Active, Ended
<1>5. Sound(output')
  BY <1>1, <1>2 DEF Sound, InOrder, Careful
<1>6. InOrder(t)'
  BY <1>1, <1>2 DEF InOrder, Careful, Found, SetAside, Checked, Sound, SameBuilt, Looking,
                    Swapping
<1> QED BY <1>4, <1>5, <1>6, RunsApart

LEMMA RestoreStep ==
  ASSUME PackInv, NEW t \in Tools, Restore(t)
  PROVE  PackInv'
<1>1. Types /\ OneWorks /\ InOrder(t) /\ Sound(output)
  BY DEF PackInv
<1>2. /\ pc[t] = "restore"
      /\ pc'[t] = "failed"
      /\ \/ /\ backup[t] = None /\ output' = output
            /\ backup'[t] = backup[t] /\ kept'[t] = kept[t]
         \/ /\ backup[t] # None /\ output' = backup[t]
            /\ backup'[t] = None /\ kept'[t] = kept[t]
         \/ /\ backup[t] # None /\ output' = output
            /\ backup'[t] = backup[t] /\ kept'[t] = TRUE
      /\ previous'[t] = previous[t]
      /\ copied'[t] = copied[t]
      /\ stage'[t] = stage[t]
  BY <1>1 DEF Restore, Types, Restores
<1>3. Types'
  BY <1>1, PackAssumption DEF Restore, Types, Restores, Phases, Ended, Packages, Package,
                              Sources
<1>4. Tidy(t)
  BY <1>1, <1>3 DEF Restore, Types, Restores, Tidy, Apart, OneWorks, Active, Ended
<1>5. Sound(output')
  BY <1>1, <1>2 DEF Sound, InOrder, Careful
<1>6. InOrder(t)'
  BY <1>1, <1>2 DEF InOrder, Careful, Found, SetAside, Checked, Sound, SameBuilt, Looking,
                    Swapping
<1> QED BY <1>4, <1>5, <1>6, RunsApart

LEMMA CleanupStep ==
  ASSUME PackInv, NEW t \in Tools, Cleanup(t)
  PROVE  PackInv'
<1>1. Types /\ OneWorks /\ InOrder(t) /\ Sound(output)
  BY DEF PackInv
<1>2. /\ \/ pc[t] = "done" /\ pc'[t] = "unlockDone"
         \/ pc[t] = "failed" /\ pc'[t] = "unlockFailed"
      /\ output' = output
      /\ stage'[t] = None
      /\ \/ kept[t] /\ backup'[t] = backup[t]
         \/ ~kept[t] /\ backup'[t] = None
      /\ previous'[t] = previous[t]
      /\ copied'[t] = copied[t]
      /\ kept'[t] = kept[t]
  BY <1>1 DEF Cleanup, Types, Removes
<1>3. Types'
  BY <1>1, PackAssumption DEF Cleanup, Types, Removes, Phases, Ended, Packages, Package,
                              Sources
<1>4. Tidy(t)
  BY <1>1, <1>3 DEF Cleanup, Types, Removes, Tidy, Apart, OneWorks, Active, Ended
<1>5. Sound(output')
  BY <1>2 DEF PackInv, Sound
<1>6. InOrder(t)'
  BY <1>1, <1>2 DEF InOrder, Careful, Found, SetAside, Checked, Sound, SameBuilt, Looking,
                    Swapping
<1> QED BY <1>4, <1>5, <1>6, RunsApart

LEMMA UnlockStep ==
  ASSUME PackInv, NEW t \in Tools, Unlock(t)
  PROVE  PackInv'
<1>1. Types /\ OneWorks /\ InOrder(t) /\ Sound(output)
  BY DEF PackInv
<1>2. /\ \/ pc[t] = "unlockDone" /\ pc'[t] = "ok"
         \/ pc[t] = "unlockFailed" /\ pc'[t] = "error"
      /\ output' = output
      /\ SameWork(t)
  BY <1>1 DEF Unlock, Types
<1>3. Types'
  BY <1>1, PackAssumption DEF Unlock, Types, Phases, Ended, Packages, Package, Sources
<1>4. Tidy(t)
  BY <1>1, <1>3 DEF Unlock, Types, Tidy, Apart, OneWorks, Active, Ended
<1>5. Sound(output')
  BY <1>2 DEF PackInv, Sound
<1>6. InOrder(t)'
  BY <1>1, <1>2 DEF InOrder, Careful, Found, SetAside, Checked, Sound, SameBuilt, Looking,
                    Swapping
<1> QED BY <1>4, <1>5, <1>6, RunsApart

LEMMA CrashStep ==
  ASSUME PackInv, NEW t \in Tools, Crash(t)
  PROVE  PackInv'
<1>1. Types /\ OneWorks /\ InOrder(t) /\ Sound(output)
  BY DEF PackInv
<1>2. /\ pc'[t] = "crashed"
      /\ output' = output
      /\ SameWork(t)
  BY <1>1 DEF Crash, Types
<1>3. Types'
  BY <1>1, PackAssumption DEF Crash, Types, Phases, Ended, Packages, Package, Sources
<1>4. Tidy(t)
  BY <1>1, <1>3 DEF Crash, Types, Tidy, Apart, OneWorks, Active, Ended
<1>5. Sound(output')
  BY <1>2 DEF PackInv, Sound
<1>6. InOrder(t)'
  BY <1>1, <1>2 DEF InOrder, Careful, Found, SetAside, Checked, Sound, SameBuilt, Looking,
                    Swapping
<1> QED BY <1>4, <1>5, <1>6, RunsApart

LEMMA StepFailsStep ==
  ASSUME PackInv, NEW t \in Tools, StepFails(t)
  PROVE  PackInv'
<1>1. Types /\ OneWorks /\ InOrder(t) /\ Sound(output)
  BY DEF PackInv
<1>2. /\ pc[t] \in ({"locked"} \cup Looking) \ {"retire"}
      /\ pc'[t] = "failed"
      /\ output' = output
      /\ SameWork(t)
  BY <1>1 DEF StepFails, Types, Looking
<1>3. Types'
  BY <1>1, PackAssumption DEF StepFails, Types, Phases, Ended, Packages, Package, Sources
<1>4. Tidy(t)
  BY <1>1, <1>3 DEF StepFails, Types, Tidy, Apart, OneWorks, Active, Ended
<1>5. Sound(output')
  BY <1>2 DEF PackInv, Sound
<1>6. InOrder(t)'
  BY <1>1, <1>2 DEF InOrder, Careful, Found, SetAside, Checked, Sound, SameBuilt, Looking,
                    Swapping
<1> QED BY <1>4, <1>5, <1>6, RunsApart

-----------------------------------------------------------------------------
(* The world's steps.                                                        *)

LEMMA SourceStep ==
  ASSUME PackInv, SourceChanges
  PROVE  PackInv'
<1>1. Types' /\ OneWorks' /\ Sound(output')
  BY DEF PackInv, SourceChanges, Types, request, work, Sources, OneWorks, Active, Sound
<1>2. ASSUME NEW t \in Tools PROVE InOrder(t)'
  BY <1>2 DEF PackInv, SourceChanges, request, work, InOrder, Careful, Found, SetAside,
              Checked,
              Sound, SameBuilt
<1> QED BY <1>1, <1>2 DEF PackInv

(* An edit changes neither what the package was built from nor its models.   *)
LEMMA EditStep ==
  ASSUME PackInv, UserEdits
  PROVE  PackInv'
<1>1. /\ output # None /\ output' \in Package
      /\ output'.built = output.built /\ output'.models = output.models
  BY DEF PackInv, UserEdits, Types, Packages, Package
<1>2. output' # None
  BY <1>1, PackAssumption
<1>3. Types' /\ OneWorks' /\ Sound(output')
  BY <1>1 DEF PackInv, UserEdits, Types, request, work, Packages, OneWorks, Active, Sound
<1>4. ASSUME NEW t \in Tools PROVE InOrder(t)'
  <2>1. /\ InOrder(t) /\ pc' = pc /\ previous' = previous /\ copied' = copied
        /\ stage' = stage /\ backup' = backup /\ kept' = kept
    BY DEF PackInv, UserEdits, request, work
  <2>2. Careful(t)' /\ SetAside(t)'
    BY <2>1 DEF InOrder, Careful, SetAside, Sound
  <2>3. Found(t)'
    BY <1>1, <1>2, <2>1 DEF InOrder, Found, SameBuilt
  <2>4. Checked(t)'
    BY <2>1 DEF InOrder, Checked, UserEdits, InWindow
  <2> QED BY <2>2, <2>3, <2>4 DEF InOrder
<1> QED BY <1>3, <1>4 DEF PackInv

LEMMA PackStep == PackInv /\ [Next]_vars => PackInv'
<1> SUFFICES ASSUME PackInv, [Next]_vars PROVE PackInv'
  OBVIOUS
<1>1. ASSUME NEW t \in Tools, Run(t) PROVE PackInv'
  BY <1>1, LockStep, InspectStep, VerifySourcesStep, TakeInventoryStep, CopyStep,
     VerifyCopyStep,
     CompareSourcesStep, AssembleStep, DecideStep, RecheckStep, RetireStep, PublishStep,
     RestoreStep, CleanupStep, UnlockStep DEF Run
<1>2. ASSUME NEW t \in Tools, StepFails(t) \/ Crash(t) PROVE PackInv'
  BY <1>2, StepFailsStep, CrashStep
<1>3. CASE SourceChanges \/ UserEdits
  BY <1>3, SourceStep, EditStep
<1>4. CASE UNCHANGED vars
  BY <1>4 DEF vars, request, work, PackInv, Types, OneWorks, Active, Sound, InOrder, Careful,
              Found, SetAside, Checked, SameBuilt
<1> QED BY <1>1, <1>2, <1>3, <1>4 DEF Next

(* Whatever runs, crashes, fails or edits, the steps of prepare keep the     *)
(* inductive invariant.                                                      *)
THEOREM PackInvariant == Spec => []PackInv
<1> QED BY PackInit, PackStep, PTL DEF Spec

(* For any number of runs that overlap, crash or fail: no run publishes      *)
(* models other than the pinned ones, however the sources change while they  *)
(* are copied, and a run that holds the previous package aside is alone past *)
(* the lock (package.rs, copy_models and publish_package).                   *)
THEOREM PublishedModelsPinned == Spec => []PublishedIsPinned
<1>1. PackInv => PublishedIsPinned
  <2> SUFFICES ASSUME PackInv PROVE PublishedIsPinned
    OBVIOUS
  <2>1. TypeOK
    BY DEF PackInv, Types, OneWorks, Active, TypeOK, Packages, Sources
  <2>2. SwapsAlone
    BY DEF PackInv, OneWorks, Active, SwapsAlone
  <2> QED BY <2>1, <2>2 DEF PackInv, Sound, PublishedIsPinned
<1> QED BY <1>1, PackInvariant, PTL

-----------------------------------------------------------------------------
(* What is kept.                                                             *)

(* Wherever the package was before a step of t, it or its successor is       *)
(* somewhere after it.                                                       *)
LEMMA NothingLost == PackInv /\ [Next]_vars => (Somewhere => Somewhere')
<1> SUFFICES ASSUME PackInv, [Next]_vars, Somewhere PROVE Somewhere'
  OBVIOUS
<1> USE DEF Somewhere
<1>1. ASSUME NEW t \in Tools, Retire(t) PROVE Somewhere'
  BY <1>1 DEF Retire, PackInv, Types
<1>2. ASSUME NEW t \in Tools, Publish(t) PROVE Somewhere'
  BY <1>2 DEF Publish, PackInv, InOrder, Found
<1>3. ASSUME NEW t \in Tools, Restore(t) PROVE Somewhere'
  BY <1>3 DEF Restore, Restores, PackInv, Types
<1>4. ASSUME NEW t \in Tools, Cleanup(t) PROVE Somewhere'
  <2>1. output' = output /\ \A u \in Tools \ {t} : backup'[u] = backup[u]
    BY <1>4 DEF Cleanup, Removes, Files, PackInv, Types
  <2>2. CASE output # None
    BY <2>1, <2>2
  <2>3. CASE output = None /\ backup[t] # None
    <3>1. kept[t]
      BY <1>4, <2>3 DEF Cleanup, PackInv, InOrder, Found, SetAside
    <3> QED BY <1>4, <2>3, <3>1 DEF Cleanup, Removes
  <2> QED BY <2>1, <2>2, <2>3
<1>5. ASSUME NEW t \in Tools,
             \/ Lock(t) \/ Inspect(t) \/ VerifySources(t) \/ TakeInventory(t) \/ Copy(t)
             \/ VerifyCopy(t) \/ CompareSources(t) \/ Assemble(t) \/ Decide(t) \/ Recheck(t)
             \/ Unlock(t) \/ StepFails(t) \/ Crash(t)
      PROVE  Somewhere'
  BY <1>5 DEF Lock, Inspect, VerifySources, TakeInventory, Copy, VerifyCopy, CompareSources,
              Assemble, Decide, Recheck, Unlock, StepFails, Crash, Files, work
<1>6. CASE SourceChanges \/ UNCHANGED vars
  BY <1>6 DEF SourceChanges, vars, work
<1>7. CASE UserEdits
  BY <1>7, PackAssumption DEF UserEdits, PackInv, Types, Packages, Package
<1> QED BY <1>1, <1>2, <1>3, <1>4, <1>5, <1>6, <1>7 DEF Next, Run

LEMMA ErrorsRestore ==
  ASSUME PackInv, NEW t \in Tools, pc[t] = "failed", pc'[t] = "unlockFailed"
  PROVE  \/ previous[t] = None \/ kept[t]
         \/ output # None /\ output.built = previous[t].built
  BY DEF PackInv, InOrder, Found, SameBuilt

LEMMA RemovesVerified ==
  ASSUME PackInv, NEW t \in Tools, ~Racing,
         pc[t] \in {"failed", "done"}, backup[t] # None, backup'[t] = None
  PROVE  backup[t] = previous[t]
  BY DEF PackInv, InOrder, Checked

(* However the runs interleave, crash or fail, and however users edit what   *)
(* is published: a package once published is in place or set aside, and a    *)
(* run that ends in an error has left the package it found or says where it  *)
(* is (publish_package, restore_backup).                                     *)
THEOREM NeverLost == Spec => PackageNeverLost /\ ErrorRestores
<1>1. PackInv /\ [Next]_vars => [Somewhere => Somewhere']_vars
  BY NothingLost
<1>2. PackInv /\ [Next]_vars =>
        [\A t \in Tools : pc[t] = "failed" /\ pc'[t] = "unlockFailed" =>
           \/ previous[t] = None \/ kept[t]
           \/ output # None /\ output.built = previous[t].built]_vars
  BY ErrorsRestore
<1> QED BY <1>1, <1>2, PackInvariant, PTL DEF Spec, PackageNeverLost, ErrorRestores

(* Where nobody edits the package between its last check and its removal,    *)
(* what a run removes is also what it verified; the source promises it       *)
(* without that condition, and the run MCPackPublicationRace refutes it.     *)
THEOREM PackageIsKept ==
  ASSUME ~Racing
  PROVE  Spec => PackageKept
<1>1. PackInv /\ [Next]_vars =>
        [\A t \in Tools : pc[t] \in {"failed", "done"} /\ backup[t] # None /\ backup'[t] = None =>
           backup[t] = previous[t]]_vars
  BY RemovesVerified
<1>2. Spec => OnlyVerifiedRemoved
  BY <1>1, PackInvariant, PTL DEF Spec, OnlyVerifiedRemoved
<1> QED BY <1>2, NeverLost DEF PackageKept

-----------------------------------------------------------------------------
(* The PDF session: its history as a sequence of entries.                    *)

Entry == [edit : Edits, beforeId : Nat, afterId : Nat]
Histories == [entries : Seq(Entry), cursor : Nat, currentId : Nat, savedStateId : Nat, nextId : Nat]

(* Every non-empty set of naturals has a least member.                       *)
Descending == {pair \in Nat \X Nat : pair[1] < pair[2]}

LEMMA LeastOf ==
  ASSUME NEW T \in SUBSET Nat, T # {}
  PROVE  \E m \in T : \A n \in T : m <= n
<1>1. IsWellFoundedOn(Descending, Nat)
  BY NatLessThanWellFounded DEF OpToRel, Descending
<1>2. PICK m \in T : \A n \in T : ~(<<n, m>> \in Descending)
  <2>1. T \subseteq Nat
    OBVIOUS
  <2>2. \E m \in T : \A n \in T : ~(<<n, m>> \in Descending)
    BY <1>1, <2>1, WFMin
  <2> QED BY <2>2
<1>3. ASSUME NEW n \in T PROVE m <= n
  <2>1. ~(n < m)
    BY <1>2, <1>3 DEF Descending
  <2> QED BY <2>1
<1> QED BY <1>3

(* A tail of a sequence.                                                     *)
LEMMA TailShape ==
  ASSUME NEW S, NEW s \in Seq(S), NEW i \in 1 .. Len(s)
  PROVE  /\ TailFrom(s, i) \in Seq(S) /\ Len(TailFrom(s, i)) = Len(s) - i + 1
         /\ \A k \in 1 .. Len(s) - i + 1 : TailFrom(s, i)[k] = s[i + k - 1]
<1>1. Len(s) \in Nat /\ i \in Int /\ Len(s) \in Int /\ i <= Len(s)
  BY LenProperties
<1>2. \A k \in i .. Len(s) : s[k] \in S
  BY <1>1, ElementOfSeq
<1> QED BY <1>1, <1>2, SubSeqProperties DEF TailFrom

(* What truncation leaves is a tail that is not empty, ends with the latest  *)
(* entry and respects the limit on entries.                                  *)
LEMMA RetainedIsTail ==
  ASSUME NEW S, NEW s \in Seq(S), s # <<>>
  PROVE  \E i \in 1 .. Len(s) : Retained(s) = TailFrom(s, i) /\ Len(TailFrom(s, i)) <= EntryLimit
<1> DEFINE fits == {i \in 1 .. Len(s) : i = Len(s) \/ Fits(TailFrom(s, i))}
           first == CHOOSE i \in fits : \A k \in fits : i <= k
<1>1. Len(s) \in Nat /\ Len(s) >= 1
  BY LenProperties, EmptySeq
<1>2. fits \in SUBSET Nat /\ fits # {}
  BY <1>1
<1>3. first \in fits
  <2> HIDE DEF fits
  <2>1. \E i \in fits : \A k \in fits : i <= k
    BY <1>2, LeastOf
  <2> QED BY <2>1
<1>4. first \in 1 .. Len(s) /\ (first = Len(s) \/ Fits(TailFrom(s, first)))
  BY <1>3
<1>5. Retained(s) = TailFrom(s, first)
  BY DEF Retained
<1> HIDE DEF first
<1>6. Len(TailFrom(s, first)) = Len(s) - first + 1
  BY <1>4, TailShape
<1>7. Len(TailFrom(s, first)) <= EntryLimit
  BY <1>1, <1>4, <1>6, HistoryAssumption DEF Fits
<1> QED BY <1>4, <1>5, <1>7

-----------------------------------------------------------------------------
(* What a history tells.                                                     *)

LEMMA EditTypes ==
  ASSUME NEW edit \in Edits
  PROVE  /\ edit = [id |-> edit.id, before |-> edit.before, after |-> edit.after,
                    bytes |-> edit.bytes]
         /\ edit.id \in Ids /\ edit.before \in Colors \cup {Absent}
         /\ edit.after \in Colors \cup {Absent} /\ Reversed(edit) \in Edits
         /\ Reversed(edit).id = edit.id /\ Reversed(edit).before = edit.after
         /\ Reversed(edit).after = edit.before
  BY DEF Edits, Reversed

LEMMA AppliedIsModel ==
  ASSUME NEW m \in Models, NEW edit \in Edits
  PROVE  Applied(edit, m) \in Models /\ Applied(edit, m)[edit.id] = edit.after
  BY EditTypes DEF Applied, Models

(* Taking an edit back restores the model it was made on.                    *)
LEMMA AppliedBack ==
  ASSUME NEW m \in Models, NEW edit \in Edits, m[edit.id] = edit.before
  PROVE  Applied(Reversed(edit), Applied(edit, m)) = m
  BY EditTypes DEF Applied, Models

(* An entry leads from the model its first id names to the one its second id *)
(* names; a history tells of a model when its entries lead from name to name *)
(* and the current id names that model.                                      *)
Leads(entry, names) ==
    /\ names[entry.beforeId + 1][entry.edit.id] = entry.edit.before
    /\ names[entry.afterId + 1] = Applied(entry.edit, names[entry.beforeId + 1])
Tells(h, names, m) ==
    /\ h \in Histories /\ names \in Seq(Models)
    /\ WellFormed(h) /\ h.nextId = Len(names)
    /\ names[h.currentId + 1] = m
    /\ \A i \in DOMAIN h.entries : Leads(h.entries[i], names)

LEMMA TellsTypes ==
  ASSUME NEW h, NEW names, NEW m, Tells(h, names, m)
  PROVE  /\ h \in Histories /\ h.entries \in Seq(Entry) /\ Len(h.entries) \in Nat
         /\ DOMAIN h.entries = 1 .. Len(h.entries)
         /\ h.cursor \in 0 .. Len(h.entries) /\ Len(h.entries) <= EntryLimit
         /\ Len(names) \in Nat /\ h.nextId = Len(names) /\ names \in Seq(Models)
         /\ h.currentId \in 0 .. Len(names) - 1 /\ h.savedStateId \in 0 .. Len(names) - 1
         /\ m = names[h.currentId + 1] /\ m \in Models
         /\ \A i \in 1 .. Len(h.entries) :
              /\ h.entries[i] \in Entry /\ h.entries[i].edit \in Edits
              /\ h.entries[i].beforeId \in 0 .. Len(names) - 1
              /\ h.entries[i].afterId \in 1 .. Len(names) - 1
              /\ Leads(h.entries[i], names)
<1>1. h \in Histories /\ names \in Seq(Models) /\ WellFormed(h) /\ h.nextId = Len(names)
  BY DEF Tells
<1>2. h.entries \in Seq(Entry) /\ Len(names) \in Nat
  BY <1>1, LenProperties DEF Histories
<1>3. Len(h.entries) \in Nat /\ DOMAIN h.entries = 1 .. Len(h.entries)
  BY <1>2, LenProperties
<1>4. \A i \in 1 .. Len(h.entries) : h.entries[i] \in Entry
  BY <1>2, ElementOfSeq
<1>5. h.currentId \in 0 .. Len(names) - 1
  BY <1>1 DEF WellFormed
<1>6. names[h.currentId + 1] \in Models
  BY <1>1, <1>2, <1>5, ElementOfSeq
<1>7. \A i \in 1 .. Len(h.entries) : h.entries[i].edit \in Edits
  BY <1>4 DEF Entry
<1> QED
  BY <1>1, <1>2, <1>3, <1>4, <1>5, <1>6, <1>7 DEF WellFormed, Tells

(* Each entry starts where the one before it ended.                          *)
Linked(entries) ==
    \A i \in 2 .. Len(entries) : entries[i].beforeId = entries[i - 1].afterId

LEMMA TellsLinked ==
  ASSUME NEW h, NEW names, NEW m, Tells(h, names, m)
  PROVE  /\ Linked(h.entries)
         /\ h.cursor > 0 => h.entries[h.cursor].afterId = h.currentId
         /\ h.cursor < Len(h.entries) => h.entries[h.cursor + 1].beforeId = h.currentId
<1>1. /\ Len(h.entries) \in Nat /\ DOMAIN h.entries = 1 .. Len(h.entries)
      /\ h.cursor \in 0 .. Len(h.entries) /\ h.entries \in Seq(Entry)
  BY TellsTypes
<1>2. \A i \in 1 .. Len(h.entries) : h.entries[i].beforeId = IdBefore(h, i)
  BY <1>1 DEF Tells, WellFormed
<1>3. Linked(h.entries)
  BY <1>1, <1>2 DEF Linked, IdBefore
<1>4. Len(h.entries) > 0 => h.currentId = IF h.cursor = 0 THEN h.entries[1].beforeId
                                          ELSE h.entries[h.cursor].afterId
  BY <1>1, EmptySeq DEF Tells, WellFormed
<1>5. h.cursor > 0 => h.entries[h.cursor].afterId = h.currentId
  BY <1>1, <1>4
<1>6. h.cursor < Len(h.entries) => h.entries[h.cursor + 1].beforeId = h.currentId
  <2> SUFFICES ASSUME h.cursor < Len(h.entries)
               PROVE  h.entries[h.cursor + 1].beforeId = h.currentId
    OBVIOUS
  <2>1. CASE h.cursor = 0
    BY <1>1, <1>4, <2>1
  <2>2. CASE h.cursor > 0
    <3>1. h.cursor + 1 \in 2 .. Len(h.entries) /\ (h.cursor + 1) - 1 = h.cursor
      BY <1>1, <2>2
    <3>2. h.entries[h.cursor + 1].beforeId = h.entries[(h.cursor + 1) - 1].afterId
      BY <1>3, <3>1 DEF Linked
    <3> QED BY <1>5, <2>2, <3>1, <3>2
  <2> QED BY <1>1, <2>1, <2>2
<1> QED BY <1>3, <1>5, <1>6

LEMMA TellsFromParts ==
  ASSUME NEW h \in Histories, NEW names \in Seq(Models), h.nextId = Len(names),
         h.cursor \in 0 .. Len(h.entries), Len(h.entries) <= EntryLimit, Linked(h.entries),
         h.currentId \in 0 .. Len(names) - 1, h.savedStateId \in 0 .. Len(names) - 1,
         \A i \in 1 .. Len(h.entries) : /\ h.entries[i].beforeId \in 0 .. Len(names) - 1
                                        /\ h.entries[i].afterId \in 1 .. Len(names) - 1
                                        /\ Leads(h.entries[i], names),
         h.cursor = 0 /\ Len(h.entries) > 0 => h.entries[1].beforeId = h.currentId,
         h.cursor > 0 => h.entries[h.cursor].afterId = h.currentId
  PROVE  Tells(h, names, names[h.currentId + 1])
<1>1. h.entries \in Seq(Entry)
  BY DEF Histories
<1>2. Len(h.entries) \in Nat /\ DOMAIN h.entries = 1 .. Len(h.entries)
  BY <1>1, LenProperties
<1>3. \A i \in DOMAIN h.entries : h.entries[i].beforeId = IdBefore(h, i)
  <2> SUFFICES ASSUME NEW i \in 1 .. Len(h.entries), i # 1
               PROVE  h.entries[i].beforeId = h.entries[i - 1].afterId
    BY <1>2 DEF IdBefore
  <2> QED BY <1>2 DEF Linked
<1>4. h.entries # <<>> => Len(h.entries) > 0
  BY <1>1, <1>2, EmptySeq
<1>5. WellFormed(h)
  BY <1>2, <1>3, <1>4 DEF WellFormed
<1> QED
  BY <1>2, <1>5 DEF Tells

(* A commit names the model its edit makes with a fresh id; truncation on    *)
(* either side leaves a history that tells the truth.                        *)
LEMMA CommitTells ==
  ASSUME NEW h, NEW names, NEW m, Tells(h, names, m),
         NEW edit \in Edits, edit.before = m[edit.id]
  PROVE  /\ Tells(Commit(h, edit), Append(names, Applied(edit, m)), Applied(edit, m))
         /\ Commit(h, edit).savedStateId = h.savedStateId
         /\ Commit(h, edit).currentId = Len(names)
<1> DEFINE new == [edit |-> edit, beforeId |-> h.currentId, afterId |-> h.nextId]
           prior == SubSeq(h.entries, 1, h.cursor)
           all == Committed(h, edit)
           after == Applied(edit, m)
           names2 == Append(names, after)
<1>1. /\ h \in Histories /\ h.entries \in Seq(Entry) /\ Len(h.entries) \in Nat
      /\ h.cursor \in 0 .. Len(h.entries)
      /\ Len(names) \in Nat /\ h.nextId = Len(names) /\ names \in Seq(Models)
      /\ h.currentId \in 0 .. Len(names) - 1 /\ h.savedStateId \in 0 .. Len(names) - 1
      /\ m = names[h.currentId + 1] /\ m \in Models
  BY TellsTypes
<1>2. \A i \in 1 .. Len(h.entries) :
        /\ h.entries[i] \in Entry
        /\ h.entries[i].beforeId \in 0 .. Len(names) - 1
        /\ h.entries[i].afterId \in 1 .. Len(names) - 1
        /\ Leads(h.entries[i], names)
  BY TellsTypes
<1>3. new \in Entry
  BY <1>1 DEF Entry
<1>4. /\ prior \in Seq(Entry) /\ Len(prior) = h.cursor
      /\ \A i \in 1 .. h.cursor : prior[i] = h.entries[i]
  <2>1. \A i \in 1 .. h.cursor : h.entries[i] \in Entry
    BY <1>1, <1>2
  <2>2. h.cursor \in Int /\ 1 \in Int
    BY <1>1
  <2>3. /\ prior \in Seq(Entry) /\ Len(prior) = IF 1 <= h.cursor THEN h.cursor - 1 + 1 ELSE 0
        /\ \A i \in 1 .. h.cursor - 1 + 1 : prior[i] = h.entries[1 + i - 1]
    BY <2>1, <2>2, SubSeqProperties
  <2> QED BY <1>1, <2>3
<1>5. /\ all \in Seq(Entry) /\ Len(all) = h.cursor + 1 /\ all # <<>>
      /\ \A i \in 1 .. h.cursor : all[i] = h.entries[i]
      /\ all[h.cursor + 1] = new
  <2>1. all = Append(prior, new)
    BY DEF Committed
  <2> HIDE DEF all, prior, new
  <2>2. /\ Append(prior, new) \in Seq(Entry) /\ Append(prior, new) # <<>>
        /\ Len(Append(prior, new)) = Len(prior) + 1
        /\ \A i \in 1 .. Len(prior) : Append(prior, new)[i] = prior[i]
        /\ Append(prior, new)[Len(prior) + 1] = new
    BY <1>3, <1>4, AppendProperties
  <2> QED BY <1>4, <2>1, <2>2
<1>6. /\ names2 \in Seq(Models) /\ Len(names2) = Len(names) + 1
      /\ \A i \in 1 .. Len(names) : names2[i] = names[i]
      /\ names2[Len(names) + 1] = after
  <2>1. after \in Models
    BY <1>1, AppliedIsModel
  <2> QED BY <1>1, <2>1, AppendProperties
<1>7. \A i \in 1 .. Len(all) : /\ all[i].beforeId \in 0 .. Len(names)
                               /\ all[i].afterId \in 1 .. Len(names)
                               /\ Leads(all[i], names2)
  <2> SUFFICES ASSUME NEW i \in 1 .. Len(all)
               PROVE  /\ all[i].beforeId \in 0 .. Len(names)
                      /\ all[i].afterId \in 1 .. Len(names)
                      /\ Leads(all[i], names2)
    OBVIOUS
  <2>1. CASE i <= h.cursor
    <3>1. i \in 1 .. Len(h.entries) /\ all[i] = h.entries[i]
      BY <1>1, <1>5, <2>1
    <3>2. /\ all[i].beforeId \in 0 .. Len(names) - 1 /\ all[i].afterId \in 1 .. Len(names) - 1
          /\ Leads(all[i], names)
      BY <1>2, <3>1
    <3> HIDE DEF all, names2, new, prior, after
    <3>3. /\ names2[all[i].beforeId + 1] = names[all[i].beforeId + 1]
          /\ names2[all[i].afterId + 1] = names[all[i].afterId + 1]
      <4>1. Len(names) \in Nat /\ \A k \in 1 .. Len(names) : names2[k] = names[k]
        BY <1>1, <1>6
      <4>2. all[i].beforeId + 1 \in 1 .. Len(names) /\ all[i].afterId + 1 \in 1 .. Len(names)
        BY <3>2, <4>1
      <4> QED BY <4>1, <4>2
    <3> QED BY <1>1, <3>2, <3>3 DEF Leads
  <2>2. CASE i = h.cursor + 1
    <3>1. all[i] = new
      BY <1>5, <2>2
    <3>2. names2[h.currentId + 1] = m /\ names2[h.nextId + 1] = after
      BY <1>1, <1>6
    <3>3. Leads(new, names2)
      <4> HIDE DEF names2
      <4> QED BY <3>2 DEF Leads
    <3> HIDE DEF all
    <3>4. h.nextId \in 1 .. Len(names) /\ h.currentId \in 0 .. Len(names)
      BY <1>1
    <3> QED BY <3>1, <3>3, <3>4
  <2> QED BY <1>1, <1>5, <2>1, <2>2
<1>8. Linked(all)
  <2> SUFFICES ASSUME NEW i \in 2 .. Len(all) PROVE all[i].beforeId = all[i - 1].afterId
    BY DEF Linked
  <2>1. CASE i <= h.cursor
    <3>1. i \in 2 .. Len(h.entries) /\ all[i] = h.entries[i] /\ all[i - 1] = h.entries[i - 1]
      BY <1>1, <1>5, <2>1
    <3> QED BY <3>1, TellsLinked DEF Linked
  <2>2. CASE i = h.cursor + 1
    <3> HIDE DEF all, names2, prior, after
    <3>1. h.cursor \in 1 .. h.cursor /\ h.cursor > 0 /\ i - 1 = h.cursor
      BY <1>1, <2>2
    <3>2. all[i] = new /\ all[i - 1] = h.entries[h.cursor]
      BY <1>5, <2>2, <3>1
    <3>3. h.entries[h.cursor].afterId = h.currentId
      BY <3>1, TellsLinked
    <3> QED BY <3>2, <3>3
  <2> QED BY <1>1, <1>5, <2>1, <2>2
<1> HIDE DEF all, names2, prior, new, after
<1>9. PICK i \in 1 .. Len(all) :
        Retained(all) = TailFrom(all, i) /\ Len(TailFrom(all, i)) <= EntryLimit
  BY <1>5, RetainedIsTail
<1> DEFINE recent == TailFrom(all, i)
<1>10. /\ recent \in Seq(Entry) /\ Len(recent) = Len(all) - i + 1
       /\ \A k \in 1 .. Len(all) - i + 1 : recent[k] = all[i + k - 1]
  BY <1>5, TailShape
<1> HIDE DEF recent
<1>11. Len(recent) \in Nat /\ Len(recent) > 0 /\ recent[Len(recent)] = new
  <2>1. Len(all) \in Nat /\ Len(all) = h.cursor + 1 /\ Len(recent) = Len(all) - i + 1
    BY <1>1, <1>5, <1>10
  <2>2. Len(recent) \in 1 .. Len(all) - i + 1 /\ i + Len(recent) - 1 = h.cursor + 1
    BY <2>1
  <2>3. recent[Len(recent)] = all[i + Len(recent) - 1]
    BY <1>10, <2>2
  <2> QED BY <1>5, <2>2, <2>3
<1>12. Linked(recent)
  <2> SUFFICES ASSUME NEW k \in 2 .. Len(recent) PROVE recent[k].beforeId = recent[k - 1].afterId
    BY DEF Linked
  <2>0. Len(all) \in Nat /\ Len(recent) = Len(all) - i + 1
    BY <1>1, <1>5, <1>10
  <2>1. /\ k \in 1 .. Len(all) - i + 1 /\ k - 1 \in 1 .. Len(all) - i + 1
        /\ i + k - 1 \in 2 .. Len(all) /\ i + (k - 1) - 1 = (i + k - 1) - 1
    BY <2>0
  <2>2. recent[k] = all[i + k - 1] /\ recent[k - 1] = all[(i + k - 1) - 1]
    BY <1>10, <2>1
  <2> QED BY <1>8, <2>1, <2>2 DEF Linked
<1>13. \A k \in 1 .. Len(recent) : /\ recent[k].beforeId \in 0 .. Len(names2) - 1
                                 /\ recent[k].afterId \in 1 .. Len(names2) - 1
                                 /\ Leads(recent[k], names2)
  <2> SUFFICES ASSUME NEW k \in 1 .. Len(recent)
               PROVE  /\ recent[k].beforeId \in 0 .. Len(names2) - 1
                      /\ recent[k].afterId \in 1 .. Len(names2) - 1
                      /\ Leads(recent[k], names2)
    OBVIOUS
  <2>0. Len(all) \in Nat /\ Len(recent) = Len(all) - i + 1
    BY <1>1, <1>5, <1>10
  <2>1. k \in 1 .. Len(all) - i + 1 /\ i + k - 1 \in 1 .. Len(all)
    BY <2>0
  <2>2. Len(names2) - 1 = Len(names)
    BY <1>1, <1>6
  <2> QED BY <1>7, <1>10, <2>1, <2>2
<1> DEFINE next == [entries |-> recent, cursor |-> Len(recent), currentId |-> Len(names),
                    savedStateId |-> h.savedStateId, nextId |-> Len(names) + 1]
<1>14. Commit(h, edit) = next
  <2>1. Retained(Committed(h, edit)) = recent
    BY <1>9 DEF recent, all
  <2>2. h = [entries |-> h.entries, cursor |-> h.cursor, currentId |-> h.currentId,
             savedStateId |-> h.savedStateId, nextId |-> h.nextId]
    BY <1>1 DEF Histories
  <2>3. Commit(h, edit) = [h EXCEPT !.entries = recent, !.cursor = Len(recent),
                                    !.currentId = h.nextId, !.nextId = h.nextId + 1]
    BY <2>1 DEF Commit
  <2>4. h.nextId = Len(names)
    BY <1>1
  <2> QED BY <2>2, <2>3, <2>4
<1>15. new.afterId = Len(names) /\ recent[Len(recent)].afterId = Len(names)
  BY <1>1, <1>11 DEF new
<1>16. Tells(next, names2, names2[next.currentId + 1])
  <2>1. next \in Histories
    BY <1>1, <1>10, <1>11 DEF Histories
  <2>2. /\ next.nextId = Len(names2) /\ next.cursor \in 0 .. Len(next.entries)
        /\ next.currentId \in 0 .. Len(names2) - 1 /\ next.savedStateId \in 0 .. Len(names2) - 1
    BY <1>1, <1>6, <1>11
  <2>3. Len(next.entries) <= EntryLimit
    BY <1>9 DEF recent
  <2>4. next.cursor > 0 /\ next.entries[next.cursor].afterId = next.currentId
    BY <1>11, <1>15
  <2>5. /\ Linked(next.entries)
        /\ \A k \in 1 .. Len(next.entries) :
             /\ next.entries[k].beforeId \in 0 .. Len(names2) - 1
             /\ next.entries[k].afterId \in 1 .. Len(names2) - 1
             /\ Leads(next.entries[k], names2)
    BY <1>12, <1>13
  <2>6. names2 \in Seq(Models) /\ ~(next.cursor = 0)
    BY <1>6, <1>11
  <2> HIDE DEF next
  <2> QED BY <2>1, <2>2, <2>3, <2>4, <2>5, <2>6, TellsFromParts
<1>17. names2[next.currentId + 1] = after
  BY <1>6
<1> QED
  BY <1>14, <1>16, <1>17 DEF names2, after

(* Undoing the entry behind the cursor and redoing the one before it.        *)
LEMMA UndoTells ==
  ASSUME NEW h, NEW names, NEW m, Tells(h, names, m), CanUndo(h)
  PROVE  LET edit == h.entries[h.cursor].edit IN
         /\ Reversed(edit) \in Edits
         /\ Tells(Undo(h), names, Applied(Reversed(edit), m))
         /\ Undo(h).savedStateId = h.savedStateId /\ Undo(h).currentId < Len(names)
<1> DEFINE e == h.entries[h.cursor]
           next == [h EXCEPT !.cursor = h.cursor - 1, !.currentId = e.beforeId]
<1>1. /\ h \in Histories /\ h.entries \in Seq(Entry) /\ Len(h.entries) \in Nat
      /\ h.cursor \in 1 .. Len(h.entries) /\ Len(h.entries) <= EntryLimit
      /\ Len(names) \in Nat /\ h.nextId = Len(names) /\ names \in Seq(Models)
      /\ h.savedStateId \in 0 .. Len(names) - 1 /\ m = names[h.currentId + 1]
  BY TellsTypes DEF CanUndo
<1>2. \A i \in 1 .. Len(h.entries) :
        /\ h.entries[i].beforeId \in 0 .. Len(names) - 1
        /\ h.entries[i].afterId \in 1 .. Len(names) - 1
        /\ Leads(h.entries[i], names)
  BY TellsTypes
<1>3. /\ e \in Entry /\ e.edit \in Edits /\ e.beforeId \in 0 .. Len(names) - 1
      /\ Leads(e, names)
  BY <1>1, TellsTypes
<1>4. e.afterId = h.currentId /\ Linked(h.entries)
  BY <1>1, TellsLinked
<1> HIDE DEF e
<1>5. Undo(h) = next
  BY DEF Undo, e
<1>6. /\ next \in Histories /\ next.entries = h.entries /\ next.cursor = h.cursor - 1
      /\ next.currentId = e.beforeId /\ next.savedStateId = h.savedStateId
      /\ next.nextId = h.nextId
  <2>1. h \in Histories /\ h.cursor - 1 \in Nat /\ e.beforeId \in Nat
    BY <1>1, <1>3
  <2> QED BY <2>1 DEF Histories
<1> HIDE DEF next
<1>7. next.cursor > 0 => h.entries[next.cursor].afterId = next.currentId
  BY <1>1, <1>4, <1>6 DEF Linked, e
<1>8. next.cursor = 0 => h.entries[1].beforeId = next.currentId
  BY <1>1, <1>6 DEF e
<1>9. next.cursor \in 0 .. Len(next.entries)
  BY <1>1, <1>6
<1>10. Tells(next, names, names[next.currentId + 1])
  BY <1>1, <1>2, <1>3, <1>4, <1>6, <1>7, <1>8, <1>9, TellsFromParts
<1>11. names[e.beforeId + 1] \in Models
  BY <1>1, <1>3, ElementOfSeq
<1>12. Applied(Reversed(e.edit), m) = names[e.beforeId + 1]
  BY <1>1, <1>3, <1>4, <1>11, AppliedBack DEF Leads
<1>13. Reversed(e.edit) \in Edits
  BY <1>3, EditTypes
<1> QED
  BY <1>1, <1>3, <1>5, <1>6, <1>10, <1>12, <1>13 DEF e

LEMMA RedoTells ==
  ASSUME NEW h, NEW names, NEW m, Tells(h, names, m), CanRedo(h)
  PROVE  LET edit == h.entries[h.cursor + 1].edit IN
         /\ edit \in Edits
         /\ Tells(Redo(h), names, Applied(edit, m))
         /\ Redo(h).savedStateId = h.savedStateId /\ Redo(h).currentId < Len(names)
<1> DEFINE e == h.entries[h.cursor + 1]
           next == [h EXCEPT !.cursor = h.cursor + 1, !.currentId = e.afterId]
<1>1. /\ h \in Histories /\ h.entries \in Seq(Entry) /\ Len(h.entries) \in Nat
      /\ h.cursor \in Nat /\ h.cursor + 1 \in 1 .. Len(h.entries) /\ Len(h.entries) <= EntryLimit
      /\ Len(names) \in Nat /\ h.nextId = Len(names) /\ names \in Seq(Models)
      /\ h.savedStateId \in 0 .. Len(names) - 1 /\ m = names[h.currentId + 1]
  BY TellsTypes DEF CanRedo
<1>2. \A i \in 1 .. Len(h.entries) :
        /\ h.entries[i].beforeId \in 0 .. Len(names) - 1
        /\ h.entries[i].afterId \in 1 .. Len(names) - 1
        /\ Leads(h.entries[i], names)
  BY TellsTypes
<1>3. /\ e \in Entry /\ e.edit \in Edits /\ e.afterId \in 1 .. Len(names) - 1
      /\ Leads(e, names)
  BY <1>1, TellsTypes
<1>4. e.beforeId = h.currentId /\ Linked(h.entries)
  BY <1>1, TellsLinked
<1> HIDE DEF e
<1>5. Redo(h) = next
  BY DEF Redo, e
<1>6. /\ next \in Histories /\ next.entries = h.entries /\ next.cursor = h.cursor + 1
      /\ next.currentId = e.afterId /\ next.savedStateId = h.savedStateId
      /\ next.nextId = h.nextId
  <2>1. h \in Histories /\ h.cursor + 1 \in Nat /\ e.afterId \in Nat
    BY <1>1, <1>3
  <2> QED BY <2>1 DEF Histories
<1> HIDE DEF next
<1>7. h.entries[next.cursor].afterId = next.currentId
  BY <1>6 DEF e
<1>8. next.cursor \in 0 .. Len(next.entries) /\ next.cursor > 0
  BY <1>1, <1>6
<1>9. next.currentId \in 0 .. Len(names) - 1
  BY <1>1, <1>3, <1>6
<1>10. Tells(next, names, names[next.currentId + 1])
  <2>1. /\ next \in Histories /\ names \in Seq(Models) /\ next.nextId = Len(names)
        /\ Len(next.entries) <= EntryLimit /\ Linked(next.entries)
        /\ next.savedStateId \in 0 .. Len(names) - 1 /\ ~(next.cursor = 0)
    BY <1>1, <1>4, <1>6, <1>8
  <2>2. /\ \A i \in 1 .. Len(next.entries) :
             /\ next.entries[i].beforeId \in 0 .. Len(names) - 1
             /\ next.entries[i].afterId \in 1 .. Len(names) - 1
             /\ Leads(next.entries[i], names)
        /\ next.entries[next.cursor].afterId = next.currentId
    BY <1>2, <1>6, <1>7
  <2> QED BY <1>8, <1>9, <2>1, <2>2, TellsFromParts
<1>11. Applied(e.edit, m) = names[e.afterId + 1]
  BY <1>1, <1>3, <1>4 DEF Leads
<1> QED
  BY <1>1, <1>3, <1>5, <1>6, <1>9, <1>10, <1>11 DEF e

-----------------------------------------------------------------------------
(* The inductive invariant.                                                  *)

Bytes == [by : {"session", "program", "missing"}, model : Models, n : Nat]
ShortOps == [step : {"idle", "collect", "recover"}]
ApplyOps == [step : {"apply"}, edit : Edits, next : Histories]
SaveSteps == {"check", "recheck", "rename"}
SaveOps == [step : SaveSteps, target : Paths, expected : Bytes, looked : Nat, bytes : Bytes]

RecordTypes ==
    /\ model \in Models /\ native \in Models \cup {Broken} /\ revision \in Nat
    /\ failed \in BOOLEAN /\ closed \in BOOLEAN /\ path \in Paths
    /\ files \in [Paths -> Bytes] /\ fingerprint \in Bytes /\ savedBytes \in Bytes
    /\ menu \in [revision : Int, model : Models] /\ dialog \in Bytes \cup {NoDialog}
    /\ op \in ShortOps \cup ApplyOps \cup SaveOps
    /\ writes \in Nat

(* The history tells of the model, and what was last saved is what its saved *)
(* id names.                                                                 *)
Truthful ==
    /\ Tells(history, modelOf, model)
    /\ Ours(NameOf(history.savedStateId)) = savedBytes

(* While the worker applies an edit, the history that will follow tells of   *)
(* the model that will follow.                                               *)
NamesAfter == IF op.next.currentId < Len(modelOf) THEN modelOf
              ELSE Append(modelOf, Applied(op.edit, model))
Pending ==
    op.step = "apply" => /\ Tells(op.next, NamesAfter, Applied(op.edit, model))
                         /\ op.next.savedStateId = history.savedStateId

(* The backing follows the model unless it is being recovered or given up,   *)
(* and nothing begins after it was given up.                                 *)
Follows ==
    /\ op.step # "idle" => ~failed
    /\ ~failed /\ op.step # "recover" => native = model

(* A save writes the model, and a target it finds changed after it looked at *)
(* it was written since.                                                     *)
Saves ==
    op.step \in SaveSteps =>
      /\ op.bytes = Ours(model) /\ op.looked <= writes
      /\ op.step # "check" /\ files[op.target] # op.expected => writes > op.looked

(* A menu of the current revision shows the current model.                   *)
Fresh == menu.revision <= revision /\ (menu.revision = revision => menu.model = model)

SessionInv == RecordTypes /\ Truthful /\ Pending /\ Follows /\ Saves /\ Fresh

LEMMA BytesAreTyped ==
  /\ \A m \in Models : Ours(m) \in Bytes
  /\ \A n \in Nat : Foreign(n) \in Bytes
  /\ Missing \in Bytes /\ [i \in Ids |-> Absent] \in Models
  BY DEF Ours, Foreign, Missing, Bytes, Models

LEMMA SessionStarts == SessionInit => SessionInv
<1> SUFFICES ASSUME SessionInit PROVE SessionInv
  OBVIOUS
<1>1. model \in Models
  BY DEF SessionInit, Models
<1>2. RecordTypes
  <2>1. Ours(model) \in Bytes /\ Missing \in Bytes
    BY <1>1, BytesAreTyped
  <2>2. /\ files \in [Paths -> Bytes] /\ fingerprint \in Bytes /\ savedBytes \in Bytes
        /\ path \in Paths
    BY <2>1 DEF SessionInit, Paths
  <2>3. menu \in [revision : Int, model : Models]
    BY BytesAreTyped DEF SessionInit, NoMenu
  <2>4. op \in ShortOps
    BY DEF SessionInit, Unlocked, ShortOps
  <2>5. /\ native \in Models /\ revision \in Nat /\ failed \in BOOLEAN /\ closed \in BOOLEAN
        /\ writes \in Nat /\ dialog = NoDialog
    BY <1>1 DEF SessionInit
  <2> QED BY <1>1, <2>2, <2>3, <2>4, <2>5 DEF RecordTypes
<1>3. Tells(history, modelOf, model)
  <2>1. history = NewHistory /\ modelOf = <<model>>
    BY DEF SessionInit
  <2>2. modelOf \in Seq(Models) /\ Len(modelOf) = 1 /\ modelOf[1] = model
    BY <1>1, <2>1
  <2>3. history \in Histories
    BY <2>1, EmptySeq DEF NewHistory, Histories
  <2>4. Len(history.entries) = 0 /\ DOMAIN history.entries = {}
    BY <2>1 DEF NewHistory
  <2>5. WellFormed(history)
    BY <2>1, <2>4, HistoryAssumption DEF WellFormed, NewHistory
  <2> QED BY <2>1, <2>2, <2>3, <2>4, <2>5 DEF Tells, NewHistory
<1>4. Truthful
  BY <1>3 DEF SessionInit, Truthful, NameOf, NewHistory
<1>5. Pending /\ Follows /\ Saves
  BY DEF SessionInit, Pending, Follows, Saves, SaveSteps, Unlocked
<1>6. Fresh
  BY DEF SessionInit, Fresh, NoMenu
<1> QED BY <1>2, <1>4, <1>5, <1>6 DEF SessionInv

(* What an operation that leaves the model alone keeps.                      *)
LEMMA SameHistory ==
  ASSUME Truthful, UNCHANGED <<history, modelOf, model, savedBytes>>
  PROVE  Truthful'
  BY DEF Truthful, Tells, NameOf, WellFormed, IdBefore, Leads

(* The types of the three shapes of an operation.                            *)
LEMMA OpShapes ==
  ASSUME RecordTypes
  PROVE  /\ op.step \in {"idle", "collect", "recover", "apply"} \cup SaveSteps
         /\ op.step = "apply" => op \in ApplyOps /\ op.edit \in Edits /\ op.next \in Histories
         /\ op.step \in SaveSteps => op \in SaveOps
  BY DEF RecordTypes, ShortOps, ApplyOps, SaveOps, SaveSteps

-----------------------------------------------------------------------------
(* Edits.                                                                    *)

(* Beginning an edit whose history and model agree.                          *)
LEMMA BeginApplyKeeps ==
  ASSUME SessionInv, NEW edit \in Edits, NEW next, BeginApply(edit, next), Open,
         next.savedStateId = history.savedStateId,
         Tells(next, IF next.currentId < Len(modelOf) THEN modelOf
                     ELSE Append(modelOf, Applied(edit, model)), Applied(edit, model)),
         menu' \in [revision : Int, model : Models],
         menu'.revision <= revision, menu'.revision = revision => menu'.model = model
  PROVE  SessionInv'
<1>1. /\ op' = [step |-> "apply", edit |-> edit, next |-> next]
      /\ UNCHANGED <<model, native, history, revision, failed, closed, path, fingerprint,
                     savedBytes, files, dialog, modelOf, writes>>
  BY DEF BeginApply, session
<1>2. next \in Histories
  BY DEF Tells
<1>3. op' \in ApplyOps
  BY <1>1, <1>2 DEF ApplyOps
<1>4. RecordTypes'
  BY <1>1, <1>3 DEF SessionInv, RecordTypes
<1>5. Truthful'
  BY <1>1, SameHistory DEF SessionInv
<1>6. Pending'
  <2>1. op'.next = next /\ op'.edit = edit /\ modelOf' = modelOf /\ model' = model
    BY <1>1
  <2>2. NamesAfter' = IF next.currentId < Len(modelOf) THEN modelOf
                      ELSE Append(modelOf, Applied(edit, model))
    BY <2>1 DEF NamesAfter, Applied
  <2>3. Tells(op'.next, NamesAfter', Applied(op'.edit, model'))
    BY <2>1, <2>2
  <2>4. op'.next.savedStateId = history'.savedStateId
    BY <1>1, <2>1
  <2>5. Tells(op'.next, NamesAfter', Applied(op'.edit, model'))
          <=> Tells(op.next, NamesAfter, Applied(op.edit, model))'
    BY DEF Tells, Applied, Leads, WellFormed, IdBefore
  <2> QED BY <2>3, <2>4, <2>5 DEF Pending
<1>7. Follows' /\ Saves'
  BY <1>1 DEF SessionInv, Follows, Saves, SaveSteps, Open, Unlocked
<1>8. Fresh'
  BY <1>1 DEF Fresh
<1> QED BY <1>4, <1>5, <1>6, <1>7, <1>8 DEF SessionInv

LEMMA StartEditKeeps == SessionInv /\ StartEdit => SessionInv'
<1> SUFFICES ASSUME SessionInv, StartEdit PROVE SessionInv'
  OBVIOUS
<1>1. PICK edit \in Edits :
        /\ edit.before = model[edit.id]
        /\ \/ edit.before = Absent /\ UNCHANGED menu
           \/ menu # NoMenu /\ MenuCurrent /\ menu' = NoMenu
        /\ IF Accepts(history, edit) THEN BeginApply(edit, Commit(history, edit))
           ELSE UNCHANGED <<session, files, op, dialog, modelOf, writes>>
  BY DEF StartEdit
<1>2. Tells(history, modelOf, model) /\ Len(modelOf) \in Nat /\ revision \in Nat
  BY TellsTypes DEF SessionInv, Truthful, RecordTypes
<1>3. /\ menu' \in [revision : Int, model : Models]
      /\ menu'.revision <= revision /\ (menu'.revision = revision => menu'.model = model)
  BY <1>1, <1>2, BytesAreTyped DEF SessionInv, RecordTypes, Fresh, NoMenu
<1>4. CASE Accepts(history, edit)
  <2>1. BeginApply(edit, Commit(history, edit)) /\ Open
    BY <1>1, <1>4 DEF StartEdit
  <2> DEFINE next == Commit(history, edit)
  <2>2. /\ Tells(next, Append(modelOf, Applied(edit, model)), Applied(edit, model))
        /\ next.savedStateId = history.savedStateId /\ next.currentId = Len(modelOf)
    BY <1>1, <1>2, CommitTells
  <2>3. ~(next.currentId < Len(modelOf))
    BY <1>2, <2>2
  <2> HIDE DEF next
  <2>4. BeginApply(edit, next)
    BY <2>1 DEF next
  <2> QED BY <1>3, <2>1, <2>2, <2>3, <2>4, BeginApplyKeeps
<1>5. CASE ~Accepts(history, edit)
  <2>1. UNCHANGED <<model, native, history, revision, failed, closed, path, fingerprint,
                    savedBytes, files, op, dialog, modelOf, writes>>
    BY <1>1, <1>5 DEF session
  <2>2. RecordTypes' /\ Follows' /\ Saves' /\ Fresh'
    BY <1>3, <2>1 DEF SessionInv, RecordTypes, Follows, Saves, Fresh
  <2>3. Truthful'
    BY <2>1, SameHistory DEF SessionInv
  <2>4. Pending'
    BY <2>1 DEF SessionInv, StartEdit, Open, Unlocked, Pending
  <2> QED BY <2>2, <2>3, <2>4 DEF SessionInv
<1> QED BY <1>4, <1>5

LEMMA StartTravelKeeps == SessionInv /\ StartTravel => SessionInv'
<1> SUFFICES ASSUME SessionInv, StartTravel PROVE SessionInv'
  OBVIOUS
<1>1. Tells(history, modelOf, model) /\ Len(modelOf) \in Nat /\ Open
  BY TellsTypes DEF SessionInv, Truthful, StartTravel
<1>2. /\ menu' \in [revision : Int, model : Models]
      /\ menu'.revision <= revision /\ (menu'.revision = revision => menu'.model = model)
  BY DEF SessionInv, RecordTypes, Fresh, StartTravel
<1>3. CASE /\ CanUndo(history)
           /\ BeginApply(Reversed(history.entries[history.cursor].edit), Undo(history))
  <2> DEFINE edit == Reversed(history.entries[history.cursor].edit)
             next == Undo(history)
  <2>1. /\ edit \in Edits /\ Tells(next, modelOf, Applied(edit, model))
        /\ next.savedStateId = history.savedStateId /\ next.currentId < Len(modelOf)
    BY <1>1, <1>3, UndoTells
  <2>2. BeginApply(edit, next)
    BY <1>3
  <2> HIDE DEF edit, next
  <2> QED BY <1>1, <1>2, <2>1, <2>2, BeginApplyKeeps
<1>4. CASE CanRedo(history) /\ BeginApply(history.entries[history.cursor + 1].edit, Redo(history))
  <2> DEFINE edit == history.entries[history.cursor + 1].edit
             next == Redo(history)
  <2>1. /\ edit \in Edits /\ Tells(next, modelOf, Applied(edit, model))
        /\ next.savedStateId = history.savedStateId /\ next.currentId < Len(modelOf)
    BY <1>1, <1>4, RedoTells
  <2>2. BeginApply(edit, next)
    BY <1>4
  <2> HIDE DEF edit, next
  <2> QED BY <1>1, <1>2, <2>1, <2>2, BeginApplyKeeps
<1> QED BY <1>3, <1>4 DEF StartTravel

LEMMA ApplySucceedsKeeps == SessionInv /\ ApplySucceeds => SessionInv'
<1> SUFFICES ASSUME SessionInv, ApplySucceeds PROVE SessionInv'
  OBVIOUS
<1>1. /\ op.step = "apply" /\ native' = Applied(op.edit, native)
      /\ model' = Applied(op.edit, model) /\ history' = op.next /\ revision' = revision + 1
      /\ modelOf' = NamesAfter /\ op' = [step |-> "collect"]
      /\ UNCHANGED <<failed, closed, path, fingerprint, savedBytes, files, menu, dialog, writes>>
  BY DEF ApplySucceeds, NamesAfter
<1>2. op.edit \in Edits /\ op.next \in Histories
  BY <1>1, OpShapes DEF SessionInv
<1>3. /\ Tells(op.next, NamesAfter, Applied(op.edit, model))
      /\ op.next.savedStateId = history.savedStateId
  BY <1>1 DEF SessionInv, Pending
<1>4. model' \in Models /\ native' = model'
  <2>1. native = model /\ model \in Models
    BY <1>1 DEF SessionInv, Follows, RecordTypes
  <2> QED BY <1>1, <1>2, <2>1, AppliedIsModel
<1>5. RecordTypes'
  BY <1>1, <1>4 DEF SessionInv, RecordTypes, ShortOps
<1>6. Truthful'
  <2>1. /\ Len(modelOf) \in Nat /\ modelOf \in Seq(Models)
        /\ history.savedStateId \in 0 .. Len(modelOf) - 1
    BY TellsTypes DEF SessionInv, Truthful
  <2>2. Applied(op.edit, model) \in Models
    BY <1>1, <1>4
  <2>3. \A i \in 1 .. Len(modelOf) : NamesAfter[i] = modelOf[i]
    BY <2>1, <2>2, AppendProperties DEF NamesAfter
  <2>4. NamesAfter[history.savedStateId + 1] = modelOf[history.savedStateId + 1]
    BY <2>1, <2>3
  <2>5. Ours(NamesAfter[op.next.savedStateId + 1]) = savedBytes
    BY <1>3, <2>4 DEF SessionInv, Truthful, NameOf
  <2> HIDE DEF NamesAfter
  <2>6. Tells(history, modelOf, model)'
    BY <1>1, <1>3 DEF Tells, Leads, WellFormed, IdBefore, Applied
  <2>7. (Ours(NameOf(history.savedStateId)) = savedBytes)'
    BY <1>1, <2>5 DEF NameOf, Ours
  <2> QED BY <2>6, <2>7 DEF Truthful
<1>7. Pending' /\ Follows' /\ Saves'
  BY <1>1, <1>4 DEF SessionInv, Pending, Follows, Saves, SaveSteps
<1>8. Fresh'
  BY <1>1 DEF SessionInv, Fresh, RecordTypes
<1> QED BY <1>5, <1>6, <1>7, <1>8 DEF SessionInv

(* A failed edit, and the collection that follows one that worked.           *)
LEMMA ApplyEndsKeeps == SessionInv /\ (ApplyFails \/ Collect) => SessionInv'
<1> SUFFICES ASSUME SessionInv, ApplyFails \/ Collect PROVE SessionInv'
  OBVIOUS
<1>1. /\ op.step \in {"apply", "collect"}
      /\ \/ op' = Unlocked /\ native' = native
         \/ op' = [step |-> "recover"] /\ native' = Broken
      /\ UNCHANGED <<model, history, revision, failed, closed, path, fingerprint, savedBytes,
                     files, menu, dialog, modelOf, writes>>
  BY DEF ApplyFails, Collect
<1>2. op' \in ShortOps
  BY <1>1 DEF Unlocked, ShortOps
<1>3. RecordTypes' /\ Fresh'
  BY <1>1, <1>2 DEF SessionInv, RecordTypes, Fresh
<1>4. Truthful'
  BY <1>1, SameHistory DEF SessionInv
<1>5. Pending' /\ Follows' /\ Saves'
  BY <1>1 DEF SessionInv, Pending, Follows, Saves, SaveSteps, Unlocked
<1> QED BY <1>3, <1>4, <1>5 DEF SessionInv

LEMMA RecoverKeeps == SessionInv /\ Recover => SessionInv'
<1> SUFFICES ASSUME SessionInv, Recover PROVE SessionInv'
  OBVIOUS
<1>1. /\ op.step = "recover" /\ op' = Unlocked
      /\ \/ native' = model /\ failed' = failed
         \/ native' = native /\ failed' = TRUE
      /\ UNCHANGED <<model, history, revision, closed, path, fingerprint, savedBytes, files, menu,
                     dialog, modelOf, writes>>
  BY DEF Recover
<1>2. op' \in ShortOps
  BY <1>1 DEF Unlocked, ShortOps
<1>3. RecordTypes' /\ Fresh'
  BY <1>1, <1>2 DEF SessionInv, RecordTypes, Fresh
<1>4. Truthful'
  BY <1>1, SameHistory DEF SessionInv
<1>5. Pending' /\ Follows' /\ Saves'
  BY <1>1 DEF SessionInv, Pending, Follows, Saves, SaveSteps, Unlocked
<1> QED BY <1>3, <1>4, <1>5 DEF SessionInv

-----------------------------------------------------------------------------
(* Menus, dialogs and closing: the operation that holds the lock, the model  *)
(* and the files stay as they are.                                           *)

LEMMA SameOperation ==
  ASSUME SessionInv, RecordTypes', Fresh',
         UNCHANGED <<model, native, history, failed, savedBytes, files, op, modelOf, writes>>
  PROVE  SessionInv'
<1>1. Truthful'
  BY SameHistory DEF SessionInv
<1>2. Follows' /\ Saves'
  BY DEF SessionInv, Follows, Saves, Ours
<1>3. Pending'
  BY DEF SessionInv, Pending, NamesAfter, Tells, Leads, Applied, WellFormed, IdBefore
<1> QED BY <1>1, <1>2, <1>3 DEF SessionInv

LEMMA LooksKeep ==
  SessionInv /\ (OpenMenu \/ DismissMenu \/ OpenSaveAs \/ Close) => SessionInv'
<1> SUFFICES ASSUME SessionInv, OpenMenu \/ DismissMenu \/ OpenSaveAs \/ Close PROVE SessionInv'
  OBVIOUS
<1>1. UNCHANGED <<model, native, history, revision, failed, path, fingerprint, savedBytes, files,
                  op, modelOf, writes>>
  BY DEF OpenMenu, DismissMenu, OpenSaveAs, Close, session
<1>2. /\ menu' \in {menu, NoMenu, [revision |-> revision, model |-> model]}
      /\ closed' \in {closed, TRUE}
      /\ dialog' \in {dialog, NoDialog, files[OtherPath]}
  BY DEF OpenMenu, DismissMenu, OpenSaveAs, Close, session
<1>3. OtherPath \in Paths
  <2>1. \E q \in Paths : q # path
    BY DEF Paths
  <2> QED BY <2>1 DEF OtherPath
<1>4. NoMenu \in [revision : Int, model : Models] /\ NoMenu.revision = -1
  BY BytesAreTyped DEF NoMenu
<1>5. revision \in Nat /\ model \in Models
  BY DEF SessionInv, RecordTypes
<1>6. menu' \in [revision : Int, model : Models] /\ Fresh'
  <2>1. CASE menu' = menu
    BY <1>1, <2>1 DEF SessionInv, RecordTypes, Fresh
  <2>2. CASE menu' = NoMenu
    BY <1>1, <1>4, <1>5, <2>2 DEF Fresh
  <2>3. CASE menu' = [revision |-> revision, model |-> model]
    BY <1>1, <1>5, <2>3 DEF Fresh
  <2> QED BY <1>2, <2>1, <2>2, <2>3
<1>7. closed' \in BOOLEAN /\ dialog' \in Bytes \cup {NoDialog}
  <2>1. closed \in BOOLEAN /\ dialog \in Bytes \cup {NoDialog} /\ files \in [Paths -> Bytes]
    BY DEF SessionInv, RecordTypes
  <2> QED BY <1>2, <1>3, <2>1
<1>8. RecordTypes'
  <2>1. RecordTypes
    BY DEF SessionInv
  <2> QED BY <1>1, <1>6, <1>7, <2>1 DEF RecordTypes
<1> QED BY <1>1, <1>6, <1>8, SameOperation

-----------------------------------------------------------------------------
(* Saving.                                                                   *)

LEMMA StartSaveKeeps == SessionInv /\ StartSave => SessionInv'
<1> SUFFICES ASSUME SessionInv, StartSave PROVE SessionInv'
  OBVIOUS
<1>1. /\ UNCHANGED <<model, native, history, revision, failed, closed, path, fingerprint,
                     savedBytes, files, menu, modelOf, writes>>
      /\ op = Unlocked /\ ~failed /\ dialog' \in {dialog, NoDialog}
  BY DEF StartSave, Open, session
<1>2. PICK target \in Paths, expected \in Bytes : BeginSave(target, expected)
  <2>1. path \in Paths /\ fingerprint \in Bytes
    BY DEF SessionInv, RecordTypes
  <2>2. OtherPath \in Paths
    <3>1. \E q \in Paths : q # path
      BY DEF Paths
    <3> QED BY <3>1 DEF OtherPath
  <2>3. CASE BeginSave(path, fingerprint)
    BY <2>1, <2>3
  <2>4. CASE dialog # NoDialog /\ BeginSave(OtherPath, dialog)
    BY <2>2, <2>4 DEF SessionInv, RecordTypes
  <2> QED BY <2>3, <2>4 DEF StartSave
<1> DEFINE bytes == IF Dirty(history) THEN Ours(native) ELSE savedBytes
<1>3. bytes = Ours(model) /\ bytes \in Bytes
  <2>1. native = model /\ model \in Models
    BY <1>1 DEF SessionInv, Follows, RecordTypes, Unlocked
  <2>2. ~Dirty(history) => savedBytes = Ours(model)
    BY DEF SessionInv, Truthful, Tells, NameOf, Dirty
  <2> QED BY <2>1, <2>2, BytesAreTyped
<1>4. \/ op' = Unlocked
      \/ op' = [step |-> "check", target |-> target, expected |-> expected, looked |-> writes,
                bytes |-> bytes]
  BY <1>2 DEF BeginSave
<1> HIDE DEF bytes
<1>5. op' \in ShortOps \cup SaveOps
  BY <1>3, <1>4 DEF Unlocked, ShortOps, SaveOps, SaveSteps, SessionInv, RecordTypes
<1>6. RecordTypes' /\ Fresh'
  BY <1>1, <1>5 DEF SessionInv, RecordTypes, Fresh
<1>7. Truthful'
  BY <1>1, SameHistory DEF SessionInv
<1>8. Pending' /\ Follows'
  BY <1>1, <1>4 DEF SessionInv, Pending, Follows, Unlocked
<1>9. Saves'
  <2>1. writes \in Nat
    BY DEF SessionInv, RecordTypes
  <2> QED BY <1>1, <1>3, <1>4, <2>1 DEF Saves, SaveSteps, Unlocked, Ours
<1> QED BY <1>6, <1>7, <1>8, <1>9 DEF SessionInv

LEMMA CheckKeeps == SessionInv /\ Check => SessionInv'
<1> SUFFICES ASSUME SessionInv, Check PROVE SessionInv'
  OBVIOUS
<1>1. /\ UNCHANGED <<model, native, history, revision, failed, closed, path, fingerprint,
                     savedBytes, files, menu, dialog, modelOf, writes>>
      /\ op.step \in {"check", "recheck"}
      /\ \/ op' = Unlocked
         \/ /\ TargetUnchanged
            /\ op' = [op EXCEPT !.step = IF @ = "check" THEN "recheck" ELSE "rename",
                                !.looked = writes]
  BY DEF Check, session
<1>2. op \in SaveOps /\ op.bytes = Ours(model) /\ writes \in Nat
  BY <1>1, OpShapes DEF SessionInv, Saves, SaveSteps, RecordTypes
<1>3. CASE op' = Unlocked
  <2>1. op' \in ShortOps
    BY <1>3 DEF Unlocked, ShortOps
  <2>2. RecordTypes' /\ Fresh'
    BY <1>1, <2>1 DEF SessionInv, RecordTypes, Fresh
  <2>3. Pending' /\ Follows' /\ Saves'
    BY <1>1, <1>3 DEF SessionInv, Pending, Follows, Saves, SaveSteps, Unlocked
  <2> QED BY <1>1, <2>2, <2>3, SameHistory DEF SessionInv
<1>4. CASE TargetUnchanged /\ op' = [op EXCEPT !.step = IF @ = "check" THEN "recheck" ELSE "rename",
                                               !.looked = writes]
  <2>1. /\ op' \in SaveOps /\ op'.step \in {"recheck", "rename"} /\ op'.target = op.target
        /\ op'.expected = op.expected /\ op'.bytes = op.bytes /\ op'.looked = writes
    BY <1>2, <1>4 DEF SaveOps, SaveSteps
  <2>2. RecordTypes' /\ Fresh'
    BY <1>1, <2>1 DEF SessionInv, RecordTypes, Fresh
  <2>3. Pending' /\ Follows'
    BY <1>1, <2>1 DEF SessionInv, Pending, Follows
  <2>4. Saves'
    BY <1>1, <1>2, <1>4, <2>1 DEF Saves, Ours, TargetUnchanged
  <2> QED BY <1>1, <2>2, <2>3, <2>4, SameHistory DEF SessionInv
<1> QED BY <1>1, <1>3, <1>4

(* MarkSaved leaves the entries and the current id alone.                    *)
LEMMA MarkSavedTells ==
  ASSUME NEW h, NEW names, NEW m, Tells(h, names, m)
  PROVE  Tells(MarkSaved(h), names, m) /\ MarkSaved(h).savedStateId = h.currentId
<1>1. h \in Histories /\ h.currentId \in 0 .. Len(names) - 1 /\ h.nextId = Len(names)
  BY TellsTypes
<1> DEFINE next == MarkSaved(h)
<1>2. /\ next \in Histories /\ next.entries = h.entries /\ next.cursor = h.cursor
      /\ next.currentId = h.currentId /\ next.savedStateId = h.currentId /\ next.nextId = h.nextId
  BY <1>1 DEF MarkSaved, Histories
<1> HIDE DEF next
<1>3. Tells(next, names, m)
  BY <1>1, <1>2 DEF Tells, WellFormed, IdBefore, Leads
<1> QED BY <1>2, <1>3 DEF next

LEMMA RenameKeeps == SessionInv /\ Rename => SessionInv'
<1> SUFFICES ASSUME SessionInv, Rename PROVE SessionInv'
  OBVIOUS
<1>1. /\ op.step = "rename" /\ files' = [files EXCEPT ![op.target] = op.bytes]
      /\ path' = op.target /\ fingerprint' = op.bytes /\ savedBytes' = op.bytes
      /\ history' = MarkSaved(history) /\ op' = Unlocked
      /\ UNCHANGED <<model, native, revision, failed, closed, menu, dialog, modelOf, writes>>
  BY DEF Rename
<1>2. op.target \in Paths /\ op.bytes \in Bytes /\ op.bytes = Ours(model)
  BY <1>1, OpShapes DEF SessionInv, Saves, SaveSteps, SaveOps
<1>3. op' \in ShortOps
  BY <1>1 DEF Unlocked, ShortOps
<1>4. RecordTypes' /\ Fresh'
  BY <1>1, <1>2, <1>3 DEF SessionInv, RecordTypes, Fresh
<1>5. Truthful'
  <2>1. Tells(history, modelOf, model)
    BY DEF SessionInv, Truthful
  <2>2. /\ Tells(MarkSaved(history), modelOf, model)
        /\ MarkSaved(history).savedStateId = history.currentId
    BY <2>1, MarkSavedTells
  <2>3. Tells(history, modelOf, model)'
    BY <1>1, <2>2 DEF Tells, Leads, WellFormed, IdBefore, Applied
  <2>4. (Ours(NameOf(history.savedStateId)) = savedBytes)'
    BY <1>1, <1>2, <2>1, <2>2 DEF Tells, NameOf, Ours
  <2> QED BY <2>3, <2>4 DEF Truthful
<1>6. Pending' /\ Follows' /\ Saves'
  BY <1>1 DEF SessionInv, Pending, Follows, Saves, SaveSteps, Unlocked
<1> QED BY <1>4, <1>5, <1>6 DEF SessionInv

LEMMA RenameFailsKeeps == SessionInv /\ RenameFails => SessionInv'
<1> SUFFICES ASSUME SessionInv, RenameFails PROVE SessionInv'
  OBVIOUS
<1>1. /\ op.step = "rename" /\ op' = Unlocked
      /\ UNCHANGED <<model, native, history, revision, failed, closed, path, fingerprint,
                     savedBytes, files, menu, dialog, modelOf, writes>>
  BY DEF RenameFails, session
<1>2. op' \in ShortOps
  BY <1>1 DEF Unlocked, ShortOps
<1>3. RecordTypes' /\ Fresh'
  BY <1>1, <1>2 DEF SessionInv, RecordTypes, Fresh
<1>4. Pending' /\ Follows' /\ Saves'
  BY <1>1 DEF SessionInv, Pending, Follows, Saves, SaveSteps, Unlocked
<1> QED BY <1>1, <1>3, <1>4, SameHistory DEF SessionInv

LEMMA ExternalWriteKeeps == SessionInv /\ ExternalWrite => SessionInv'
<1> SUFFICES ASSUME SessionInv, ExternalWrite PROVE SessionInv'
  OBVIOUS
<1>1. /\ writes' = writes + 1 /\ writes \in Nat
      /\ UNCHANGED <<model, native, history, revision, failed, closed, path, fingerprint,
                     savedBytes, op, menu, dialog, modelOf>>
  BY DEF ExternalWrite, session, SessionInv, RecordTypes
<1>2. files' \in [Paths -> Bytes]
  <2>1. PICK target \in Paths : files' = [files EXCEPT ![target] = Foreign(writes')]
    BY DEF ExternalWrite
  <2>2. Foreign(writes') \in Bytes
    BY <1>1, BytesAreTyped
  <2> QED BY <2>1, <2>2 DEF SessionInv, RecordTypes
<1>3. RecordTypes' /\ Fresh'
  BY <1>1, <1>2 DEF SessionInv, RecordTypes, Fresh
<1>4. Pending'
  BY <1>1 DEF SessionInv, Pending, NamesAfter, Tells, Leads, Applied, WellFormed, IdBefore
<1>5. Follows'
  BY <1>1 DEF SessionInv, Follows
<1>6. Saves'
  <2> SUFFICES ASSUME op.step \in SaveSteps
               PROVE  op.bytes = Ours(model) /\ op.looked <= writes + 1 /\ writes + 1 > op.looked
    BY <1>1 DEF Saves, Ours
  <2>1. op \in SaveOps
    BY OpShapes DEF SessionInv
  <2>2. op.looked \in Nat /\ op.looked <= writes /\ op.bytes = Ours(model)
    BY <2>1 DEF SaveOps, SessionInv, Saves
  <2> QED BY <1>1, <2>2
<1> QED BY <1>1, <1>3, <1>4, <1>5, <1>6, SameHistory DEF SessionInv

-----------------------------------------------------------------------------
(* The theorems.                                                             *)

LEMMA SessionStep == SessionInv /\ [SessionNext]_sessionVars => SessionInv'
<1> SUFFICES ASSUME SessionInv, [SessionNext]_sessionVars PROVE SessionInv'
  OBVIOUS
<1>1. CASE StartEdit BY <1>1, StartEditKeeps
<1>2. CASE StartTravel BY <1>2, StartTravelKeeps
<1>3. CASE ApplySucceeds BY <1>3, ApplySucceedsKeeps
<1>4. CASE ApplyFails \/ Collect BY <1>4, ApplyEndsKeeps
<1>5. CASE Recover BY <1>5, RecoverKeeps
<1>6. CASE OpenMenu \/ DismissMenu \/ OpenSaveAs \/ Close BY <1>6, LooksKeep
<1>7. CASE StartSave BY <1>7, StartSaveKeeps
<1>8. CASE Check BY <1>8, CheckKeeps
<1>9. CASE Rename BY <1>9, RenameKeeps
<1>10. CASE RenameFails BY <1>10, RenameFailsKeeps
<1>11. CASE ExternalWrite BY <1>11, ExternalWriteKeeps
<1>12. CASE UNCHANGED sessionVars
  <2>1. UNCHANGED <<model, native, history, revision, failed, closed, path, fingerprint,
                    savedBytes, files, op, menu, dialog, modelOf, writes>>
    BY <1>12 DEF sessionVars, session
  <2>2. RecordTypes' /\ Fresh'
    BY <2>1 DEF SessionInv, RecordTypes, Fresh
  <2> QED BY <2>1, <2>2, SameOperation
<1> QED
  BY <1>1, <1>2, <1>3, <1>4, <1>5, <1>6, <1>7, <1>8, <1>9, <1>10, <1>11, <1>12 DEF SessionNext

LEMMA SessionInvariant == SessionSpec => []SessionInv
  BY SessionStarts, SessionStep, PTL DEF SessionSpec

(* Whatever mixture of edits, undo, redo, truncation, failures and saves led *)
(* there: the current state id names the model, the saved one what the file  *)
(* was last given.                                                           *)
THEOREM HistoryTellsTheTruth == SessionSpec => []IdsNameModels
<1> SUFFICES ASSUME SessionInv PROVE IdsNameModels
  BY SessionInvariant, PTL
<1>1. SessionTypes
  BY OpShapes DEF SessionInv, SessionTypes, RecordTypes, Truthful, Tells, SaveSteps
<1> QED BY <1>1 DEF SessionInv, Truthful, Tells, IdsNameModels, NameOf

(* Between edits the backing shows the model unless editing was given up,    *)
(* and what a save is about to write is the model.                           *)
THEOREM BackingFollowsModel == SessionSpec => []BackingShowsModel
<1>1. SessionInv => BackingShowsModel
  BY DEF SessionInv, Follows, Saves, SaveSteps, BackingShowsModel
<1> QED BY <1>1, SessionInvariant, PTL

(* A save overwrites bytes it did not expect only when they were written     *)
(* after its second look at the target.                                      *)
THEOREM ForeignBytesKept == SessionSpec => []ForeignKept
<1>1. SessionInv => ForeignKept
  BY DEF SessionInv, Saves, SaveSteps, ForeignKept
<1> QED BY <1>1, SessionInvariant, PTL

(* Undo and redo arrive at the model their id names, and an edit from a menu *)
(* is applied to the model the menu was opened on.                           *)
THEOREM EditsApplyAsShown == SessionSpec => EditsAsShown
<1> DEFINE Travel == history'.currentId # history.currentId /\ history'.nextId = history.nextId
                       => model' = NameOf(history'.currentId)
           FromMenu == menu # NoMenu /\ op = Unlocked /\ op'.step = "apply" /\ menu' = NoMenu
                         => menu.model = model
<1>1. SessionInv /\ [SessionNext]_sessionVars => Travel
  <2> SUFFICES ASSUME SessionInv, [SessionNext]_sessionVars, history'.currentId # history.currentId,
                      history'.nextId = history.nextId
               PROVE  model' = NameOf(history'.currentId)
    OBVIOUS
  <2>1. history' = history \/ history' = MarkSaved(history) \/ ApplySucceeds
    BY DEF SessionNext, StartEdit, StartTravel, BeginApply, ApplyFails, Collect, Recover, OpenMenu,
       DismissMenu, OpenSaveAs, StartSave, Check, Rename, RenameFails, Close, ExternalWrite,
       sessionVars, session
  <2>2. MarkSaved(history).currentId = history.currentId
    BY DEF MarkSaved, SessionInv, Truthful, Tells, Histories
  <2>3. ApplySucceeds
    BY <2>1, <2>2
  <2>4. op.step = "apply" /\ history' = op.next /\ model' = Applied(op.edit, model)
    BY <2>3 DEF ApplySucceeds
  <2>5. Tells(op.next, NamesAfter, model') /\ Tells(history, modelOf, model)
    BY <2>4 DEF SessionInv, Pending, Truthful
  <2>6. /\ history'.nextId = Len(NamesAfter) /\ NamesAfter[history'.currentId + 1] = model'
        /\ history.nextId = Len(modelOf) /\ Len(modelOf) \in Nat
    BY <2>4, <2>5, TellsTypes DEF Tells
  <2>7. NamesAfter = modelOf
    <3>1. /\ modelOf \in Seq(Models) /\ Applied(op.edit, model) \in Models
      BY <2>4, <2>5, TellsTypes
    <3>2. Len(Append(modelOf, Applied(op.edit, model))) = Len(modelOf) + 1
      BY <3>1, AppendProperties
    <3>3. Len(NamesAfter) = Len(modelOf)
      BY <2>6, Zenon
    <3>4. Len(modelOf) \in Nat
      BY <2>6
    <3>5. NamesAfter # Append(modelOf, Applied(op.edit, model))
      BY <3>2, <3>3, <3>4
    <3> QED BY <3>5 DEF NamesAfter
  <2> QED BY <2>6, <2>7 DEF NameOf
<1>2. SessionInv /\ [SessionNext]_sessionVars => FromMenu
  <2> SUFFICES ASSUME SessionInv, [SessionNext]_sessionVars, menu # NoMenu, op = Unlocked,
                      op'.step = "apply", menu' = NoMenu
               PROVE  menu.model = model
    OBVIOUS
  <2>1. op.step = "idle" /\ op' # op
    BY DEF Unlocked
  <2>2. StartEdit
    BY <2>1 DEF SessionNext, StartTravel, ApplySucceeds, ApplyFails, Collect, Recover, OpenMenu,
       DismissMenu, OpenSaveAs, StartSave, BeginSave, Check, Rename, RenameFails, Close,
       ExternalWrite, sessionVars, Unlocked
  <2>3. menu.revision = revision
    BY <2>2 DEF StartEdit, MenuCurrent
  <2> QED BY <2>3 DEF SessionInv, Fresh
<1>3. SessionInv /\ [SessionNext]_sessionVars => [Travel /\ FromMenu]_sessionVars
  BY <1>1, <1>2
<1> QED BY <1>3, SessionInvariant, PTL DEF SessionSpec, EditsAsShown
=============================================================================
