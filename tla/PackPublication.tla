-------------------------- MODULE PackPublication --------------------------
(* The asset packaging tool: prepare of podoco/crates/podoco-models/src/     *)
(* package.rs.  A run builds a package of pinned models in a staging         *)
(* directory and swaps it with the package a previous run published, under   *)
(* a lock directory.  Runs may overlap, crash and meet failing renames; the  *)
(* model sources and the published package may change under them.            *)
(*                                                                           *)
(* A package is what it was built from, whether its models are the pinned    *)
(* ones, and whether somebody changed it since.                              *)
EXTENDS Naturals, FiniteSets

CONSTANTS
    Tools,       \* runs of the tool
    Inputs,      \* configurations a package can be built from
    WithModels,  \* those for a platform with models
    None,        \* nothing there
    Racing       \* may users change the package between its last check and its removal?

Package == [built : Inputs, models : {"pinned", "changed", None}, edited : BOOLEAN]

ASSUME PackAssumption == /\ WithModels \subseteq Inputs /\ Racing \in BOOLEAN
                         /\ None \notin Package \cup {"pinned", "changed"}

VARIABLES
    output,     \* the published package, or None
    source,     \* the model sources: "pinned" or "changed"
    lock,       \* the lock directory exists
    pc, inputs, replace,
    previous,   \* the verified package this run found
    before,     \* the inventory of the sources taken first
    copied,     \* the models copied to the staging directory
    stage,      \* the complete staged package
    backup,     \* the previous package, moved into the staging directory
    kept        \* the staging directory is preserved

request == <<inputs, replace>>
work == <<previous, before, copied, stage, backup, kept>>
vars == <<output, source, lock, pc, request, work>>

Init ==
    /\ output \in {None} \cup [built : Inputs, models : {"pinned"}, edited : {FALSE}]
    /\ source = "pinned" /\ lock = FALSE
    /\ pc = [t \in Tools |-> "idle"]
    /\ inputs \in [Tools -> Inputs] /\ replace \in [Tools -> BOOLEAN]
    /\ previous = [t \in Tools |-> None] /\ before = previous /\ copied = previous
    /\ stage = previous /\ backup = previous
    /\ kept = [t \in Tools |-> FALSE]

Goto(t, where) == pc' = [pc EXCEPT ![t] = where]
Fails(t) == Goto(t, "failed")
Files == <<output, source, lock>>

(* The lock directory is created exclusively; a run that crashed leaves it.  *)
Locks == ~lock
Lock(t) ==
    /\ pc[t] = "idle"
    /\ IF Locks THEN lock' = TRUE /\ Goto(t, "locked")
                ELSE lock' = lock /\ Goto(t, "refused")
    /\ UNCHANGED <<output, source, request, work>>

(* verify_generated: the index lists every file as it is.                    *)
Generated(p) == p # None /\ ~p.edited

Inspect(t) ==
    /\ pc[t] = "locked"
    /\ previous' = [previous EXCEPT ![t] = output]
    /\ IF output = None \/ Generated(output)
       THEN Goto(t, IF inputs[t] \in WithModels THEN "sources" ELSE "staging")
       ELSE Fails(t)
    /\ UNCHANGED <<Files, request, before, copied, stage, backup, kept>>

-----------------------------------------------------------------------------
(* Copying the models.                                                       *)

(* verify_component: manifest and payloads are those of the configured pin.  *)
Pinned(models) == models = "pinned"

VerifySources(t) ==
    /\ pc[t] = "sources"
    /\ IF Pinned(source) THEN Goto(t, "inventory") ELSE Fails(t)
    /\ UNCHANGED <<Files, request, work>>

TakeInventory(t) ==
    /\ pc[t] = "inventory"
    /\ before' = [before EXCEPT ![t] = source]
    /\ Goto(t, "copy")
    /\ UNCHANGED <<Files, request, previous, copied, stage, backup, kept>>

Copy(t) ==
    /\ pc[t] = "copy"
    /\ copied' = [copied EXCEPT ![t] = source]
    /\ IF source = before[t] THEN Goto(t, "copied") ELSE Fails(t)
    /\ UNCHANGED <<Files, request, previous, before, stage, backup, kept>>

CopyTrusted(t) == TRUE
CopyVerified(t) == Pinned(copied[t])
VerifyCopy(t) ==
    /\ pc[t] = "copied"
    /\ IF CopyVerified(t) THEN Goto(t, "compare") ELSE Fails(t)
    /\ UNCHANGED <<Files, request, work>>

CompareSources(t) ==
    /\ pc[t] = "compare"
    /\ IF source = before[t] THEN Goto(t, "staging") ELSE Fails(t)
    /\ UNCHANGED <<Files, request, work>>

(* The notices, catalogue, generated code and index complete the package.    *)
Assemble(t) ==
    /\ pc[t] = "staging"
    /\ stage' = [stage EXCEPT ![t] = [built |-> inputs[t], models |-> copied[t], edited |-> FALSE]]
    /\ Goto(t, "assembled")
    /\ UNCHANGED <<Files, request, previous, before, copied, backup, kept>>

-----------------------------------------------------------------------------
(* Publishing.                                                               *)

Decide(t) ==
    /\ pc[t] = "assembled"
    /\ CASE previous[t] = None             -> Goto(t, "publish")
         [] previous[t] = stage[t]         -> Goto(t, "done")
         [] previous[t] # stage[t] /\ replace[t] -> Goto(t, "recheck")
         [] OTHER                          -> Fails(t)
    /\ UNCHANGED <<Files, request, work>>

StillSame(t) == Generated(output) /\ output = previous[t]
Recheck(t) ==
    /\ pc[t] = "recheck"
    /\ IF StillSame(t) THEN Goto(t, "retire") ELSE Fails(t)
    /\ UNCHANGED <<Files, request, work>>

Retire(t) ==
    /\ pc[t] = "retire"
    /\ \/ /\ output # None
          /\ backup' = [backup EXCEPT ![t] = output] /\ output' = None
          /\ Goto(t, "publish")
       \/ Fails(t) /\ UNCHANGED <<output, backup>>
    /\ UNCHANGED <<source, lock, request, previous, before, copied, stage, kept>>

Publish(t) ==
    /\ pc[t] = "publish"
    /\ \/ /\ output = None
          /\ output' = stage[t] /\ stage' = [stage EXCEPT ![t] = None]
          /\ Goto(t, "done")
       \/ Goto(t, "restore") /\ UNCHANGED <<output, stage>>
    /\ UNCHANGED <<source, lock, request, previous, before, copied, backup, kept>>

(* The previous package goes back; where that fails too, it is preserved in  *)
(* the staging directory and its path is in the error.                       *)
DropsBackup(t) ==
    /\ Fails(t) /\ UNCHANGED kept
    /\ \/ UNCHANGED <<output, backup>>
       \/ /\ backup[t] # None /\ output = None
          /\ output' = backup[t] /\ backup' = [backup EXCEPT ![t] = None]
Restores(t) ==
    \/ backup[t] = None /\ Fails(t) /\ UNCHANGED <<output, backup, kept>>
    \/ /\ backup[t] # None /\ output = None
       /\ output' = backup[t] /\ backup' = [backup EXCEPT ![t] = None]
       /\ Fails(t) /\ UNCHANGED kept
    \/ /\ backup[t] # None
       /\ kept' = [kept EXCEPT ![t] = TRUE]
       /\ Fails(t) /\ UNCHANGED <<output, backup>>
Restore(t) ==
    /\ pc[t] = "restore"
    /\ Restores(t)
    /\ UNCHANGED <<source, lock, request, previous, before, copied, stage>>

(* The staging directory goes with all it holds, then the lock.              *)
Removes(t) == backup' = IF kept[t] THEN backup ELSE [backup EXCEPT ![t] = None]
Cleanup(t) ==
    /\ pc[t] \in {"failed", "done"}
    /\ Removes(t)
    /\ stage' = [stage EXCEPT ![t] = None]
    /\ Goto(t, IF pc[t] = "done" THEN "unlockDone" ELSE "unlockFailed")
    /\ UNCHANGED <<Files, request, previous, before, copied, kept>>

Unlock(t) ==
    /\ pc[t] \in {"unlockDone", "unlockFailed"}
    /\ lock' = FALSE
    /\ Goto(t, IF pc[t] = "unlockDone" THEN "ok" ELSE "error")
    /\ UNCHANGED <<output, source, request, work>>

-----------------------------------------------------------------------------
(* Around the tool.                                                          *)

Ended == {"idle", "refused", "ok", "error", "crashed"}

(* Any step of a run may fail; a run may be killed, leaving everything.      *)
StepFails(t) ==
    /\ pc[t] \in {"locked", "sources", "inventory", "copy", "copied", "compare", "staging",
                  "assembled", "recheck"}
    /\ Fails(t)
    /\ UNCHANGED <<Files, request, work>>

Crash(t) ==
    /\ pc[t] \notin Ended
    /\ Goto(t, "crashed")
    /\ UNCHANGED <<Files, request, work>>

SourceChanges ==
    /\ source' = IF source = "pinned" THEN "changed" ELSE "pinned"
    /\ UNCHANGED <<output, lock, pc, request, work>>

InWindow == \E t \in Tools : pc[t] = "retire"
UserEdits ==
    /\ output # None /\ ~output.edited
    /\ InWindow => Racing
    /\ output' = [output EXCEPT !.edited = TRUE]
    /\ UNCHANGED <<source, lock, pc, request, work>>

Run(t) == \/ Lock(t) \/ Inspect(t) \/ VerifySources(t) \/ TakeInventory(t) \/ Copy(t)
          \/ VerifyCopy(t) \/ CompareSources(t) \/ Assemble(t) \/ Decide(t) \/ Recheck(t)
          \/ Retire(t) \/ Publish(t) \/ Restore(t) \/ Cleanup(t) \/ Unlock(t)

Next == \/ \E t \in Tools : Run(t) \/ StepFails(t) \/ Crash(t)
        \/ SourceChanges \/ UserEdits

Spec == Init /\ [][Next]_vars

-----------------------------------------------------------------------------
(* Properties.                                                               *)

(* Type invariant.                                                           *)
TypeOK ==
    /\ output \in Package \cup {None} /\ source \in {"pinned", "changed"}
    /\ lock \in BOOLEAN /\ kept \in [Tools -> BOOLEAN]
    /\ \A t \in Tools : /\ previous[t] \in Package \cup {None}
                        /\ stage[t] \in Package \cup {None}
                        /\ backup[t] \in Package \cup {None}
                        /\ pc[t] \notin Ended => lock

(* What is published holds the pinned models or none, however the sources    *)
(* changed while they were copied, and whoever else was at work: while one   *)
(* run holds the previous package aside, no other has got past the lock.     *)
SwapsAlone ==
    \A t \in Tools : pc[t] \notin Ended /\ backup[t] # None =>
        \A u \in Tools \ {t} : pc[u] \in Ended
PublishedIsPinned ==
    /\ TypeOK /\ SwapsAlone
    /\ output # None => output.models # "changed"

(* A package that was once published is never lost: at every moment, after   *)
(* any crash or failed rename, it or its successor is in place or set aside. *)
Somewhere == output # None \/ \E t \in Tools : backup[t] # None
PackageNeverLost == [][Somewhere => Somewhere']_vars

(* A run that ends in an error leaves the package it found, unless putting   *)
(* it back failed too and the error says where it is.                        *)
ErrorRestores ==
    [][\A t \in Tools : pc[t] = "failed" /\ pc'[t] = "unlockFailed" =>
         \/ previous[t] = None \/ kept[t]
         \/ output # None /\ output.built = previous[t].built]_vars

(* Only the verified previous generated tree is removed (package.rs:395).    *)
OnlyVerifiedRemoved ==
    [][\A t \in Tools : pc[t] \in {"failed", "done"} /\ backup[t] # None /\ backup'[t] = None =>
         backup[t] = previous[t]]_vars

(* The package somebody relies on is kept: never lost, restored on an error, *)
(* and removed only when it is the one that was verified.                    *)
PackageKept == PackageNeverLost /\ ErrorRestores /\ OnlyVerifiedRemoved
=============================================================================
