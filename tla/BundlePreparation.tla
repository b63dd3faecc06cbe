------------------------- MODULE BundlePreparation -------------------------
(* Preparing a model bundle: prepare of podoco/crates/podoco/src/bundle.rs.  *)
(* Preparers, threads of one process or processes of their own, build the    *)
(* same destination.  Each fills a staging directory, verifies it, reserves  *)
(* the destination and moves artifact by artifact, the manifest last.  Any   *)
(* file operation may fail, a preparer may be killed anywhere, and the       *)
(* sources may change.                                                       *)
EXTENDS Naturals, FiniteSets

CONSTANTS
    Preparers,   \* calls of prepare
    Processes,   \* their process ids
    Artifacts,   \* 1 .. n, in the manifest's order
    None         \* nothing there

ASSUME BundleAssumption ==
    Cardinality(Artifacts) \in Nat \ {0} /\ Artifacts = 1 .. Cardinality(Artifacts)

(* A directory: who made it, its artifacts, whether its manifest is there.   *)
(* An artifact is a copy with the pinned or another content, or a link.      *)
Content == {"pinned", "other"}
Directory == [owner : Preparers, art : [Artifacts -> Content \cup {"link", None}],
              manifest : BOOLEAN]

ASSUME NoneAssumption == None \notin Directory /\ None \notin Content \cup {"link"}

Created(p) == [owner |-> p, art |-> [a \in Artifacts |-> None], manifest |-> FALSE]

VARIABLES
    source,       \* what each artifact's export holds
    staging,      \* the staging directory of each process id
    destination,
    pc, next,     \* each preparer's step and the artifact it works on
    process, mode, stuck   \* its process id, its mode, and whether a removal failed

prepares == <<pc, next>>
request == <<process, mode>>
vars == <<source, staging, destination, prepares, request, stuck>>

Init ==
    /\ source \in [Artifacts -> Content]
    /\ staging = [n \in Processes |-> None] /\ destination = None
    /\ pc = [p \in Preparers |-> "idle"] /\ next = [p \in Preparers |-> 1]
    /\ process \in [Preparers -> Processes] /\ mode \in [Preparers -> {"copy", "link"}]
    /\ stuck = [p \in Preparers |-> FALSE]

Goto(p, where) == pc' = [pc EXCEPT ![p] = where] /\ next' = [next EXCEPT ![p] = 1]
Mine(p) == staging[process[p]]
Disk == <<source, staging, destination>>
Outside == <<request, stuck>>

(* What reading an artifact gives.                                           *)
Reads(x, a) == IF x = "link" THEN source[a] ELSE x

-----------------------------------------------------------------------------
(* Filling the staging directory.                                            *)

(* A manifest that cannot be read or is not supported ends the call at once. *)
Start(p) ==
    /\ pc[p] = "idle"
    /\ \/ destination = None /\ Goto(p, "stage")
       \/ Goto(p, "error")
    /\ UNCHANGED <<Disk, Outside>>

(* create_dir fails where the directory exists: nothing of it is removed.    *)
JoinStaging(p) ==
    /\ pc[p] = "stage"
    /\ staging' = IF Mine(p) = None THEN [staging EXCEPT ![process[p]] = Created(p)] ELSE staging
    /\ Goto(p, "check")
    /\ UNCHANGED <<source, destination, Outside>>
CreateStaging(p) ==
    /\ pc[p] = "stage"
    /\ IF Mine(p) = None
       THEN staging' = [staging EXCEPT ![process[p]] = Created(p)] /\ Goto(p, "check")
       ELSE staging' = staging /\ Goto(p, "error")
    /\ UNCHANGED <<source, destination, Outside>>

VerifySource(p) ==
    /\ pc[p] = "check"
    /\ IF source[next[p]] = "pinned"
       THEN pc' = [pc EXCEPT ![p] = "bring"] /\ UNCHANGED next
       ELSE Goto(p, "cleanup")
    /\ UNCHANGED <<Disk, Outside>>

Bring(p) ==
    LET a == next[p]  what == IF mode[p] = "copy" THEN source[a] ELSE "link" IN
    /\ pc[p] = "bring" /\ Mine(p) # None
    /\ staging' = [staging EXCEPT ![process[p]].art[a] = what]
    /\ IF a + 1 \in Artifacts
       THEN pc' = [pc EXCEPT ![p] = "check"] /\ next' = [next EXCEPT ![p] = a + 1]
       ELSE Goto(p, "manifest")
    /\ UNCHANGED <<source, destination, Outside>>

WriteManifest(p) ==
    /\ pc[p] = "manifest" /\ Mine(p) # None
    /\ staging' = [staging EXCEPT ![process[p]].manifest = TRUE]
    /\ Goto(p, "verifyStaging")
    /\ UNCHANGED <<source, destination, Outside>>

-----------------------------------------------------------------------------
(* Verifying and publishing.                                                 *)

(* ModelBundle::verify: the manifest, then one artifact after the other.     *)
Holds(dir, a) == /\ dir # None /\ dir.manifest
                 /\ dir.art[a] # None /\ Reads(dir.art[a], a) = "pinned"

Verify(p, dir, then) ==
    /\ Holds(dir, next[p])
    /\ IF next[p] + 1 \in Artifacts THEN UNCHANGED pc /\ next' = [next EXCEPT ![p] = @ + 1]
                                    ELSE Goto(p, then)

VerifyStaging(p) ==
    /\ pc[p] = "verifyStaging"
    /\ \/ Verify(p, Mine(p), "reserve")
       \/ ~Holds(Mine(p), next[p]) /\ Goto(p, "cleanup")
    /\ UNCHANGED <<Disk, Outside>>

(* The absence checked at the start may be over: create_dir decides.         *)
ReserveJoins(p) ==
    /\ pc[p] = "reserve"
    /\ destination' = IF destination = None THEN Created(p) ELSE destination
    /\ Goto(p, "move")
    /\ UNCHANGED <<source, staging, Outside>>
Reserve(p) ==
    /\ pc[p] = "reserve"
    /\ IF destination = None THEN destination' = Created(p) /\ Goto(p, "move")
                             ELSE destination' = destination /\ Goto(p, "cleanup")
    /\ UNCHANGED <<source, staging, Outside>>

(* Renaming one entry of the staging directory into the destination.         *)
NextIsLast(p) == next[p] + 2 \notin Artifacts
LastMoved(p) == next[p] + 1 \notin Artifacts
Move(p) ==
    LET a == next[p] IN
    /\ pc[p] = "move" /\ Mine(p) # None /\ destination # None
    /\ staging' = [staging EXCEPT ![process[p]].art[a] = None]
    /\ destination' = [destination EXCEPT !.art[a] = Mine(p).art[a]]
    /\ IF LastMoved(p) THEN Goto(p, "complete")
                       ELSE UNCHANGED pc /\ next' = [next EXCEPT ![p] = a + 1]
    /\ UNCHANGED <<source, Outside>>

Complete(p) ==
    /\ pc[p] = "complete" /\ Mine(p) # None /\ destination # None
    /\ staging' = [staging EXCEPT ![process[p]].manifest = FALSE]
    /\ destination' = [destination EXCEPT !.manifest = TRUE]
    /\ Goto(p, "verify")
    /\ UNCHANGED <<source, Outside>>

VerifyDestination(p) ==
    /\ pc[p] = "verify"
    /\ \/ Verify(p, destination, "done")
       \/ ~Holds(destination, next[p]) /\ Goto(p, "withdraw")
    /\ UNCHANGED <<Disk, Outside>>

-----------------------------------------------------------------------------
(* Removing: entry by entry, and any of it may fail.                         *)

(* What one step of remove_dir_all leaves of a directory.                    *)
Smaller(dir) ==
    {[dir EXCEPT !.art[a] = None] : a \in {b \in Artifacts : dir.art[b] # None}}
    \cup (IF dir.manifest THEN {[dir EXCEPT !.manifest = FALSE]} ELSE {})
Removing(dir) == IF dir = None \/ Smaller(dir) = {} THEN {None} ELSE Smaller(dir)

Withdraw(p) ==
    /\ pc[p] = "withdraw"
    /\ destination' \in Removing(destination)
    /\ IF destination' = None THEN Goto(p, "cleanup") ELSE UNCHANGED prepares
    /\ UNCHANGED <<source, staging, Outside>>

(* Where a failed operation leads: publication withdraws the destination,    *)
(* work before it only cleans its staging directory.                         *)
AfterFailure(p) == IF pc[p] \in {"move", "complete", "verify"} THEN "withdraw" ELSE "cleanup"

Failed(p) == IF pc[p] = "cleanup" THEN "error" ELSE "ok"
Cleanup(p) ==
    /\ pc[p] \in {"cleanup", "done"}
    /\ \E left \in Removing(Mine(p)) :
         /\ staging' = [staging EXCEPT ![process[p]] = left]
         /\ IF left = None THEN Goto(p, Failed(p)) ELSE UNCHANGED prepares
    /\ UNCHANGED <<source, destination, Outside>>

RemovalFails(p) ==
    /\ pc[p] \in {"withdraw", "cleanup", "done"}
    /\ stuck' = [stuck EXCEPT ![p] = TRUE]
    /\ Goto(p, IF pc[p] = "withdraw" THEN "cleanup" ELSE Failed(p))
    /\ UNCHANGED <<Disk, request>>

-----------------------------------------------------------------------------
(* Around the preparers.                                                     *)

StepFails(p) ==
    /\ pc[p] \in {"stage", "check", "bring", "manifest", "verifyStaging", "reserve", "move",
                  "complete", "verify"}
    /\ Goto(p, IF pc[p] = "stage" THEN "error" ELSE AfterFailure(p))
    /\ UNCHANGED <<Disk, Outside>>

Ended == {"idle", "ok", "error", "crashed"}
Crash(p) ==
    /\ pc[p] \notin Ended
    /\ Goto(p, "crashed")
    /\ UNCHANGED <<Disk, Outside>>

SourceChanges ==
    /\ \E a \in Artifacts : \E c \in Content \ {source[a]} : source' = [source EXCEPT ![a] = c]
    /\ UNCHANGED <<staging, destination, prepares, Outside>>

Prepare(p) ==
    \/ Start(p) \/ CreateStaging(p) \/ VerifySource(p) \/ Bring(p) \/ WriteManifest(p)
    \/ VerifyStaging(p) \/ Reserve(p) \/ Move(p) \/ Complete(p) \/ VerifyDestination(p)
    \/ Withdraw(p) \/ Cleanup(p)

Next == \/ \E p \in Preparers : Prepare(p) \/ StepFails(p) \/ RemovalFails(p) \/ Crash(p)
        \/ SourceChanges

Spec == Init /\ [][Next]_vars

-----------------------------------------------------------------------------
(* Properties.                                                               *)

Working == {"check", "bring", "manifest", "verifyStaging", "reserve", "move", "complete",
            "verify", "withdraw", "cleanup", "done"}

(* Type invariant.                                                           *)
TypeOK ==
    /\ staging \in [Processes -> Directory \cup {None}]
    /\ destination \in Directory \cup {None}
    /\ pc \in [Preparers -> Working \cup Ended \cup {"stage"}]
    /\ next \in [Preparers -> Artifacts] /\ stuck \in [Preparers -> BOOLEAN]

(* A preparer at work, also one about to remove, finds in its staging path   *)
(* and in its reserved destination the directories it created itself: it     *)
(* removes nothing of another preparer (bundle.rs:462-463).                  *)
RemovesItsOwn ==
    \A p \in Preparers :
      /\ pc[p] \in Working => Mine(p) # None /\ Mine(p).owner = p
      /\ pc[p] \in {"move", "complete", "verify", "withdraw"} =>
           destination # None /\ destination.owner = p

(* Whoever finds a manifest finds every payload, of the pinned content when  *)
(* it is a copy, unless the preparer that could not finish is taking the     *)
(* bundle away, or died doing so.                                            *)
ManifestLast ==
    destination # None /\ destination.manifest =>
      \/ \A a \in Artifacts : /\ destination.art[a] # None
                              /\ mode[destination.owner] = "copy" => destination.art[a] = "pinned"
      \/ pc[destination.owner] \in {"withdraw", "crashed"}
      \/ stuck[destination.owner]

(* A copy that prepare reported stays in place and whole, whatever other     *)
(* preparers of the same destination do and however the sources change.      *)
PublishedStays ==
    \A p \in Preparers : pc[p] = "ok" /\ mode[p] = "copy" =>
      destination = [owner |-> p, art |-> [a \in Artifacts |-> "pinned"], manifest |-> TRUE]

(* A call that returns leaves no staging directory of its own, and after an  *)
(* error no destination either, so that it can be called again; only a       *)
(* removal that failed leaves something.                                     *)
LeavesNothing ==
    \A p \in Preparers : pc[p] \in {"ok", "error"} /\ ~stuck[p] =>
      /\ \A n \in Processes : staging[n] # None => staging[n].owner # p
      /\ pc[p] = "error" /\ destination # None => destination.owner # p

(* An unfinished bundle is either invisible, having no manifest, or being    *)
(* withdrawn, and one that was given up is gone.                             *)
Withdrawn == TypeOK /\ ManifestLast /\ LeavesNothing
=============================================================================
