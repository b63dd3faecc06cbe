------------------------- MODULE AssetVerification -------------------------
(* Accepting local assets: ModelBundle::verify (podoco/src/bundle.rs),       *)
(* FormulaBundle::verify (podoco/src/formula/bundle.rs) and                  *)
(* MathRules::verify (podoco/src/math/rules.rs), and the packaging tool's    *)
(* verify_component on top of them.  The three share the inventory and the   *)
(* payload check and differ in what their manifest is held against: a layout *)
(* manifest lists what it likes under its artifacts' directories, a formula  *)
(* manifest is held against the checked-in contract path by path, a rule     *)
(* manifest must be the checked-in one.                                      *)
EXTENDS Naturals, FiniteSets

CONSTANTS
    Paths,       \* payload paths
    Location,    \* where each lies: "upstream", "compiled" or "elsewhere"
    Contract,    \* the upstream paths the checked-in contract pins
    Optional,    \* model.safetensors: pinned, but need not be listed
    Compiled     \* the compiled models' required files

None == "none"
Contents == {"pinned", "other"}
Kinds == {"layout", "formula", "math"}
(* What a directory may hold besides payloads: .DS_Store metadata, or a link *)
(* to a directory among the payloads or next to them.                        *)
Oddities == {None, "metadata", "link inside", "link beside"}

VARIABLES
    kind, listed,       \* the manifest: the content it lists for each path
    tree, oddity,       \* the directory
    phase               \* where verify stands, or its verdict

asset == <<kind, listed, tree, oddity>>
vars == <<asset, phase>>

Init ==
    /\ kind \in Kinds
    /\ listed \in [Paths -> Contents \cup {None}] /\ tree \in [Paths -> Contents \cup {None}]
    /\ oddity \in Oddities
    /\ phase = "manifest"

Files(f) == {p \in Paths : f[p] # None}
Goto(where) == phase' = where /\ UNCHANGED asset

(* The content the contract fixes; the compiled models are host products, so *)
(* the checked-in formula contract has no digest for them.                   *)
Exact == [p \in Paths |-> IF p \in Contract \cup Compiled THEN "pinned" ELSE None]

-----------------------------------------------------------------------------
(* The manifest.                                                             *)

(* Under export/ and checkpoint/ a path has the contract's digest.           *)
Upstream(p) == Location[p] = "upstream"
PinsNamedOnly(p) == p \in Contract => listed[p] = "pinned"
Pins(p) == Upstream(p) => p \in Contract /\ listed[p] = "pinned"

Required == (Contract \ Optional) \cup Compiled

(* The layout baseline fixes identity, profile and artifact directories.     *)
LayoutManifest == Files(listed) # {} /\ \A p \in Files(listed) : Location[p] # "elsewhere"

Supported ==
    CASE kind = "layout"  -> LayoutManifest
      [] kind = "formula" -> /\ \A p \in Files(listed) : Pins(p) /\ Location[p] # "elsewhere"
                             /\ Required \subseteq Files(listed)
      [] kind = "math"    -> listed = Exact

ReadManifest ==
    /\ phase = "manifest"
    /\ Goto(IF Supported THEN "inventory" ELSE "rejected")

-----------------------------------------------------------------------------
(* The inventory: a layout bundle's artifacts are listed directory by        *)
(* directory, the others' whole tree at once.  Metadata files are passed     *)
(* over, links to files are followed, links to directories refused.          *)

Beside(p) == Location[p] = "elsewhere"
Scope == IF kind = "layout" THEN {p \in Paths : ~Beside(p)} ELSE Paths
Refuses == \/ oddity = "link inside"
           \/ oddity = "link beside" /\ kind # "layout"
Matches == Files(tree) \cap Scope = Files(listed)

Inventory ==
    /\ phase = "inventory"
    /\ Goto(IF Matches /\ ~Refuses THEN "payloads" ELSE "rejected")

(* verify_file: size and digest of what the path leads to.                   *)
VerifyFiles ==
    /\ phase = "payloads"
    /\ Goto(IF \A p \in Files(listed) : tree[p] = listed[p] THEN "accepted" ELSE "rejected")

(* The packaging tool compares the manifest's digest with its configuration. *)
HasPin == listed = Exact
VerifyComponent ==
    /\ phase = "accepted"
    /\ Goto(IF HasPin THEN "pinned" ELSE "refused")

Next == ReadManifest \/ Inventory \/ VerifyFiles \/ VerifyComponent
Spec == Init /\ [][Next]_vars

-----------------------------------------------------------------------------
(* Properties.                                                               *)

Accepted == phase \in {"accepted", "pinned", "refused"}

(* A formula or rule bundle whose manifest somebody rewrote to fit changed   *)
(* files is not accepted: all that comes from upstream is the contract's,    *)
(* and all the models a session loads are there.                             *)
UpstreamIsPinned ==
    Accepted /\ kind # "layout" =>
      /\ \A p \in Paths : Upstream(p) => tree[p] \in {None, "pinned"}
      /\ (Contract \ Optional) \cup Compiled \subseteq Files(tree)

(* An accepted bundle has no file its manifest does not answer for: every    *)
(* payload under the verified directories has the digest listed for it.      *)
NothingUnlisted ==
    Accepted => /\ \A p \in Scope : tree[p] = listed[p]
                /\ oddity # "link inside"

(* A component with the configured manifest digest holds exactly the pinned  *)
(* files, whichever the kind: the digest of the manifest fixes the content.  *)
PinFixesContent ==
    phase = "pinned" => \A p \in Scope : tree[p] = Exact[p]

(* The pinned bundle is never turned away, also with Finder metadata in it.  *)
GenuineAccepted ==
    listed = Exact /\ tree = Exact /\ oddity \in {None, "metadata"} => phase \notin {"rejected", "refused"}
=============================================================================
