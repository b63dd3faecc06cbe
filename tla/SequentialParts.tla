-------------------------- MODULE SequentialParts --------------------------
(* The parts of the library that run from their arguments to their result on *)
(* one thread, without anything else to meet: each is a module of its own,   *)
(* and a behaviour runs one of them, on any of its inputs.  The variables of *)
(* the other parts rest.                                                     *)
EXTENDS BoundedWriter, Integers, Sequences

CONSTANTS
    Paths, Location, Contract, Optional, Compiled,                   \* AssetVerification
    OutputSides, RasterSizes,                                        \* LayoutResampling
    NumQueries, NumClasses, Best, Threshold, Scores, Certain, Formulas, \* LayoutDecoding
    Maps, Bounds, Width, Height, White, Grays,                       \* FormulaCrop
    SquareSides, Widths, Heights, Budgets,                           \* FormulaResampling
    Shapes, Strides, Capacities, MaxSpan, Budget,                    \* TensorLayout
    NumPages, DisplayKinds, Raw,                                     \* PageResults
    Nothing      \* what a variable of a part that does not run holds, and what is absent

ASSUME PartsAssumption ==
    /\ Location \in [Paths -> {"upstream", "compiled", "elsewhere"}]
    /\ Optional \subseteq Contract /\ Contract \subseteq {p \in Paths : Location[p] = "upstream"}
    /\ Compiled \subseteq {p \in Paths : Location[p] = "compiled"} /\ Contract # {}
    /\ \A sizes \in {OutputSides, RasterSizes, SquareSides, Widths, Heights} : sizes \subseteq Nat \ {0}
    /\ \A n \in {NumQueries, NumClasses, Best, Certain, Threshold, White} : n \in Nat
    /\ Scores \subseteq Nat /\ Formulas \subseteq 0 .. NumClasses - 1
    /\ (\A m \in Maps : m \in [1 .. 6 -> Int]) /\ (\A r \in Bounds : r \in [1 .. 4 -> Int])
    /\ Width \in Nat \ {0} /\ Height \in Nat \ {0} /\ Grays \subseteq 0 .. White
    /\ \A shape \in Shapes : shape \in Seq(Nat)
    /\ Strides \subseteq Int /\ Capacities \subseteq Nat /\ MaxSpan \in Nat /\ Budget \in Nat
    /\ NumPages \in Nat /\ Nothing \notin Nat \cup {"invalid", "backend", "cancelled", "sink"}
    /\ \A raw \in Raw : /\ raw = [regions |-> raw.regions, formulas |-> raw.formulas,
                                order |-> raw.order]
                       /\ raw.formulas \in Seq({raw.formulas[i] : i \in DOMAIN raw.formulas})

VARIABLES
    part,    \* the part that runs
    phase,   \* where it stands, if it says so in phases
    kind, listed, tree, oddity,
    side, size, y, reading, rows, fetched, output,
    score, prefers, finite, candidates, regions,
    map, bounds, gray, crop, region,
    edge, original, budget, first, thumbnail, caches, made, placed,
    shape, declared, strides, accessible, op, memory, found, touched, charged,
    scope, at, pc, page, formula, counts, stream, error, stop, refused

Assets == INSTANCE AssetVerification
Raster == INSTANCE LayoutResampling WITH Sides <- OutputSides, Sizes <- RasterSizes, None <- Nothing
Regions == INSTANCE LayoutDecoding
Cutout == INSTANCE FormulaCrop
Image == INSTANCE FormulaResampling WITH Sides <- SquareSides, Limits <- Budgets, None <- Nothing
Tensor == INSTANCE TensorLayout
Results == INSTANCE PageResults WITH Kinds <- DisplayKinds, None <- Nothing

-----------------------------------------------------------------------------
(* A part that does not run.                                                 *)

Rests(v) == v = Nothing
NoPhase == Rests(phase)
NoAssets == Rests(kind) /\ Rests(listed) /\ Rests(tree) /\ Rests(oddity)
NoRaster == Rests(side) /\ Rests(size) /\ Rests(y) /\ Rests(reading) /\ Rests(rows)
            /\ Rests(fetched) /\ Rests(output)
NoRegions == Rests(score) /\ Rests(prefers) /\ Rests(finite) /\ Rests(candidates) /\ Rests(regions)
NoCutout == Rests(map) /\ Rests(bounds) /\ Rests(gray) /\ Rests(crop) /\ Rests(region)
NoImage == Rests(edge) /\ Rests(original) /\ Rests(budget) /\ Rests(first) /\ Rests(thumbnail)
           /\ Rests(caches) /\ Rests(made) /\ Rests(placed)
NoTensor == Rests(shape) /\ Rests(declared) /\ Rests(strides) /\ Rests(accessible) /\ Rests(op)
            /\ Rests(memory) /\ Rests(found) /\ Rests(touched) /\ Rests(charged)
NoResults == Rests(scope) /\ Rests(at) /\ Rests(pc) /\ Rests(page) /\ Rests(formula)
             /\ Rests(counts) /\ Rests(stream) /\ Rests(error) /\ Rests(stop) /\ Rests(refused)
NoWriter == /\ limit = 0 /\ length = 0 /\ capacity = 0 /\ asked = 0
            /\ exceeded = FALSE /\ result = "writing"

assetVars == <<kind, listed, tree, oddity>>
rasterVars == <<side, size, y, reading, rows, fetched, output>>
regionVars == <<score, prefers, finite, candidates, regions>>
cutoutVars == <<map, bounds, gray, crop, region>>
imageVars == <<edge, original, budget, first, thumbnail, caches, made, placed>>
tensorVars == <<shape, declared, strides, accessible, op, memory, found, touched, charged>>
resultVars == <<scope, at, pc, page, formula, counts, stream, error, stop, refused>>
ofPixels == <<regionVars, cutoutVars, imageVars, tensorVars>>

-----------------------------------------------------------------------------
(* One part runs.                                                            *)

PartsInit ==
    \/ part = "raster" /\ Raster!Init /\ NoPhase /\ NoAssets /\ NoRegions /\ NoCutout /\ NoImage
       /\ NoTensor /\ NoResults /\ NoWriter
    \/ part = "regions" /\ Regions!Init /\ NoAssets /\ NoRaster /\ NoCutout /\ NoImage /\ NoTensor
       /\ NoResults /\ NoWriter
    \/ part = "cutout" /\ Cutout!Init /\ NoAssets /\ NoRaster /\ NoRegions /\ NoImage /\ NoTensor
       /\ NoResults /\ NoWriter
    \/ part = "image" /\ Image!Init /\ NoAssets /\ NoRaster /\ NoRegions /\ NoCutout /\ NoTensor
       /\ NoResults /\ NoWriter
    \/ part = "tensor" /\ Tensor!Init /\ NoAssets /\ NoRaster /\ NoRegions /\ NoCutout /\ NoImage
       /\ NoResults /\ NoWriter
    \/ part = "results" /\ Results!Init /\ NoPhase /\ NoAssets /\ NoRaster /\ NoRegions /\ NoCutout
       /\ NoImage /\ NoTensor /\ NoWriter
    \/ part = "writer" /\ Init /\ NoPhase /\ NoAssets /\ NoRaster /\ NoRegions /\ NoCutout
       /\ NoImage /\ NoTensor /\ NoResults
    \/ part = "assets" /\ Assets!Init /\ NoRaster /\ NoRegions /\ NoCutout /\ NoImage /\ NoTensor
       /\ NoResults /\ NoWriter

PartsNext ==
    /\ \/ part = "assets" /\ Assets!Next /\ UNCHANGED <<rasterVars, ofPixels, resultVars, vars>>
       \/ part = "raster" /\ Raster!Next
          /\ UNCHANGED <<phase, assetVars, ofPixels, resultVars, vars>>
       \/ part = "regions" /\ Regions!Next
          /\ UNCHANGED <<assetVars, rasterVars, cutoutVars, imageVars, tensorVars, resultVars, vars>>
       \/ part = "cutout" /\ Cutout!Next
          /\ UNCHANGED <<assetVars, rasterVars, regionVars, imageVars, tensorVars, resultVars, vars>>
       \/ part = "image" /\ Image!Next
          /\ UNCHANGED <<assetVars, rasterVars, regionVars, cutoutVars, tensorVars, resultVars, vars>>
       \/ part = "tensor" /\ Tensor!Next
          /\ UNCHANGED <<assetVars, rasterVars, regionVars, cutoutVars, imageVars, resultVars, vars>>
       \/ part = "results" /\ Results!Next
          /\ UNCHANGED <<phase, assetVars, rasterVars, ofPixels, vars>>
       \/ part = "writer" /\ Next
          /\ UNCHANGED <<phase, assetVars, rasterVars, ofPixels, resultVars>>
    /\ UNCHANGED part

PartsSpec == PartsInit /\ [][PartsNext]_<<part, phase, assetVars, rasterVars, ofPixels, resultVars, vars>>

-----------------------------------------------------------------------------
(* Properties: what each module states of its part.                          *)

(* An asset directory that is accepted holds what is pinned and nothing      *)
(* else, and the genuine one is accepted, whatever its manifest claims.      *)
OnlyPinnedAccepted ==
    part = "assets" => /\ Assets!UpstreamIsPinned /\ Assets!NothingUnlisted
                       /\ Assets!PinFixesContent /\ Assets!GenuineAccepted

(* A page's layout is right from the raster to the regions: the model sees   *)
(* every row it should, with repeated borders, and the page gets the best    *)
(* candidates, each once, in the order of the votes.                         *)
LayoutRight ==
    /\ part = "raster" => /\ Raster!RowsExist /\ Raster!UsesItsRows
                          /\ Raster!ResizedOnce /\ Raster!RepeatsTheBorder
    /\ part = "regions" => /\ Regions!KeepsTheBest /\ Regions!FollowsVotes
                           /\ Regions!TiesByIndex /\ Regions!IdsDiffer

(* A formula's image is right from its bounds to the recognizer's square:    *)
(* the crop has all of its region and ink, the two streamed resizes use the  *)
(* right rows and windows, and the thumbnail is whole, centred and charged.  *)
FormulaImageRight ==
    /\ part = "cutout" => Cutout!CoversTheRegion /\ Cutout!NeverEmpty /\ Cutout!FitsTheInk
    /\ part = "image" => /\ Image!WindowsCover /\ Image!WeightsAdd /\ Image!RightRows
                         /\ Image!KeepsTheAspect /\ Image!Centred /\ Image!WithinBudget

(* Native tensors are copied inside their storage, element for element, and  *)
(* charged for all that is touched, whatever strides they come with.         *)
TensorsKept ==
    part = "tensor" => /\ Tensor!InsideTheStorage /\ Tensor!RoundTrip /\ Tensor!ReadsByCoordinate
                       /\ Tensor!PaddedIsAccepted /\ Tensor!ChargesTheLarger

(* The updates of a job pass their own validator, and its snapshots and      *)
(* summary tell what the updates before them told.                           *)
ResultsAgree ==
    part = "results" => /\ Results!TypeOK /\ Results!NeverRefused
                        /\ Results!SummaryTellsStream /\ Results!SnapshotTellsUpdates
=============================================================================
