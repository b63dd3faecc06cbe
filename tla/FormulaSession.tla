--------------------------- MODULE FormulaSession ---------------------------
(* Formula recognition on its owner thread: podoco/crates/podoco/src/        *)
(* formula/session.rs and the greedy decoder of runtime/coreml/formula.rs.   *)
(*                                                                           *)
(* An expression is decoded token by token into a key/value cache: a small   *)
(* one first, promoted once to a large one when it is full.  Cancellation is *)
(* looked at between native calls.  A position stands for a token, a unit of *)
(* memory for a cache slot's bytes in one state array.                       *)
EXTENDS NativeSession, Integers

CONSTANTS
    Small, Large,     \* capacities of the two decoder graphs: 256 and 2048
    PositionRows,     \* rows of the position embedding table: 2562
    Caps,             \* FormulaOptions.max_new_tokens asked for
    CacheLimit,       \* ResourceLimits.decoder_cache_bytes
    Padding           \* by how much a native state may exceed its nominal size

SlotBytes == 16       \* a slot in all the layers' keys and values
ScratchBytes == 1     \* a slot in the one array copied at a time
CachePeak == (Small + Large) * (SlotBytes + ScratchBytes)

(* A session opens only where the promotion's peak fits its budget.          *)
Opens == CacheLimit >= CachePeak

ASSUME FormulaAssumption ==
    /\ Small \in Nat \ {0} /\ Large \in Nat /\ Small < Large
    /\ PositionRows \in Nat /\ PositionRows >= Large + 2
    /\ Caps \subseteq 1 .. Large
    /\ Padding \subseteq Nat /\ CacheLimit \in Nat /\ Opens

VARIABLES
    phase,       \* where generate stands
    cap,         \* max_new_tokens of this request
    cancelled,   \* FormulaCancellation of this request
    pos,         \* the position to decode next
    eos,         \* the last generated token ends the expression
    capacity, span,   \* the live decoder state: slots and measured bytes
    cached,      \* slots of that state that hold an earlier position
    visible,     \* slots its mask lets attention see
    written,     \* slots the write mask selects
    promotions,
    late         \* native calls begun since the request was cancelled

request_ == <<cap, cancelled>>
decoding == <<capacity, span, cached, visible, written>>
generation == <<phase, pos, eos, decoding, promotions, late>>
vars == <<sessionVars, request_, generation>>

NoDecoding == /\ capacity' = 0 /\ span' = 0
              /\ cached' = {} /\ visible' = {} /\ written' = {}

Init ==
    /\ SessionInit
    /\ phase = "rest" /\ cap = 1 /\ cancelled = FALSE
    /\ pos = 0 /\ eos = FALSE /\ promotions = 0 /\ late = 0
    /\ capacity = 0 /\ span = 0 /\ cached = {} /\ visible = {} /\ written = {}

(* What the session does around a request is the generic session's.          *)
Idle == (Load \/ Quit \/ ReleaseModel \/ Refuse \/ Return \/ Close \/ CloseReturns)
        /\ UNCHANGED <<request_, generation>>

Recognize ==
    /\ Call
    /\ cap' \in Caps /\ cancelled' \in BOOLEAN
    /\ UNCHANGED generation

Cancel ==
    /\ client = "called" /\ ~cancelled
    /\ cancelled' = TRUE
    /\ UNCHANGED <<sessionVars, cap, generation>>

-----------------------------------------------------------------------------
(* generate.                                                                 *)

StartsAnew == pos' = 0 /\ eos' = FALSE /\ promotions' = 0 /\ late' = 0
Begin ==
    /\ Take
    /\ phase' = "start"
    /\ StartsAnew /\ NoDecoding
    /\ UNCHANGED request_

(* A request ends with an error code, or with what was generated.  A budget  *)
(* exceeded becomes a truncated outcome and the session goes on.             *)
Codes == {"Backend", "Io", "InvalidAsset", "InvalidInput", "LimitExceeded"}
Fatal == {"Backend", "Io", "InvalidAsset"}
Ends(result) ==
    /\ Answer(result)
    /\ phase' = "rest" /\ NoDecoding
    /\ UNCHANGED <<request_, pos, eos, promotions, late>>
EndsWith(code) == Ends(CASE code \in Fatal -> "fatal"
                         [] code = "LimitExceeded" -> "ok"
                         [] OTHER -> "error")
OutOfBudget == EndsWith("LimitExceeded")

CheckedPhases == {"start", "encoded", "token", "decoded"}
CancelSeenAtStart == cancelled /\ phase = "start"
CancelSeen == cancelled /\ phase \in CheckedPhases
StopCancelled == CancelSeen /\ Ends("error")

(* Any native call, file or text step may fail or panic.                     *)
StepFails ==
    /\ phase # "rest"
    /\ \/ \E code \in Codes : EndsWith(code)
       \/ /\ Panic /\ phase' = "rest" /\ NoDecoding
          /\ UNCHANGED <<request_, pos, eos, promotions, late>>

NativeCall == late' = late + (IF cancelled THEN 1 ELSE 0)

Encode ==
    /\ phase = "start" /\ ~CancelSeen
    /\ phase' = "encoded"
    /\ NativeCall
    /\ UNCHANGED <<sessionVars, request_, pos, eos, decoding, promotions>>

(* Decoder::start: nominal size first, then what the native state spans.     *)
Fits(slots, pad, limit) == slots * SlotBytes + pad <= limit
StartState(slots, pad) ==
    /\ capacity' = slots /\ span' = slots * SlotBytes + pad
    /\ visible' = {} /\ written' = {}

StartSmall ==
    /\ phase = "encoded" /\ ~CancelSeen
    /\ \E pad \in Padding :
          \/ /\ Fits(Small, pad, CacheLimit)
             /\ StartState(Small, pad) /\ cached' = {}
             /\ phase' = "token"
             /\ UNCHANGED <<sessionVars, request_, pos, eos, promotions>>
             /\ NativeCall
          \/ ~Fits(Small, pad, CacheLimit) /\ OutOfBudget

(* The first large position: the whole small cache is copied to the front.   *)
Full == pos = Small
Peak(next) == span + next + (Small + Large) * ScratchBytes

Promote ==
    /\ phase = "token" /\ ~CancelSeen /\ pos < cap
    /\ Full /\ capacity = Small
    /\ \E pad \in Padding :
          \/ /\ Fits(Large, pad, CacheLimit - span)
             /\ Peak(Large * SlotBytes + pad) <= CacheLimit
             /\ StartState(Large, pad) /\ cached' = cached
             /\ promotions' = promotions + 1
             /\ phase' = "promoted"
             /\ UNCHANGED <<sessionVars, request_, pos, eos>>
             /\ NativeCall
          \/ /\ \/ ~Fits(Large, pad, CacheLimit - span)
                \/ Peak(Large * SlotBytes + pad) > CacheLimit
             /\ OutOfBudget

(* The masks for one position; attention sees every position up to it.       *)
SeeLast == visible' = visible \cup {pos}
SeePrefix == visible' = 0 .. pos
Masks ==
    /\ phase \in {"token", "promoted"}
    /\ phase = "token" => ~CancelSeen /\ pos < cap /\ ~(Full /\ capacity = Small)
    /\ SeePrefix /\ written' = {pos}
    /\ phase' = "masked"
    /\ UNCHANGED <<sessionVars, request_, pos, eos, capacity, span, cached, promotions, late>>

Decode ==
    /\ phase = "masked"
    /\ cached' = cached \cup written
    /\ eos' \in BOOLEAN
    /\ phase' = "decoded"
    /\ NativeCall
    /\ UNCHANGED <<sessionVars, request_, pos, capacity, span, visible, written, promotions>>

Advance ==
    /\ phase = "decoded" /\ ~CancelSeen
    /\ pos' = pos + 1
    /\ phase' = IF eos THEN "text" ELSE "token"
    /\ UNCHANGED <<sessionVars, request_, eos, decoding, promotions, late>>

(* Recognized, or empty text, or truncated at the cap: outcomes all, unless  *)
(* the outcome's JSON exceeds its budget.                                    *)
Exhausted == phase = "token" /\ ~CancelSeen /\ pos >= cap
Finish ==
    /\ phase = "text" \/ Exhausted
    /\ \E result \in {"ok", "error"} : Ends(result)

-----------------------------------------------------------------------------
Generate == \/ Begin \/ StopCancelled \/ StepFails \/ Encode \/ StartSmall \/ Promote
            \/ Masks \/ Decode \/ Advance \/ Finish

Over == /\ Gone /\ client \in {"idle", "refused"} /\ (failed \/ ~open)
        /\ UNCHANGED vars

Next == Idle \/ Recognize \/ Cancel \/ Generate \/ Over

Spec == Init /\ [][Next]_vars

(* The owner thread runs, native calls return, and a client that waits       *)
(* returns when it can.                                                      *)
FairSpec == /\ Spec
            /\ WF_vars(Generate)
            /\ WF_vars((Load \/ Quit \/ ReleaseModel) /\ UNCHANGED <<request_, generation>>)
            /\ WF_vars((Return \/ CloseReturns) /\ UNCHANGED <<request_, generation>>)

-----------------------------------------------------------------------------
(* Properties.                                                               *)

(* Type invariant.                                                           *)
TypeOK ==
    /\ client \in {"opening", "idle", "called", "closing", "refused"}
    /\ worker \in {"loading", "ready", "serving", "releasing", "exited", "panicked"}
    /\ reply \in {None, "ok", "error", "fatal", "lost"}
    /\ open \in BOOLEAN /\ request \in BOOLEAN /\ failed \in BOOLEAN /\ joined \in BOOLEAN
    /\ phase \in CheckedPhases \cup {"rest", "promoted", "masked", "text"}
    /\ worker = "serving" <=> phase # "rest"
    /\ pos \in 0 .. Large /\ capacity \in {0, Small, Large}
    /\ cached \subseteq 0 .. Large /\ visible \subseteq 0 .. Large
    /\ promotions \in 0 .. 1

(* A decoder call never writes outside its state, its mask or the embedding  *)
(* table, however long the expression and whichever graph decodes it.        *)
CacheFits ==
    phase = "masked" => /\ pos < capacity /\ written \subseteq 0 .. capacity - 1
                        /\ pos + 2 < PositionRows

(* Before each call attention sees exactly the expression so far: every slot *)
(* it may look at was filled by this expression, across the promotion too,   *)
(* and none of its earlier tokens is hidden.                                 *)
CacheCoherent ==
    phase = "masked" => /\ visible = 0 .. pos
                        /\ visible \ written = cached

(* The live caches never exceed the session's budget while tokens decode.    *)
BudgetKept == phase \in {"token", "masked", "decoded"} => span <= CacheLimit

(* The decoder's cache is sound throughout an expression.                    *)
CacheSound == TypeOK /\ CacheFits /\ CacheCoherent /\ BudgetKept

(* At most one native call begins for a request that was cancelled.          *)
CancelIsPrompt == late <= 1

(* A client that is not waiting knows: its session has failed exactly when   *)
(* the thread that owned the model is gone, or about to be.                  *)
FailedMeansGone ==
    client = "idle" /\ open => (failed <=> worker \in {"releasing", "exited", "panicked"})

(* When close has returned, the native objects were dropped on their thread. *)
CloseReleases == joined => Gone

(* Whatever fails, a recognition returns, telling the truth about the        *)
(* session, and so does a close, with the model gone.                        *)
SessionEnds ==
    /\ [][FailedMeansGone' /\ CloseReleases']_vars
    /\ client = "called" ~> client = "idle"
    /\ client = "closing" ~> joined
=============================================================================
