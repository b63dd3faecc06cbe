------------------------ MODULE FormulaSessionProofs ------------------------
(* Theorems about FormulaSession and the generic session under it, for every *)
(* pair of decoder capacities, every budget and every set of caps the module *)
(* admits.                                                                   *)
EXTENDS FormulaSession, TLAPS

-----------------------------------------------------------------------------
(* The inductive invariant of the session: at any time the channel, the      *)
(* worker or the answer carries the client's request, and nobody else's.     *)
Lost == {"releasing", "exited", "panicked"}
Turns ==
    /\ request => client = "called" /\ worker = "ready" /\ reply = None
    /\ worker = "serving" => client = "called" /\ ~request /\ reply = None
    /\ reply # None => client = "called" /\ ~request
    /\ client = "called" => open /\ (reply = None => request \/ worker = "serving")
    /\ client = "called" /\ reply # None => (FailedBy(reply) <=> worker \in Lost)
    /\ worker = "loading" => client = "opening" /\ ~joined
    /\ client = "opening" => open /\ ~failed /\ worker \in {"loading", "exited", "panicked"}
    /\ client = "closing" => ~open
    /\ FailedMeansGone /\ CloseReleases

(* The inductive invariant of the generation: what the cache holds and the   *)
(* masks show in each phase.                                                 *)
Decoding == {"token", "promoted", "masked", "decoded", "text"}
Generating ==
    /\ span \in Nat /\ cap \in 1 .. Large
    /\ phase \in {"rest", "start", "encoded"} => capacity = 0 /\ cached = {} /\ visible = {}
    /\ phase \in {"start", "encoded"} => pos = 0 /\ promotions = 0
    /\ phase \in Decoding => /\ capacity \in {Small, Large} /\ span <= CacheLimit
                             /\ capacity = Small => promotions = 0
    /\ phase \in {"token", "text"} => pos <= cap /\ pos <= capacity /\ cached = 0 .. pos - 1
    /\ phase \in {"promoted", "masked"} => pos < cap /\ pos < capacity /\ cached = 0 .. pos - 1
    /\ phase = "decoded" => pos < cap /\ pos < capacity /\ cached = 0 .. pos
    /\ phase = "masked" => visible = 0 .. pos /\ written = {pos}

(* A call begun after the cancel is the last one: its request ends after it. *)
Prompt ==
    /\ late \in {0, 1}
    /\ phase \in {"start", "encoded", "token", "promoted", "masked"} => late = 0
    /\ phase = "decoded" /\ late = 1 => cancelled

FormulaInv == TypeOK /\ Turns /\ Generating /\ Prompt
-----------------------------------------------------------------------------
(* Every step of a formula session is one of the generic session, or leaves  *)
(* it alone; the generation moves only while the worker serves.              *)
Results == {"ok", "error", "fatal"}
SessionStep == \/ Load \/ Refuse \/ Call \/ Take \/ (\E r \in Results : Answer(r)) \/ Panic
               \/ Return \/ Quit \/ ReleaseModel \/ Close \/ CloseReturns

LEMMA EndsAnswers ==
  ASSUME NEW r, Ends(r)
  PROVE  /\ Answer(r) /\ phase' = "rest" /\ NoDecoding
         /\ UNCHANGED <<request_, pos, eos, promotions, late>>
BY DEF Ends

LEMMA EndsWithAnswers ==
  ASSUME NEW code, EndsWith(code)
  PROVE  \E r \in Results : Ends(r)
BY DEF EndsWith, Results

(* A generation that ends leaves nothing in the cache.                       *)
Stops == /\ (\E r \in Results : Answer(r)) \/ Panic
         /\ phase # "rest" /\ phase' = "rest" /\ NoDecoding
         /\ UNCHANGED <<request_, pos, eos, promotions, late>>

LEMMA GenerationStops ==
  ASSUME StopCancelled \/ StepFails \/ Finish \/ (phase # "rest" /\ OutOfBudget)
  PROVE  Stops
<1>1. CASE StopCancelled
  BY <1>1, EndsAnswers DEF StopCancelled, CancelSeen, CheckedPhases, Stops, Results
<1>2. CASE StepFails
  <2>1. CASE \E code \in Codes : EndsWith(code)
    <3>1. PICK code \in Codes : EndsWith(code)
      BY <2>1
    <3>2. PICK r \in Results : Ends(r)
      BY <3>1, EndsWithAnswers
    <3> QED BY <1>2, <3>2, EndsAnswers DEF Stops, StepFails
  <2>2. CASE /\ Panic /\ phase' = "rest" /\ NoDecoding
             /\ UNCHANGED <<request_, pos, eos, promotions, late>>
    BY <1>2, <2>2 DEF Stops, StepFails
  <2> QED BY <1>2, <2>1, <2>2 DEF StepFails
<1>3. CASE Finish
  <2>1. phase # "rest"
    BY <1>3 DEF Finish, Exhausted
  <2>2. PICK r \in Results : Ends(r)
    BY <1>3 DEF Finish, Results
  <2> QED BY <2>1, <2>2, EndsAnswers DEF Stops
<1>4. CASE phase # "rest" /\ OutOfBudget
  <2>1. PICK r \in Results : Ends(r)
    BY <1>4, EndsWithAnswers DEF OutOfBudget
  <2> QED BY <1>4, <2>1, EndsAnswers DEF Stops
<1> QED BY <1>1, <1>2, <1>3, <1>4

LEMMA SessionSteps == [Next]_vars => SessionStep \/ UNCHANGED sessionVars
<1> SUFFICES ASSUME [Next]_vars PROVE SessionStep \/ UNCHANGED sessionVars
  OBVIOUS
<1>1. CASE Idle
  BY <1>1 DEF Idle, SessionStep
<1>2. CASE Recognize
  BY <1>2 DEF Recognize, SessionStep
<1>3. CASE Cancel
  BY <1>3 DEF Cancel
<1>4. CASE Generate
  <2>1. CASE Stops
    BY <2>1 DEF Stops, SessionStep
  <2>2. CASE Begin
    BY <2>2 DEF Begin, SessionStep
  <2>3. CASE StopCancelled \/ StepFails \/ Finish
    BY <2>1, <2>3, GenerationStops
  <2>4. CASE StartSmall
    <3>1. phase # "rest" /\ (OutOfBudget \/ UNCHANGED sessionVars)
      BY <2>4 DEF StartSmall
    <3> QED BY <2>1, <3>1, GenerationStops
  <2>5. CASE Promote
    <3>1. phase # "rest" /\ (OutOfBudget \/ UNCHANGED sessionVars)
      BY <2>5 DEF Promote
    <3> QED BY <2>1, <3>1, GenerationStops
  <2>6. CASE Encode \/ Masks \/ Decode \/ Advance
    BY <2>6 DEF Encode, Masks, Decode, Advance
  <2> QED BY <1>4, <2>2, <2>3, <2>4, <2>5, <2>6 DEF Generate
<1>5. CASE Over \/ UNCHANGED vars
  BY <1>5 DEF Over, vars
<1> QED BY <1>1, <1>2, <1>3, <1>4, <1>5 DEF Next

-----------------------------------------------------------------------------
(* The session keeps its turns.                                              *)

SessionTypes ==
    /\ client \in {"opening", "idle", "called", "closing", "refused"}
    /\ worker \in {"loading", "ready", "serving", "releasing", "exited", "panicked"}
    /\ reply \in {None, "ok", "error", "fatal", "lost"}
    /\ open \in BOOLEAN /\ request \in BOOLEAN /\ failed \in BOOLEAN /\ joined \in BOOLEAN

LEMMA SessionTypesKept == SessionTypes /\ SessionStep => SessionTypes'
<1> SUFFICES ASSUME SessionTypes, SessionStep PROVE SessionTypes'
  OBVIOUS
<1> USE DEF SessionTypes
<1>1. CASE Load
  BY <1>1 DEF Load
<1>2. CASE Refuse
  BY <1>2 DEF Refuse
<1>3. CASE Call
  BY <1>3 DEF Call
<1>4. CASE Take
  BY <1>4 DEF Take
<1>5. CASE \E r \in Results : Answer(r)
  BY <1>5 DEF Answer, Results
<1>6. CASE Panic
  BY <1>6 DEF Panic
<1>7. CASE Return
  BY <1>7 DEF Return, FailedBy
<1>8. CASE Quit
  BY <1>8 DEF Quit
<1>9. CASE ReleaseModel
  BY <1>9 DEF ReleaseModel
<1>10. CASE Close
  BY <1>10 DEF Close
<1>11. CASE CloseReturns
  BY <1>11 DEF CloseReturns
<1> QED BY <1>1, <1>2, <1>3, <1>4, <1>5, <1>6, <1>7, <1>8, <1>9, <1>10, <1>11 DEF SessionStep

LEMMA TurnsKept == SessionTypes /\ Turns /\ SessionStep => Turns'
<1> SUFFICES ASSUME SessionTypes, Turns, SessionStep PROVE Turns'
  OBVIOUS
<1> USE DEF SessionTypes, Turns, FailedMeansGone, CloseReleases, Gone, Lost, FailedBy, None
<1>1. CASE Load
  BY <1>1 DEF Load
<1>2. CASE Refuse
  BY <1>2 DEF Refuse
<1>3. CASE Call
  BY <1>3 DEF Call
<1>4. CASE Take
  BY <1>4 DEF Take
<1>5. CASE \E r \in Results : Answer(r)
  BY <1>5 DEF Answer, Results
<1>6. CASE Panic
  BY <1>6 DEF Panic
<1>7. CASE Return
  BY <1>7 DEF Return
<1>8. CASE Quit
  BY <1>8 DEF Quit, Disconnected
<1>9. CASE ReleaseModel
  BY <1>9 DEF ReleaseModel
<1>10. CASE Close
  BY <1>10 DEF Close
<1>11. CASE CloseReturns
  BY <1>11 DEF CloseReturns, Drained
<1> QED BY <1>1, <1>2, <1>3, <1>4, <1>5, <1>6, <1>7, <1>8, <1>9, <1>10, <1>11 DEF SessionStep

-----------------------------------------------------------------------------
(* The cache and its masks follow the expression.                            *)

LEMMA ExpressionKept ==
  TypeOK /\ Turns /\ Generating /\ Prompt /\ [Next]_vars => (TypeOK /\ Generating /\ Prompt)'
<1> SUFFICES ASSUME TypeOK, Turns, Generating, Prompt, [Next]_vars
             PROVE  (TypeOK /\ Generating /\ Prompt)'
  OBVIOUS
<1> DEFINE Coupled == worker = "serving" <=> phase # "rest"
           Shape == /\ phase \in CheckedPhases \cup {"rest", "promoted", "masked", "text"}
                    /\ pos \in 0 .. Large /\ capacity \in {0, Small, Large}
                    /\ cached \subseteq 0 .. Large /\ visible \subseteq 0 .. Large
                    /\ promotions \in 0 .. 1
<1>c. /\ Small \in Nat \ {0} /\ Large \in Nat /\ Small < Large /\ CacheLimit \in Nat
      /\ Padding \subseteq Nat /\ Caps \subseteq 1 .. Large
  BY FormulaAssumption
<1>t. SessionTypes'
  <2>1. SessionTypes
    BY DEF TypeOK, SessionTypes
  <2>2. CASE SessionStep
    BY <2>1, <2>2, SessionTypesKept
  <2>3. CASE UNCHANGED sessionVars
    BY <2>1, <2>3 DEF SessionTypes, sessionVars
  <2> QED BY <2>2, <2>3, SessionSteps
<1>j. ASSUME Coupled', Shape', Generating', Prompt' PROVE (TypeOK /\ Generating /\ Prompt)'
  BY <1>t, <1>j DEF TypeOK, SessionTypes
<1>i. Coupled /\ Shape
  BY DEF TypeOK
<1> USE DEF request_, decoding, generation, CheckedPhases
(* Nothing of the generation changes, save that the client may ask for       *)
(* another or cancel the one that runs.                                      *)
<1>n. ASSUME UNCHANGED generation, Coupled', cap' \in 1 .. Large,
             phase = "rest" \/ (cap' = cap /\ (cancelled => cancelled'))
      PROVE  (TypeOK /\ Generating /\ Prompt)'
  <2>1. Shape'
    BY <1>i, <1>n
  <2>2. Generating'
    BY <1>n DEF Generating, Decoding
  <2>3. Prompt'
    BY <1>n DEF Prompt
  <2> QED BY <1>j, <1>n, <2>1, <2>2, <2>3
<1>s. ASSUME Stops PROVE (TypeOK /\ Generating /\ Prompt)'
  <2>1. Coupled'
    BY <1>s DEF Stops, Answer, Panic
  <2>2. Shape' /\ Generating'
    BY <1>i, <1>s, <1>c DEF Stops, NoDecoding, Generating, Decoding
  <2>3. Prompt'
    BY <1>s DEF Stops, Prompt
  <2> QED BY <1>j, <2>1, <2>2, <2>3
<1>1. CASE Idle
  <2>1. Coupled'
    BY <1>1, <1>i DEF Idle, Load, Quit, ReleaseModel, Refuse, Return, Close, CloseReturns
  <2>2. UNCHANGED <<request_, generation>>
    BY <1>1 DEF Idle
  <2> QED BY <1>n, <2>1, <2>2 DEF Generating
<1>2. CASE Recognize
  <2>1. UNCHANGED <<worker, generation>> /\ cap' \in Caps /\ client = "idle"
    BY <1>2 DEF Recognize, Call
  <2>2. phase = "rest"
    BY <1>i, <2>1 DEF Turns
  <2> QED BY <1>c, <1>i, <1>n, <2>1, <2>2
<1>3. CASE Cancel
  <2>1. Coupled' /\ UNCHANGED generation /\ cap' = cap /\ cancelled'
    BY <1>3, <1>i DEF Cancel, sessionVars
  <2> QED BY <1>n, <2>1 DEF Generating
<1>4. CASE Generate
  <2>1. CASE StopCancelled \/ StepFails \/ Finish \/ (phase # "rest" /\ OutOfBudget)
    BY <1>s, <2>1, GenerationStops
  <2>2. CASE Begin
    <3>1. Coupled'
      BY <2>2 DEF Begin, Take
    <3>2. Shape' /\ Generating'
      BY <2>2, <1>c DEF Begin, StartsAnew, NoDecoding, Generating, Decoding
    <3>3. Prompt'
      BY <2>2 DEF Begin, StartsAnew, Prompt
    <3> QED BY <1>j, <3>1, <3>2, <3>3
  <2>3. CASE Encode
    <3>1. Coupled' /\ Shape' /\ Generating'
      BY <2>3, <1>i DEF Encode, sessionVars, Generating, Decoding
    <3>2. Prompt'
      BY <2>3 DEF Encode, NativeCall, CancelSeen, Prompt
    <3> QED BY <1>j, <3>1, <3>2
  <2>4. CASE StartSmall
    <3>1. CASE OutOfBudget
      BY <2>1, <2>4, <3>1 DEF StartSmall
    <3>2. ASSUME NEW pad \in Padding, Fits(Small, pad, CacheLimit), StartState(Small, pad),
                 cached' = {}, phase' = "token", NativeCall,
                 UNCHANGED <<sessionVars, request_, pos, eos, promotions>>
          PROVE  (TypeOK /\ Generating /\ Prompt)'
      <4>1. pos = 0 /\ promotions = 0 /\ cap \in 1 .. Large /\ phase = "encoded"
        BY <2>4 DEF StartSmall, Generating
      <4>2. span' \in Nat /\ span' <= CacheLimit /\ capacity' = Small /\ visible' = {}
        BY <3>2, <1>c DEF Fits, StartState, SlotBytes
      <4>3. 0 .. 0 - 1 = {}
        OBVIOUS
      <4>4. Coupled' /\ Shape'
        BY <1>i, <1>c, <3>2, <4>1, <4>2 DEF sessionVars
      <4>5. Generating'
        BY <1>c, <3>2, <4>1, <4>2, <4>3 DEF Generating, Decoding
      <4>6. Prompt'
        BY <2>4, <3>2, <4>1 DEF StartSmall, NativeCall, CancelSeen, Prompt
      <4> QED BY <1>j, <4>4, <4>5, <4>6
    <3> QED BY <2>4, <3>1, <3>2 DEF StartSmall
  <2>5. CASE Promote
    <3>1. CASE OutOfBudget
      BY <2>1, <2>5, <3>1 DEF Promote
    <3>2. ASSUME NEW pad \in Padding, Fits(Large, pad, CacheLimit - span),
                 StartState(Large, pad), cached' = cached, promotions' = promotions + 1,
                 phase' = "promoted", NativeCall, UNCHANGED <<sessionVars, request_, pos, eos>>
          PROVE  (TypeOK /\ Generating /\ Prompt)'
      <4>1. /\ phase = "token" /\ pos < cap /\ pos = Small /\ capacity = Small
            /\ promotions = 0 /\ span \in Nat /\ cap \in 1 .. Large
            /\ cached = 0 .. pos - 1
        BY <2>5 DEF Promote, Full, Generating, Decoding
      <4>2. span' \in Nat /\ span' <= CacheLimit /\ capacity' = Large /\ visible' = {}
        BY <3>2, <4>1, <1>c DEF Fits, StartState, SlotBytes
      <4>3. Coupled' /\ Shape'
        BY <1>i, <1>c, <3>2, <4>1, <4>2 DEF sessionVars
      <4>4. Generating'
        BY <1>c, <3>2, <4>1, <4>2 DEF Generating, Decoding
      <4>5. Prompt'
        BY <2>5, <3>2, <4>1 DEF Promote, NativeCall, CancelSeen, Prompt
      <4> QED BY <1>j, <4>3, <4>4, <4>5
    <3> QED BY <2>5, <3>1, <3>2 DEF Promote
  <2>6. CASE Masks
    <3>1. /\ phase \in {"token", "promoted"} /\ phase' = "masked"
          /\ visible' = 0 .. pos /\ written' = {pos}
          /\ UNCHANGED <<sessionVars, request_, pos, eos, capacity, span, cached, promotions, late>>
      BY <2>6 DEF Masks, SeePrefix
    <3>2. /\ pos < cap /\ pos < capacity /\ cap \in 1 .. Large /\ capacity \in {Small, Large}
          /\ cached = 0 .. pos - 1
      BY <2>6, <1>c, <1>i DEF Masks, Full, Generating, Decoding
    <3>3. Coupled' /\ Shape'
      BY <1>i, <1>c, <3>1, <3>2 DEF sessionVars
    <3>4. Generating'
      BY <3>1, <3>2 DEF Generating, Decoding
    <3>5. Prompt'
      BY <3>1 DEF Prompt
    <3> QED BY <1>j, <3>3, <3>4, <3>5
  <2>7. CASE Decode
    <3>1. /\ phase = "masked" /\ phase' = "decoded" /\ cached' = cached \cup written
          /\ UNCHANGED <<sessionVars, request_, pos, capacity, span, visible, written, promotions>>
          /\ pos < cap /\ pos < capacity /\ cached = 0 .. pos - 1 /\ written = {pos}
      BY <2>7 DEF Decode, Generating
    <3>2. cached' = 0 .. pos
      BY <1>i, <3>1
    <3>3. Coupled' /\ Shape'
      BY <1>i, <1>c, <3>1, <3>2 DEF sessionVars
    <3>4. Generating'
      BY <3>1, <3>2 DEF Generating, Decoding
    <3>5. Prompt'
      BY <2>7 DEF Decode, NativeCall, Prompt, request_
    <3> QED BY <1>j, <3>3, <3>4, <3>5
  <2>8. CASE Advance
    <3>1. /\ phase = "decoded" /\ phase' \in {"text", "token"} /\ pos' = pos + 1
          /\ UNCHANGED <<sessionVars, request_, eos, decoding, promotions, late>>
          /\ pos < cap /\ pos < capacity /\ cached = 0 .. pos /\ ~cancelled
      BY <2>8 DEF Advance, Generating, CancelSeen
    <3>2. cached' = 0 .. pos' - 1 /\ pos' <= cap /\ pos' <= capacity /\ pos' \in 0 .. Large
      BY <1>c, <1>i, <3>1 DEF Generating
    <3>3. Coupled' /\ Shape'
      BY <1>i, <3>1, <3>2 DEF sessionVars
    <3>4. Generating'
      BY <3>1, <3>2 DEF Generating, Decoding
    <3>5. Prompt'
      BY <3>1 DEF Prompt
    <3> QED BY <1>j, <3>3, <3>4, <3>5
  <2> QED BY <1>4, <2>1, <2>2, <2>3, <2>4, <2>5, <2>6, <2>7, <2>8 DEF Generate
<1>5. CASE Over \/ UNCHANGED vars
  BY <1>5, <1>i, <1>n DEF Over, vars, sessionVars, Generating
<1> QED BY <1>1, <1>2, <1>3, <1>4, <1>5 DEF Next

LEMMA FormulaInvariant == Spec => []FormulaInv
<1>1. Init => FormulaInv
  <2> SUFFICES ASSUME Init PROVE FormulaInv
    OBVIOUS
  <2>1. TypeOK
    <3>1. SessionTypes
      BY DEF Init, SessionInit, SessionTypes
    <3>2. /\ phase = "rest" /\ worker = "loading" /\ pos = 0 /\ promotions = 0
          /\ capacity = 0 /\ cached = {} /\ visible = {} /\ Large \in Nat
      BY FormulaAssumption DEF Init, SessionInit
    <3>3. pos \in 0 .. Large /\ promotions \in 0 .. 1
      BY <3>2
    <3> QED BY <3>1, <3>2, <3>3 DEF SessionTypes, TypeOK, CheckedPhases
  <2>2. Turns
    BY DEF Init, SessionInit, Turns, FailedMeansGone, CloseReleases, None
  <2>3. Generating /\ Prompt
    BY FormulaAssumption DEF Init, Generating, Decoding, Prompt
  <2> QED BY <2>1, <2>2, <2>3 DEF FormulaInv
<1>2. FormulaInv /\ [Next]_vars => FormulaInv'
  <2> SUFFICES ASSUME FormulaInv, [Next]_vars PROVE FormulaInv'
    OBVIOUS
  <2>1. SessionTypes /\ Turns
    BY DEF FormulaInv, TypeOK, SessionTypes
  <2>2. Turns'
    <3>1. CASE SessionStep
      BY <2>1, <3>1, TurnsKept
    <3>2. CASE UNCHANGED sessionVars
      BY <2>1, <3>2 DEF Turns, sessionVars, FailedMeansGone, CloseReleases, Gone
    <3> QED BY <3>1, <3>2, SessionSteps
  <2>3. (TypeOK /\ Generating /\ Prompt)'
    BY ExpressionKept DEF FormulaInv
  <2> QED BY <2>2, <2>3 DEF FormulaInv
<1> QED BY <1>1, <1>2, PTL DEF Spec

-----------------------------------------------------------------------------
(* The theorems.                                                             *)

(* A decoder call writes within its state, its mask and the embedding table, *)
(* attention sees the whole expression so far and nothing else, across the   *)
(* promotion too, and the live cache stays within its budget (formula.rs:    *)
(* the greedy decoder).                                                      *)
THEOREM CacheIsSound == Spec => []CacheSound
<1>1. FormulaInv => CacheSound
  <2> SUFFICES ASSUME FormulaInv PROVE CacheSound
    OBVIOUS
  <2>1. pos \in 0 .. Large /\ capacity \in {0, Small, Large} /\ cap \in 1 .. Large
    BY DEF FormulaInv, TypeOK, Generating
  <2>2. CacheFits
    BY <2>1, FormulaAssumption DEF FormulaInv, Generating, CacheFits
  <2>3. CacheCoherent
    BY <2>1 DEF FormulaInv, Generating, CacheCoherent
  <2>4. BudgetKept
    BY DEF FormulaInv, Generating, Decoding, BudgetKept
  <2> QED BY <2>2, <2>3, <2>4 DEF FormulaInv, CacheSound
<1> QED BY <1>1, FormulaInvariant, PTL

(* After a cancel at most the one call that follows the masks still begins,  *)
(* whatever the number of tokens (formula.rs: the cancellation points).      *)
THEOREM CancelEndsCalls == Spec => []CancelIsPrompt
<1>1. FormulaInv => CancelIsPrompt
  BY DEF FormulaInv, Prompt, CancelIsPrompt
<1> QED BY <1>1, FormulaInvariant, PTL

(* A client that does not wait knows whether its model's thread is gone, and *)
(* a close that returned left none: what SessionEnds says of every state     *)
(* (session.rs: analyze_page, close).                                        *)
THEOREM SessionKnowsItsThread == Spec => []FailedMeansGone /\ []CloseReleases
<1>1. FormulaInv => FailedMeansGone /\ CloseReleases
  BY DEF FormulaInv, Turns
<1> QED BY <1>1, FormulaInvariant, PTL
=============================================================================
