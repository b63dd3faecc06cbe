---------------------------- MODULE AnalyzerLane ----------------------------
(* One Podoco analyzer: a bounded FIFO of document and explicit-crop formula *)
(* jobs run one at a time by the podoco-jobs thread                          *)
(* (podoco/crates/podoco/src/jobs: mod.rs, engine.rs Analyzer::start,        *)
(* crop.rs).  A formula job is modelled step by step; of a document job only *)
(* what the lane sees of it, the contract of module JobContract that         *)
(* DocumentJob implements.  Clients submit and cancel jobs; any thread, also *)
(* one inside a job's callback, may close the analyzer.                      *)
EXTENDS Integers, Sequences, FiniteSets

CONSTANTS
    Jobs,         \* jobs clients may submit
    Closers,      \* calls of Analyzer::close
    QueuedLimit,  \* limits.queued_jobs()
    LoaderCodes   \* codes a formula loader may fail with, besides panicking

None == "none"

ASSUME LaneAssumption ==
    /\ QueuedLimit \in Nat \ {0} /\ None \notin Jobs
    /\ LoaderCodes \subseteq {"PageSource", "SourceChanged", "Cancelled", "Backend", "WorkerFailed"}

VARIABLES
    closed, failure, queue, active,  \* QueueState
    parked,      \* the worker waits for QueueShared.changed
    job,         \* each job's shared state
    wpc,         \* the worker's position
    run,         \* the worker's locals: prior failure, error, result, fatal, and
                 \* whether the model itself was called or blamed
    modelFailed, \* pipeline.failed(): the native session is gone for good
    handleTaken, \* the worker's JoinHandle was taken by a closer
    closer,      \* where each close call is
    inside       \* the closers that called from a callback of the active job

laneState == <<closed, failure, queue, active>>
closing == <<handleTaken, closer, inside>>
vars == <<laneState, parked, job, wpc, run, modelFailed, closing>>

Kinds == {"document", "formula"}
Statuses == {"Completed", "Partial", "Cancelled", "Failed"}
NoRun == [prior |-> None, error |-> None, result |-> None, fatal |-> None, predicted |-> FALSE]

Init ==
    /\ closed = FALSE /\ failure = None /\ queue = <<>> /\ active = None /\ parked = FALSE
    /\ job = [j \in Jobs |-> [kind |-> None, phase |-> "new", cancelled |-> FALSE,
                              called |-> FALSE, sealed |-> FALSE, status |-> None]]
    /\ wpc = "pop" /\ run = NoRun /\ modelFailed = FALSE
    /\ handleTaken = FALSE /\ closer = [c \in Closers |-> "idle"] /\ inside = {}

-----------------------------------------------------------------------------
(* Clients.                                                                  *)

(* changed.notify_all: only the worker waits for the queue.                  *)
Wake == parked' = FALSE

(* Admission: refused when closed or when the queue, which excludes the      *)
(* active job, is full.                                                      *)
HasSlot == Len(queue) < QueuedLimit
Submit(j, kind) ==
    /\ job[j].phase = "new"
    /\ IF closed \/ ~HasSlot
       THEN /\ job' = [job EXCEPT ![j].kind = kind, ![j].phase = "refused"]
            /\ UNCHANGED <<queue, parked>>
       ELSE /\ job' = [job EXCEPT ![j].kind = kind, ![j].phase = "queued"]
            /\ queue' = Append(queue, j)
            /\ Wake
    /\ UNCHANGED <<closed, failure, active, wpc, run, modelFailed, closing>>

(* Both job kinds ignore a cancellation once their outcome is out, and a     *)
(* document also once its last update was delivered.                         *)
Cancelling(f, js) ==
    [j \in Jobs |-> IF j \in js /\ f[j].phase \in {"queued", "running"} /\ ~f[j].sealed
                    THEN [f[j] EXCEPT !.cancelled = TRUE] ELSE f[j]]
Cancel(j) ==
    /\ job' = Cancelling(job, {j}) /\ job' # job
    /\ UNCHANGED <<laneState, parked, wpc, run, modelFailed, closing>>

Queued == {queue[i] : i \in DOMAIN queue}

(* request_close: nothing more is admitted, everything accepted is cancelled.*)
RequestCloseKeepingActive ==
    /\ closed' = TRUE
    /\ job' = Cancelling(job, Queued)
    /\ Wake
    /\ UNCHANGED <<failure, queue, active>>
RequestClose ==
    /\ closed' = TRUE
    /\ job' = Cancelling(job, Queued \cup (IF active = None THEN {} ELSE {active}))
    /\ Wake
    /\ UNCHANGED <<failure, queue, active>>

CloseOutside(c) ==
    /\ closer[c] = "idle"
    /\ RequestClose
    /\ closer' = [closer EXCEPT ![c] = "asked"]
    /\ UNCHANGED <<wpc, run, modelFailed, handleTaken, inside>>

(* A callback of the active job is running: the renderer, the sink, the      *)
(* formula loader or its drain.                                              *)
InCallback == wpc \in {"document", "load", "drain"}

(* close from a callback: the request stands, but waiting would deadlock, so *)
(* reject_callback_wait refuses it.                                          *)
AllowsCallbackWait == FALSE
RejectsCallbackWait == TRUE
CloseInside(c) ==
    /\ closer[c] = "idle" /\ InCallback
    /\ RequestClose
    /\ closer' = [closer EXCEPT ![c] = IF RejectsCallbackWait THEN "returned" ELSE "asked"]
    /\ inside' = inside \cup {c}
    /\ UNCHANGED <<wpc, run, modelFailed, handleTaken>>

(* The first closer takes the handle and joins holding the handle's mutex;   *)
(* the others wait for that mutex, hence for the same drain.                 *)
TakeHandle(c) ==
    /\ closer[c] = "asked" /\ ~\E d \in Closers : closer[d] = "joining"
    /\ closer' = [closer EXCEPT ![c] = IF handleTaken THEN "returned" ELSE "joining"]
    /\ handleTaken' = TRUE
    /\ UNCHANGED <<laneState, parked, job, wpc, run, modelFailed, inside>>

Joined(c) ==
    /\ closer[c] = "joining" /\ wpc = "exited"
    /\ closer' = [closer EXCEPT ![c] = "returned"]
    /\ UNCHANGED <<laneState, parked, job, wpc, run, modelFailed, handleTaken, inside>>

(* A callback returns only after the calls it made have returned.            *)
CallbackReturns == \A c \in inside : closer[c] = "returned"

-----------------------------------------------------------------------------
(* The worker.                                                               *)

Park ==
    /\ wpc = "pop" /\ ~parked /\ queue = <<>> /\ ~closed
    /\ parked' = TRUE
    /\ UNCHANGED <<laneState, job, wpc, run, modelFailed, closing>>

Exit ==
    /\ wpc = "pop" /\ ~parked /\ queue = <<>> /\ closed
    /\ wpc' = "exited"
    /\ UNCHANGED <<laneState, parked, job, run, modelFailed, closing>>

Pop ==
    /\ wpc = "pop" /\ ~parked /\ queue # <<>>
    /\ queue' = Tail(queue) /\ active' = Head(queue)
    /\ job' = [job EXCEPT ![Head(queue)].phase = "running"]
    /\ run' = [NoRun EXCEPT !.prior = failure]
    /\ wpc' = job[Head(queue)].kind
    /\ UNCHANGED <<closed, failure, parked, modelFailed, closing>>

(* A queued formula whose lane failed or which was cancelled is never loaded.*)
StartFormula ==
    /\ wpc = "formula"
    /\ IF run.prior = None /\ ~job[active].cancelled
       THEN /\ job' = [job EXCEPT ![active].called = TRUE]
            /\ wpc' = "load" /\ run' = run
       ELSE /\ run' = [run EXCEPT !.error = run.prior]
            /\ wpc' = "drain" /\ job' = job
    /\ UNCHANGED <<laneState, parked, modelFailed, closing>>

(* What crop.rs holds against the analyzer, besides a failed native session. *)
FatalFormulaCodes == {"Backend", "WorkerFailed"}
FormulaFatalByCode(error, failed) == IF error \in FatalFormulaCodes THEN error ELSE None
FormulaFatal(error, failed) ==
    IF failed \/ error \in FatalFormulaCodes
    THEN IF error = None THEN "Backend" ELSE error ELSE None

(* The loader answered: a code, a raster that does not fit the request, or a *)
(* raster, which a cancellation discards before prediction.                  *)
LoaderReturns ==
    /\ wpc = "load" /\ CallbackReturns
    /\ \E answer \in {"raster", "InvalidInput", "PageSource"} \cup LoaderCodes :
          LET late == job[active].cancelled /\ answer \in {"raster", "InvalidInput"}
              error == IF late THEN "Cancelled" ELSE answer
          IN  IF ~late /\ answer = "raster"
              THEN wpc' = "predict" /\ run' = [run EXCEPT !.predicted = TRUE]
              ELSE /\ wpc' = "drain"
                   /\ run' = [run EXCEPT !.error = error,
                                         !.fatal = FormulaFatal(error, modelFailed)]
    /\ UNCHANGED <<laneState, parked, job, modelFailed, closing>>

(* The recogniser returned a formula, rejected or truncated it, noticed the  *)
(* cancellation, failed, or panicked.  A native failure may still be         *)
(* reported as an ordinary formula outcome (codes other than Backend).       *)
Predict ==
    /\ wpc = "predict"
    /\ \E r \in {[error |-> None, result |-> "Recognized", failed |-> FALSE],
                 [error |-> None, result |-> "Rejected", failed |-> FALSE],
                 [error |-> None, result |-> "Rejected", failed |-> TRUE],
                 [error |-> "Cancelled", result |-> None, failed |-> FALSE],
                 [error |-> "Backend", result |-> None, failed |-> TRUE],
                 [error |-> "WorkerFailed", result |-> None, failed |-> FALSE],
                 [error |-> "WorkerFailed", result |-> None, failed |-> TRUE],
                 [error |-> "InvalidResult", result |-> None, failed |-> FALSE]} :
          /\ r.error = "Cancelled" => job[active].cancelled
          /\ modelFailed' = (modelFailed \/ r.failed)
          /\ run' = [run EXCEPT !.error = r.error, !.result = r.result,
                                !.fatal = FormulaFatal(r.error, modelFailed')]
    /\ wpc' = "drain"
    /\ UNCHANGED <<laneState, parked, job, closing>>

(* complete: the drain callback, whose own error takes precedence, then      *)
(* finish.  Only a cancellation that arrived by now counts.                  *)
FormulaStatusByResult(error, result) ==
    IF error \notin {None, "Cancelled"} THEN "Failed"
    ELSE IF result = "Recognized" THEN "Completed" ELSE "Partial"
FormulaStatus(error, result) ==
    IF error \notin {None, "Cancelled"} THEN "Failed"
    ELSE IF job[active].cancelled \/ error = "Cancelled" THEN "Cancelled"
    ELSE IF result = "Recognized" THEN "Completed" ELSE "Partial"
FinishFormula ==
    /\ wpc = "drain" /\ CallbackReturns
    /\ \E drained \in BOOLEAN :
          job' = [job EXCEPT ![active].phase = "ended",
                             ![active].status = FormulaStatus(IF drained THEN run.error
                                                              ELSE "Delivery", run.result)]
    /\ wpc' = "settle"
    /\ UNCHANGED <<laneState, parked, run, modelFailed, closing>>

(* A document job renders while it runs, nobody cancelled it and the lane is *)
(* healthy.                                                                  *)
RenderDocument ==
    /\ wpc = "document" /\ run.prior = None /\ ~job[active].cancelled
    /\ job' = [job EXCEPT ![active].called = TRUE] /\ job' # job
    /\ UNCHANGED <<laneState, parked, wpc, run, modelFailed, closing>>

(* Its callbacks are over and its status decided: from now on a cancellation *)
(* comes too late.  error is what its pages ended with; a sink that refuses  *)
(* an update fails the job without one.                                      *)
SealDocument ==
    /\ wpc = "document" /\ CallbackReturns
    /\ \E status \in Statuses, error \in {None, "SourceChanged", "WorkerFailed", "Delivery",
                                         "Backend"}, panicked \in BOOLEAN :
          /\ error # None => status = "Failed"
          /\ run.prior # None => error \in {run.prior, "Delivery"} /\ ~panicked
          /\ panicked => error = "WorkerFailed"
          /\ status = "Cancelled" => job[active].cancelled
          /\ status \in {"Completed", "Partial"} => ~job[active].cancelled
          /\ modelFailed' = (modelFailed \/ (error = "Backend" /\ run.prior = None))
          /\ run' = [run EXCEPT !.result = status, !.error = error,
                                !.predicted = panicked \/ error = "Backend",
                                !.fatal = IF panicked \/ modelFailed' \/ error = "Backend"
                                          THEN error ELSE None]
    /\ job' = [job EXCEPT ![active].sealed = TRUE]
    /\ wpc' = "documentEnd"
    /\ UNCHANGED <<laneState, parked, closing>>

FinishDocument ==
    /\ wpc = "documentEnd"
    /\ job' = [job EXCEPT ![active].phase = "ended", ![active].status = run.result]
    /\ wpc' = "settle"
    /\ UNCHANGED <<laneState, parked, run, modelFailed, closing>>

(* After the job's outcome is out: a fatal one closes the lane and cancels   *)
(* whatever was accepted meanwhile, so that it fails without rendering.      *)
Settle ==
    /\ wpc = "settle"
    /\ active' = None /\ wpc' = "pop"
    /\ IF run.fatal = None THEN UNCHANGED <<closed, failure, job>>
       ELSE /\ closed' = TRUE /\ failure' = run.fatal
            /\ job' = Cancelling(job, Queued)
    /\ UNCHANGED <<queue, parked, run, modelFailed, closing>>

Worker == \/ Park \/ Exit \/ Pop \/ StartFormula \/ LoaderReturns \/ Predict \/ FinishFormula
          \/ RenderDocument \/ SealDocument \/ FinishDocument \/ Settle
Closing == \E c \in Closers : TakeHandle(c) \/ Joined(c)
Client == \/ \E j \in Jobs, kind \in Kinds : Submit(j, kind)
          \/ \E j \in Jobs : Cancel(j)
          \/ \E c \in Closers : CloseOutside(c) \/ CloseInside(c)

(* Every close has returned and the lane is idle or gone.                    *)
Done == /\ parked \/ wpc = "exited"
        /\ \A c \in Closers : closer[c] \in {"idle", "returned"}
        /\ UNCHANGED vars

Next == Worker \/ Closing \/ Client \/ Done

Spec == Init /\ [][Next]_vars

(* The worker and the closers run; callbacks return once their own calls do. *)
FairSpec == Spec /\ WF_vars(Worker) /\ WF_vars(Closing)

-----------------------------------------------------------------------------
(* Properties.                                                               *)

(* Type invariant, with what active means: the job the worker popped and has *)
(* not yet settled.                                                          *)
Positions == {"pop", "document", "documentEnd", "formula", "load", "predict", "drain",
              "settle", "exited"}
TypeOK ==
    /\ closed \in BOOLEAN /\ failure \in {None, "Backend", "WorkerFailed", "Delivery"}
    /\ queue \in Seq(Jobs) /\ active \in Jobs \cup {None}
    /\ parked \in BOOLEAN /\ wpc \in Positions /\ modelFailed \in BOOLEAN
    /\ handleTaken \in BOOLEAN /\ inside \subseteq Closers
    /\ closer \in [Closers -> {"idle", "asked", "joining", "returned"}]
    /\ \A j \in Jobs : /\ job[j].phase \in {"new", "refused", "queued", "running", "ended"}
                       /\ job[j].status \in Statuses \cup {None}
    /\ (active = None) <=> wpc \in {"pop", "exited"}

(* Admission is bounded and exact: the queue holds each accepted, unstarted  *)
(* job once, one more job is being run, and no accepted job is forgotten.    *)
Admission ==
    /\ Len(queue) <= QueuedLimit
    /\ Cardinality(Queued) = Len(queue)
    /\ Queued = {j \in Jobs : job[j].phase = "queued"}
    /\ \A j \in Jobs : job[j].phase = "running" => j = active

(* Closing reaches every job that was accepted before it: none is left to    *)
(* run uncancelled, whichever of submit, pop and close came first.           *)
ClosedMeansCancelled ==
    closed => \A j \in Jobs : job[j].phase \in {"queued", "running"} =>
                 \/ job[j].cancelled \/ job[j].sealed
                 \/ job[j].phase = "running" /\ wpc = "settle"

(* A close that returned to a caller outside the callbacks found the lane    *)
(* drained: the worker is gone and every accepted job has its outcome.       *)
CloseDrains ==
    (\E c \in Closers : closer[c] = "returned" /\ c \notin inside) =>
        /\ wpc = "exited"
        /\ \A j \in Jobs : job[j].phase \in {"new", "refused", "ended"}

(* Every accepted job is accounted for, whichever of submit, pop and close   *)
(* came first: it is queued or active, and a close reaches it.               *)
AcceptedCounted == TypeOK /\ Admission /\ ClosedMeansCancelled /\ CloseDrains

(* A failed model is noticed: once the job that broke it has been settled    *)
(* the lane is closed with a failure, and from the moment it failed no       *)
(* renderer or loader is called for a later job.                             *)
FailureCloses ==
    /\ failure # None => closed
    /\ modelFailed /\ wpc \in {"pop", "formula", "load", "predict", "exited"} => failure # None
FailureStops ==
    [][/\ FailureCloses'
       /\ failure # None \/ modelFailed =>
             \A j \in Jobs : job'[j].called => job[j].called]_vars

(* What a caller learns: a cancellation accepted before the end is never     *)
(* reported as success, a job the dead lane never ran has failed, and a      *)
(* status is final.                                                          *)
StatusHonest(j) ==
    /\ (job[j].phase = "ended") <=> job[j].status # None
    /\ job[j].cancelled => job[j].status \in {None, "Cancelled", "Failed"}
    /\ job[j].status = "Completed" => job[j].called \/ job[j].kind = "document"
StatusTrue ==
    [][\A j \in Jobs :
          /\ StatusHonest(j)'
          /\ job[j].status # None => job'[j] = job[j]
          /\ job'[j].status # None /\ job[j].status = None /\ run.prior # None
             => job'[j].status = "Failed"]_vars

(* Every close returns, from outside or from a callback, and every accepted  *)
(* job ends: nobody waits for himself, and no wakeup of the worker is lost.  *)
CloseReturns == \A c \in Closers : closer[c] # "idle" ~> closer[c] = "returned"
AcceptedEnds == \A j \in Jobs : job[j].phase = "queued" ~> job[j].phase = "ended"
Drains == CloseReturns /\ AcceptedEnds

(* jobs.md: "Source/sink failures alone do not invalidate an otherwise       *)
(* healthy model": the lane dies only of a job that reached the model.       *)
SourceFailureSparesModel ==
    wpc = "settle" /\ run.prior = None /\ run.fatal # None => run.predicted
=============================================================================
