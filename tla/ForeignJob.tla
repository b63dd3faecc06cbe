----------------------------- MODULE ForeignJob -----------------------------
(* A job run by the Dart bindings: _NativeJob of                             *)
(* podoco/bindings/dart/lib/src/analysis_jobs.dart over the C ABI's bridge.  *)
(*                                                                           *)
(* One event loop serves wake notifications, a 20 ms timer, the asynchronous *)
(* renderer and the asynchronous sink.  _drive polls the native job in steps *)
(* between which the native threads run, but no other Dart event.            *)
EXTENDS Bridge

VARIABLES
    drive,         \* the position in _drive: "idle" between events
    fatal,         \* _fatalError # null
    known,         \* _outcome # null
    drained,       \* _nativeDrained
    received, expected,  \* _wakeReceived, _wakeExpected
    renderTask,    \* the call of _render: its position and token
    deliverTask,   \* the call of _deliver: its position, token and last use
    lastSequence,
    finished,      \* _finished: the wake callable is closed, the handle released
    vanished       \* the client dropped its handle and will not come back

dartVars == <<drive, fatal, known, drained, received, expected, renderTask, deliverTask,
              lastSequence, finished, vanished>>
clientVars == <<bridgeVars, dartVars>>
nativeOnly == <<contract, kind, counters, wakeCount, loader, told, deliverer>>

Idle == [at |-> "none", token |-> -1]

ClientInit ==
    /\ BridgeInit /\ ~cancelRequested /\ ~broken
    /\ drive = "idle" /\ fatal = FALSE /\ known = FALSE /\ drained = FALSE
    /\ received = 0 /\ expected = 0
    /\ renderTask = Idle /\ deliverTask = Idle /\ lastSequence = -1
    /\ finished = FALSE /\ vanished = FALSE

Rendering == renderTask.at # "none"
Delivering == deliverTask.at # "none"

(* The event loop is free to run something.                                  *)
Loop == drive = "idle" /\ ~vanished

(* _drive, unless the job is over.                                           *)
Drives == drive' = IF finished THEN "idle" ELSE "progress"

(* _failTransport: the native side is abandoned once.                        *)
FailTransport ==
    /\ fatal' = TRUE
    /\ IF fatal THEN UNCHANGED <<contract, abandoned, parked>> ELSE Abandon

-----------------------------------------------------------------------------
(* _drive.                                                                   *)

WakeArrives ==
    /\ Loop /\ posted > 0
    /\ posted' = posted - 1
    /\ received' = received + 1
    /\ Drives
    /\ UNCHANGED <<nativeOnly, channels, abandoned, parked, fatal, known, drained, expected,
                   renderTask, deliverTask, lastSequence, finished, vanished>>

TimerFires ==
    /\ Loop /\ ~finished
    /\ Drives
    /\ UNCHANGED <<bridgeVars, fatal, known, drained, received, expected, renderTask,
                   deliverTask, lastSequence, finished, vanished>>

(* podoco_job_drain_state after a transport failure, podoco_job_outcome      *)
(* before; the outcome's JSON may not decode.                                *)
PollOutcome ==
    /\ drive = "progress"
    /\ \/ /\ fatal \/ known \/ ~Ended
          /\ IF fatal /\ Ended THEN drained' = TRUE /\ expected' = FrozenCount
             ELSE UNCHANGED <<drained, expected>>
          /\ drive' = IF fatal \/ known THEN "finish" ELSE "source"
          /\ UNCHANGED <<contract, abandoned, parked, fatal, known>>
       \/ /\ ~fatal /\ ~known /\ Ended
          /\ drained' = TRUE /\ known' = TRUE /\ expected' = FrozenCount
          /\ drive' = "finish"
          /\ UNCHANGED <<contract, abandoned, parked, fatal>>
       \/ /\ ~fatal /\ ~known
          /\ FailTransport
          /\ drained' \in {drained, drained \/ Ended}
          /\ drive' = "idle"
          /\ UNCHANGED <<known, expected>>
    /\ UNCHANGED <<kind, counters, channels, wakes, loader, told, deliverer, received,
                   renderTask, deliverTask, lastSequence, finished, vanished>>

(* podoco_source_next: the request is handed to _render, which calls the     *)
(* page source, or is unreadable.                                            *)
PollSource ==
    /\ drive = "source"
    /\ \/ /\ Rendering \/ source.at # "offered"
          /\ drive' = "result"
          /\ UNCHANGED <<source, contract, abandoned, parked, fatal, renderTask>>
       \/ /\ ~Rendering /\ SourceNext
          /\ renderTask' = [at |-> "rendering", token |-> source.token]
          /\ drive' = "result"
          /\ UNCHANGED <<contract, abandoned, parked, fatal>>
       \/ /\ ~Rendering /\ SourceNext
          /\ FailTransport
          /\ drive' = "idle"
          /\ UNCHANGED renderTask
    /\ UNCHANGED <<kind, counters, result, wakes, loader, told, deliverer, known, drained,
                   received, expected, deliverTask, lastSequence, finished, vanished>>

(* podoco_result_next: the update is handed to _deliver, where it may not    *)
(* decode.  The terminal notice (the formula's only message) first awaits    *)
(* the last render task.                                                     *)
AwaitsRender == delivering = "notice"
PollResult ==
    /\ drive = "result"
    /\ \/ /\ Delivering \/ result.at # "offered"
          /\ drive' = "finish"
          /\ UNCHANGED <<result, contract, abandoned, parked, fatal, deliverTask>>
       \/ /\ ~Delivering /\ ResultNext
          /\ \E at \in {"failed", IF AwaitsRender THEN "await" ELSE "sink"} :
                deliverTask' = [at |-> at, token |-> result.token]
          /\ drive' = "finish"
          /\ UNCHANGED <<contract, abandoned, parked, fatal>>
       \/ /\ ~Delivering /\ ResultNext
          /\ FailTransport
          /\ drive' = "idle"
          /\ UNCHANGED deliverTask
    /\ UNCHANGED <<kind, counters, source, wakes, loader, told, deliverer, known, drained,
                   received, expected, renderTask, lastSequence, finished, vanished>>

(* _finishIfDrained.  Releasing the handle drops the job, which abandons a   *)
(* bridge nobody uses any more.                                              *)
MayFinishEarly == drained /\ ~Rendering /\ ~Delivering
MayFinish == drained /\ ~Rendering /\ ~Delivering /\ received >= expected
FinishIfDrained ==
    /\ drive = "finish"
    /\ drive' = "idle"
    /\ finished' = MayFinish
    /\ abandoned' = (abandoned \/ MayFinish)
    /\ UNCHANGED <<contract, kind, channels, counters, wakes, callers, fatal, known, drained,
                   received, expected, renderTask, deliverTask, lastSequence, vanished>>

-----------------------------------------------------------------------------
(* _render and _deliver after their awaits.                                  *)

(* The page source answered with an image or an error (both are a reply);    *)
(* after a transport failure nothing is sent.  The image is then disposed.   *)
RenderAnswers ==
    /\ Loop /\ renderTask.at = "rendering"
    /\ renderTask' = [renderTask EXCEPT !.at = "disposing"]
    /\ IF fatal \/ AcceptsReply(renderTask.token)
       THEN /\ IF fatal THEN source' = source ELSE SourceReply(renderTask.token)
            /\ UNCHANGED <<contract, abandoned, parked, fatal>>
       ELSE FailTransport /\ UNCHANGED source
    /\ UNCHANGED <<kind, result, counters, wakes, loader, told, deliverer, drive, known,
                   drained, received, expected, deliverTask, lastSequence, finished, vanished>>

(* The renderer's allocation was released, or its release callback threw.    *)
RenderDisposed ==
    /\ Loop /\ renderTask.at = "disposing"
    /\ renderTask' = Idle
    /\ \/ UNCHANGED <<contract, abandoned, parked, fatal>>
       \/ FailTransport
    /\ Drives
    /\ UNCHANGED <<kind, channels, counters, wakes, loader, told, deliverer, known, drained,
                   received, expected, deliverTask, lastSequence, finished, vanished>>

DeliverAwaited ==
    /\ Loop /\ deliverTask.at = "await" /\ ~Rendering
    /\ deliverTask' = [deliverTask EXCEPT !.at = IF fatal THEN "failed" ELSE "sink"]
    /\ UNCHANGED <<bridgeVars, drive, fatal, known, drained, received, expected, renderTask,
                   lastSequence, finished, vanished>>

(* The sink (a formula has none to fail) has completed or failed, or was not *)
(* called; either is acknowledged as what it is.                             *)
AcknowledgedAlways(ok) == TRUE
Acknowledged(ok) == ok
DeliverAcks ==
    /\ Loop /\ deliverTask.at \in {"sink", "failed"}
    /\ deliverTask' = Idle
    /\ \E ok \in BOOLEAN :
          /\ deliverTask.at = "failed" => ~ok
          /\ deliverTask.at = "sink" /\ kind = "formula" => ok
          /\ lastSequence' = IF ok THEN deliverTask.token ELSE lastSequence
          /\ IF AcceptsAck(deliverTask.token) \/ fatal
             THEN /\ ResultAck(deliverTask.token, Acknowledged(ok))
                  /\ UNCHANGED <<contract, abandoned, fatal>>
             ELSE FailTransport /\ UNCHANGED result
    /\ Drives
    /\ UNCHANGED <<kind, source, counters, wakes, loader, told, deliverer, known, drained,
                   received, expected, renderTask, finished, vanished>>

-----------------------------------------------------------------------------
(* The user, and the specification.                                          *)

(* cancel and dispose.                                                       *)
UserCancels ==
    /\ Loop /\ ~finished /\ ~cancelRequested
    /\ CancelJob
    /\ UNCHANGED <<kind, channels, counters, wakes, abandoned, callers, dartVars>>

(* OwnedJob is dropped while the job runs.                                   *)
ClientVanishes ==
    /\ ~finished /\ ~vanished
    /\ vanished' = TRUE
    /\ Abandon
    /\ UNCHANGED <<kind, channels, counters, wakes, loader, told, deliverer, drive, fatal,
                   known, drained, received, expected, renderTask, deliverTask, lastSequence,
                   finished>>

Native == (Loader \/ Deliverer \/ Job) /\ UNCHANGED dartVars
Polls == ~vanished /\ (PollOutcome \/ PollSource \/ PollResult \/ FinishIfDrained)
Tasks == RenderAnswers \/ RenderDisposed \/ DeliverAwaited \/ DeliverAcks
Over == (finished \/ vanished) /\ Ended /\ UNCHANGED clientVars

ClientNext ==
    \/ Native \/ Polls \/ Tasks \/ WakeArrives \/ TimerFires
    \/ UserCancels \/ ClientVanishes \/ Over

ClientSpec == ClientInit /\ [][ClientNext]_clientVars

(* Native threads run, and the job ends once its callers are back (JobDrains *)
(* of DocumentJob): all that an abandoned job may count on.                  *)
NativeFairness == /\ WF_clientVars(Loader /\ UNCHANGED dartVars)
                  /\ WF_clientVars(Deliverer /\ UNCHANGED dartVars)
                  /\ WF_clientVars((JobCloses \/ JobEnds) /\ UNCHANGED dartVars)
NativeSpec == ClientSpec /\ NativeFairness

(* A live client's event loop serves every event queued on it, whatever else *)
(* it runs between (hence strong fairness), and its renderer, sink and       *)
(* release callbacks complete.                                               *)
ClientFairness == /\ WF_clientVars(Polls) /\ WF_clientVars(TimerFires)
                  /\ SF_clientVars(WakeArrives)
                  /\ SF_clientVars(RenderAnswers) /\ SF_clientVars(RenderDisposed)
                  /\ SF_clientVars(DeliverAwaited) /\ SF_clientVars(DeliverAcks)
FairClientSpec == NativeSpec /\ ClientFairness

-----------------------------------------------------------------------------
(* Properties.                                                               *)

Positions == {"idle", "count", "post", "wait"}
(* Type invariant, with the bounds of the counters.                          *)
ClientTypes ==
    /\ source.at \in {"none", "offered", "polled", "replied"}
    /\ result.at \in {"none", "offered", "polled", "replied"} /\ result.ok \in BOOLEAN
    /\ nextSource \in 0 .. MaxRequests /\ sequence \in 0 .. MaxUpdates + 1
    /\ posted \in 0 .. wakeCount /\ wakeCount <= 2 * MaxRequests + MaxUpdates + 1
    /\ loader \in Positions /\ deliverer \in Positions
    /\ abandoned \in BOOLEAN /\ told \in BOOLEAN /\ parked \in BOOLEAN
    /\ drive \in {"idle", "progress", "source", "result", "finish"}
    /\ renderTask.at \in {"none", "rendering", "disposing"}
    /\ deliverTask.at \in {"none", "await", "sink", "failed"}
    /\ received + posted <= wakeCount
    /\ lastSequence \in -1 .. MaxUpdates

(* The native code never calls a closed wake callable: once the bindings     *)
(* close it, every call was made and delivered, and no thread can make more. *)
WakeOutlivesCalls ==
    finished => /\ Ended /\ loader = "idle" /\ deliverer = "idle"
                /\ posted = 0 /\ received = wakeCount

(* A job that finished with its terminal notice accepted (the formula's      *)
(* drain) has left nothing of its own rendering in the client: the lane may  *)
(* start the next render without two sets of pixels existing.                *)
BoundaryAligned == Ended /\ noticed => ~Rendering

(* However the job ended, unless the transport was abandoned no page source  *)
(* is still rendering for it, and no answer is left for a later request.     *)
NoStrayRender == Ended /\ ~abandoned => renderTask.at # "rendering" /\ source.at = "none"

(* What the client is left with when a job finishes: no call into what it    *)
(* freed, no render nobody asked for, no answer a later request could take.  *)
FinishedClean == ClientTypes /\ WakeOutlivesCalls /\ BoundaryAligned /\ NoStrayRender

(* The native job counts an update as delivered only when the client's sink  *)
(* completed it, each exactly once and in order.                             *)
AcksHonest ==
    [][/\ delivering # "idle" /\ delivering' = "idle" /\ sinkOpen' =>
             lastSequence = result.token /\ result.token = sequence - 1
       /\ lastSequence' # lastSequence => lastSequence' > lastSequence]_clientVars

(* A job always ends, and a client that stays learns it: its future          *)
(* completes; an abandoned job ends although nobody polls, renders or        *)
(* acknowledges for it any more.                                             *)
Completes == <>(Ended /\ (finished \/ vanished))
=============================================================================
