---------------------------- MODULE DocumentJob ----------------------------
(* One document job of a Podoco analyzer: podoco/crates/podoco/src/jobs.     *)
(*                                                                           *)
(* Three threads share one mutex-protected State and one condition variable: *)
(* the worker (run_job, process_pages, load, emit), the source pump that     *)
(* renders pages (source_loop) and the delivery pump that calls the update   *)
(* sink (delivery_loop).  A client may cancel the job and wait for its       *)
(* outcome.  Every critical section of the code is one action; callbacks     *)
(* (the renderer, the sink, the model) run between two actions, unlocked.    *)
EXTENDS Integers, Sequences, FiniteSets, SequencesExt

CONSTANTS
    NumPages,      \* pages requested, processed in order
    MaxFormulas,   \* formula regions a layout may detect on one page
    Scopes,        \* {TRUE} recognise formulas, {FALSE} layout only, or both
    SourceCodes,   \* error codes a renderer may answer with
    InputLimit,    \* limits.input_bytes()
    PendingLimit,  \* limits.pending_updates()
    ResultLimit,   \* limits.result_bytes()
    UpdateLimit    \* limits.max_update_bytes()

None == "none"

ASSUME LimitsAssumption ==
    /\ NumPages \in Nat /\ MaxFormulas \in Nat
    /\ Scopes \subseteq BOOLEAN
    /\ InputLimit \in Nat \ {0} /\ PendingLimit \in Nat \ {0}
    /\ UpdateLimit \in Nat \ {0} /\ ResultLimit \in Nat /\ UpdateLimit <= ResultLimit

Codes == {"Cancelled", "SourceChanged", "WorkerFailed", "Delivery",
          "PageSource", "LimitExceeded", "Backend", "InvalidResult"}

ASSUME CodesAssumption == SourceCodes \subseteq Codes

VARIABLES
    control,       \* the flags every thread polls: cancelled, abort, deliveryError
    render,        \* the worker/source mailbox: request, reply, stop, done
    inputBytes,    \* progress.input_bytes, the raster reservation
    results,       \* the bounded update queue: queue, updates, processingDone, deliveryDone
    pendingBytes,  \* progress.pending_result_bytes
    delivered,     \* DeliveryCounts
    counts,        \* progress.processed
    phase, outcome,
    wpc, work,     \* the worker's position and its locals
    spc, spage,    \* the source pump's position and the page it renders
    dpc, inflight, \* the delivery pump's position and the update in the sink
    client,        \* the caller of AnalysisJob.wait
    asleep         \* threads parked in Condvar.wait

updates == <<results, pendingBytes, delivered>>
ending == <<phase, outcome>>
shared == <<control, render, inputBytes, updates, counts, ending>>
worker == <<wpc, work>>
sourcePump == <<spc, spage>>
deliveryPump == <<dpc, inflight>>
others == <<sourcePump, deliveryPump, client>>
vars == <<shared, worker, others, asleep>>

Kinds == {"layout", "formula", "page", "pageFailed", "document"}
Statuses == {"Completed", "Partial", "Cancelled", "Failed"}
Images == [of : 0 .. NumPages, bytes : 1 .. InputLimit + 1]  \* of 0: another revision
Replies == [image : Images, code : {None}]
           \cup [image : {[of |-> 0, bytes |-> 1]}, code : SourceCodes]
NoUpdate == [seq |-> -1, kind |-> "document", page |-> 0, size |-> 0]

Init ==
    /\ control = [cancelled |-> FALSE, abort |-> FALSE, deliveryError |-> None]
    /\ render = [request |-> 0, reply |-> <<>>, stop |-> FALSE, done |-> FALSE]
    /\ inputBytes = 0
    /\ results = [queue |-> <<>>, updates |-> 0, processingDone |-> FALSE, deliveryDone |-> FALSE]
    /\ pendingBytes = 0
    /\ delivered = [acknowledged |-> 0, last |-> -1, pages |-> 0, formulas |-> 0,
                    notice |-> FALSE]
    /\ counts = [finished |-> 0, failed |-> 0, pending |-> 0, badFormulas |-> 0]
    /\ phase = "Queued" /\ outcome = None
    /\ wpc = "queued"
    /\ \E all \in Scopes :
          work = [all |-> all, page |-> 0, left |-> 0, held |-> 0, sequence |-> 0,
                  emit |-> "document", failure |-> None, broken |-> FALSE,
                  summary |-> None]
    /\ spc = "off" /\ spage = 0
    /\ dpc = "off" /\ inflight = NoUpdate
    /\ client = "idle" /\ asleep = {}

(* Condvar.notify_all wakes every parked thread; a parked thread takes no    *)
(* step until then.                                                          *)
NotifyOne == asleep' \in {asleep \ {t} : t \in asleep} \cup {s \in {{}} : asleep = {}}
NotifyAll == asleep' = {}
Sleep(thread) == asleep' = asleep \cup {thread}
Awake(thread) == thread \notin asleep

Stopped == control.cancelled \/ control.deliveryError # None

-----------------------------------------------------------------------------
(* The worker: starting and stopping.                                        *)

(* Leave process_pages with an error (None: every page was attempted).  The  *)
(* page's raster is dropped with it.                                         *)
StopWith(code) ==
    /\ work' = [work EXCEPT !.failure = code, !.held = 0]
    /\ wpc' = "stop"

(* run_job's prologue: both pumps are spawned, each spawn may fail, and a    *)
(* job queued behind a fatal one starts with that failure (it was cancelled  *)
(* when the lane closed).                                                    *)
StartJob ==
    /\ wpc = "queued"
    /\ phase' = "Running"
    /\ \E prior \in {None, "Backend", "WorkerFailed"}, source, delivery, broken \in BOOLEAN :
          /\ (prior # None) => control.cancelled
          /\ broken => (prior # None)
          /\ spc' = IF source THEN "idle" ELSE "off"
          /\ dpc' = IF delivery THEN "head" ELSE "off"
          /\ control' = IF delivery THEN control
                        ELSE [control EXCEPT !.deliveryError = "Delivery"]
          /\ LET failure == IF ~delivery THEN "Delivery"
                            ELSE IF ~source THEN "WorkerFailed" ELSE prior
             IN  /\ work' = [work EXCEPT !.failure = failure, !.broken = broken]
                 /\ wpc' = IF failure = None THEN "pages" ELSE "stop"
    /\ UNCHANGED <<render, inputBytes, updates, counts, outcome, spage, inflight, client,
                   asleep>>

(* stop_reason: what makes the worker give up between two calls.  A sink     *)
(* failure takes precedence over cancellation.                               *)
StopReason == IF control.deliveryError # None THEN control.deliveryError
              ELSE IF control.cancelled THEN "Cancelled" ELSE None

NextPage ==
    /\ wpc = "pages"
    /\ IF work.page = NumPages THEN StopWith(None)
       ELSE IF StopReason # None THEN StopWith(StopReason)
       ELSE /\ work' = [work EXCEPT !.page = @ + 1]
            /\ wpc' = "load"
    /\ UNCHANGED <<shared, others, asleep>>

(* The end of run_job after process_pages: abort, then Pumps.stop_source up  *)
(* to the join.                                                              *)
StopSource ==
    /\ wpc = "stop"
    /\ control' = [control EXCEPT !.abort = @ \/ work.failure # None]
    /\ render' = [render EXCEPT !.stop = TRUE, !.request = 0, !.reply = <<>>]
    /\ wpc' = "joinSource"
    /\ NotifyAll
    /\ UNCHANGED <<inputBytes, updates, counts, ending, work, others>>

-----------------------------------------------------------------------------
(* The worker: emit.  A payload is reserved at its worst-case size, encoded  *)
(* without the lock, then recharged at its real size and queued.             *)

(* Begin emitting: the payload takes the next sequence number.               *)
Emitting(w, kind) == [w EXCEPT !.emit = kind, !.sequence = @ + 1]

EmitStop == IF control.deliveryError # None THEN control.deliveryError
            ELSE IF work.emit # "document" /\ control.cancelled THEN "Cancelled" ELSE None

(* Where a failed emit leads.  The terminal notice's error becomes the       *)
(* delivery error, which finish reports first; a native failure recorded     *)
(* before a page's failure notice survives.                                  *)
EmitFails(code) ==
    /\ work' = [work EXCEPT !.failure = IF @ = None /\ work.emit # "document" THEN code ELSE @,
                            !.held = 0]
    /\ control' = IF work.emit = "document" THEN [control EXCEPT !.deliveryError = code]
                  ELSE control
    /\ wpc' = IF work.emit = "document" THEN "stopDelivery" ELSE "stop"

(* Where a queued update leads.                                              *)
Continue ==
    CASE work.emit = "layout" /\ work.all -> /\ wpc' = "formulas" /\ work' = work
      [] work.emit = "layout" /\ ~work.all -> /\ wpc' = "reserve"
                                              /\ work' = Emitting(work, "page")
      [] work.emit = "formula" -> wpc' = "formulas" /\ work' = work
      [] work.emit = "page" -> wpc' = "pages" /\ work' = work
      [] work.emit = "pageFailed" -> /\ wpc' = IF work.failure = None THEN "pages" ELSE "stop"
                                     /\ work' = work
      [] work.emit = "document" -> wpc' = "stopDelivery" /\ work' = work

HasRoomOffByOne == results.updates <= PendingLimit /\ UpdateLimit <= ResultLimit - pendingBytes
HasRoom == /\ results.updates < PendingLimit
           /\ UpdateLimit <= ResultLimit - pendingBytes

Reserve ==
    /\ wpc = "reserve" /\ Awake("worker") /\ EmitStop = None /\ HasRoom
    /\ results' = [results EXCEPT !.updates = @ + 1]
    /\ pendingBytes' = pendingBytes + UpdateLimit
    /\ wpc' = "encode"
    /\ UNCHANGED <<control, render, inputBytes, delivered, counts, ending, work, others,
                   asleep>>

ReserveStopped ==
    /\ wpc = "reserve" /\ Awake("worker") /\ EmitStop # None
    /\ EmitFails(EmitStop)
    /\ UNCHANGED <<render, inputBytes, updates, counts, ending, others, asleep>>

ReserveWaits ==
    /\ wpc = "reserve" /\ Awake("worker") /\ EmitStop = None /\ ~HasRoom
    /\ Sleep("worker")
    /\ UNCHANGED <<shared, worker, others>>

(* The encoded update replaces its reservation, unless encoding failed or    *)
(* the job was stopped meanwhile.                                            *)
Publish ==
    /\ wpc = "encode" /\ EmitStop = None
    /\ \E size \in 1 .. UpdateLimit :
          /\ results' = [results EXCEPT !.queue =
                 Append(@, [seq |-> work.sequence - 1, kind |-> work.emit,
                            page |-> work.page, size |-> size])]
          /\ pendingBytes' = pendingBytes - UpdateLimit + size
    /\ Continue
    /\ NotifyAll
    /\ UNCHANGED <<control, render, inputBytes, delivered, counts, ending, others>>

PublishRejected ==
    /\ wpc = "encode"
    /\ \E code \in {"LimitExceeded", EmitStop} \ {None} : EmitFails(code)
    /\ results' = [results EXCEPT !.updates = @ - 1]
    /\ pendingBytes' = pendingBytes - UpdateLimit
    /\ NotifyAll
    /\ UNCHANGED <<render, inputBytes, delivered, counts, ending, others>>

-----------------------------------------------------------------------------
(* The worker: load one page.                                                *)

LoadStop == IF control.cancelled THEN "Cancelled" ELSE control.deliveryError

RequestPage ==
    /\ wpc = "load"
    /\ IF Stopped
       THEN /\ StopWith(LoadStop)
            /\ UNCHANGED <<render, inputBytes, asleep>>
       ELSE /\ inputBytes' = InputLimit
            /\ render' = [render EXCEPT !.request = work.page]
            /\ wpc' = "await" /\ work' = work
            /\ NotifyAll
    /\ UNCHANGED <<control, updates, counts, ending, others>>

AwaitSleeps ==
    /\ wpc = "await" /\ Awake("worker")
    /\ render.reply = <<>> /\ ~render.done /\ ~Stopped
    /\ Sleep("worker")
    /\ UNCHANGED <<shared, worker, others>>

(* The wait ends without a raster; the reservation stays charged until the   *)
(* source pump has been joined, because the renderer may still hold pixels.  *)
AwaitEnded ==
    /\ wpc = "await" /\ Awake("worker")
    /\ Stopped \/ (render.done /\ render.reply = <<>>)
    /\ StopWith(IF Stopped THEN LoadStop ELSE "WorkerFailed")
    /\ UNCHANGED <<shared, others, asleep>>

(* What load makes of a reply: a code, or None for a usable raster.          *)
LoadVerdict(r) ==
    IF r.code # None THEN r.code
    ELSE IF r.image.of = 0 THEN "SourceChanged"
    ELSE IF r.image.of # work.page THEN "PageSource"
    ELSE IF r.image.bytes > InputLimit THEN "LimitExceeded" ELSE None

FatalLoad == {"Cancelled", "SourceChanged", "WorkerFailed", "Delivery"}

TakeReply ==
    /\ wpc = "await" /\ Awake("worker")
    /\ render.reply # <<>> /\ ~Stopped
    /\ render' = [render EXCEPT !.reply = <<>>]
    /\ LET reply == Head(render.reply)
           verdict == LoadVerdict(reply)
       IN  CASE verdict = None ->
                  /\ wpc' = "loaded"
                  /\ work' = [work EXCEPT !.held = reply.image.bytes]
                  /\ inputBytes' = reply.image.bytes /\ counts' = counts
             [] verdict \in FatalLoad -> StopWith(verdict) /\ UNCHANGED <<inputBytes, counts>>
             [] OTHER ->
                  /\ wpc' = "reserve"
                  /\ work' = Emitting(work, "pageFailed")
                  /\ inputBytes' = 0
                  /\ counts' = [counts EXCEPT !.failed = @ + 1]
    /\ UNCHANGED <<control, updates, ending, others, asleep>>

-----------------------------------------------------------------------------
(* The worker: layout, formulas, and the end of a page.                      *)

CheckBeforeLayout ==
    /\ wpc = "loaded"
    /\ IF StopReason # None THEN StopWith(StopReason)
       ELSE wpc' = "layout" /\ work' = work
    /\ UNCHANGED <<shared, others, asleep>>

(* An accepted layout with n formula regions.                                *)
LayoutSucceeds ==
    /\ wpc = "layout"
    /\ \E n \in 0 .. MaxFormulas :
          IF work.all
          THEN /\ counts' = [counts EXCEPT !.pending = @ + n]
               /\ work' = Emitting([work EXCEPT !.left = n], "layout")
               /\ wpc' = "reserve"
          ELSE /\ wpc' = "finishPage" /\ UNCHANGED <<counts, work>>
    /\ UNCHANGED <<control, render, inputBytes, updates, ending, others, asleep>>

(* Layout returned an error: the raster is released and the page's failure   *)
(* is emitted; a native failure (the session is gone, whatever its code) is  *)
(* then returned whatever became of the notice.                              *)
LayoutFails ==
    /\ wpc = "layout"
    /\ \E native \in BOOLEAN :
          work' = Emitting([work EXCEPT !.held = 0, !.broken = @ \/ native,
                                        !.failure = IF native THEN "Backend" ELSE None],
                           "pageFailed")
    /\ inputBytes' = 0
    /\ counts' = [counts EXCEPT !.failed = @ + 1]
    /\ wpc' = "reserve"
    /\ UNCHANGED <<control, render, updates, ending, others, asleep>>

(* The model call panicked, or its result failed validation.                 *)
PipelineBreaks ==
    /\ wpc \in {"layout", "recognize"}
    /\ \E panicked \in BOOLEAN :
          work' = [work EXCEPT !.broken = @ \/ panicked, !.held = 0,
                               !.failure = IF panicked THEN "WorkerFailed" ELSE "InvalidResult"]
    /\ wpc' = "stop"
    /\ UNCHANGED <<shared, others, asleep>>

NextFormula ==
    /\ wpc = "formulas"
    /\ IF work.left = 0 THEN wpc' = "finishPage" /\ work' = work
       ELSE IF StopReason # None THEN StopWith(StopReason)
       ELSE wpc' = "recognize" /\ work' = work
    /\ UNCHANGED <<shared, others, asleep>>

(* Recognised, truncated or rejected: the formula is finished either way.    *)
FormulaFinishes ==
    /\ wpc = "recognize"
    /\ \E bad \in {0, 1} :
          counts' = [counts EXCEPT !.pending = @ - 1, !.badFormulas = @ + bad]
    /\ work' = Emitting([work EXCEPT !.left = @ - 1], "formula")
    /\ wpc' = "reserve"
    /\ UNCHANGED <<control, render, inputBytes, updates, ending, others, asleep>>

(* The recogniser gave up: it saw the stop flags, or its backend failed.     *)
FormulaAborts ==
    /\ wpc = "recognize"
    /\ \/ /\ control.cancelled \/ control.abort
          /\ StopWith("Cancelled")
       \/ /\ work' = [work EXCEPT !.failure = "Backend", !.broken = TRUE, !.held = 0]
          /\ wpc' = "stop"
    /\ UNCHANGED <<shared, others, asleep>>

FinishPage ==
    /\ wpc = "finishPage"
    /\ work' = Emitting([work EXCEPT !.held = 0], IF work.all THEN "page" ELSE "layout")
    /\ wpc' = "reserve"
    /\ inputBytes' = 0
    /\ counts' = [counts EXCEPT !.finished = @ + 1]
    /\ NotifyAll
    /\ UNCHANGED <<control, render, updates, ending, others>>

-----------------------------------------------------------------------------
(* The worker: the source pump has returned; summarise, deliver the terminal *)
(* notice, join the delivery pump, publish the outcome.                      *)

Summary ==
    IF work.failure \notin {None, "Cancelled"} THEN "Failed"
    ELSE IF control.cancelled \/ work.failure = "Cancelled" THEN "Cancelled"
    ELSE IF counts.failed > 0 \/ counts.badFormulas > 0 THEN "Partial" ELSE "Completed"

(* JoinHandle.join returned, or the pump was never spawned.                  *)
SourceDetached == TRUE
SourceJoined == spc \in {"off", "done"}

(* What run_job reports to the lane: the model can no longer be used.        *)
Fatal == work.broken \/ work.failure = "Backend"

Summarize ==
    /\ wpc = "joinSource" /\ SourceJoined
    /\ render' = [render EXCEPT !.reply = <<>>]
    /\ inputBytes' = 0
    /\ phase' = "Finishing"
    /\ LET w == [work EXCEPT !.summary = Summary]
       IN  IF control.deliveryError = None
           THEN wpc' = "reserve" /\ work' = Emitting(w, "document")
           ELSE wpc' = "stopDelivery" /\ work' = w
    /\ UNCHANGED <<control, updates, counts, outcome, others, asleep>>

StopDelivery ==
    /\ wpc = "stopDelivery"
    /\ results' = [results EXCEPT !.processingDone = TRUE]
    /\ wpc' = "joinDelivery"
    /\ NotifyAll
    /\ UNCHANGED <<control, render, inputBytes, pendingBytes, delivered, counts, ending,
                   work, others>>

ProcessingError == IF work.failure = "Cancelled" THEN None ELSE work.failure
OutcomeError ==
    LET error == IF control.deliveryError # None THEN control.deliveryError ELSE work.failure
    IN  IF error = "Cancelled" THEN None ELSE error

Finish ==
    /\ wpc = "joinDelivery" /\ dpc \in {"off", "done"}
    /\ outcome' = IF OutcomeError # None THEN "Failed"
                  ELSE IF control.cancelled THEN "Cancelled" ELSE work.summary
    /\ results' = [results EXCEPT !.queue = <<>>, !.updates = 0]
    /\ pendingBytes' = 0 /\ inputBytes' = 0
    /\ phase' = "Finished"
    /\ wpc' = "finished"
    /\ NotifyAll
    /\ UNCHANGED <<control, render, delivered, counts, work, others>>

-----------------------------------------------------------------------------
(* The source pump.                                                          *)

HaltingUncancelled == render.stop \/ control.abort
Halting == render.stop \/ control.abort \/ control.cancelled

SourceSleeps ==
    /\ spc = "idle" /\ Awake("source")
    /\ render.request = 0 /\ ~Halting
    /\ Sleep("source")
    /\ UNCHANGED <<shared, worker, others>>

SourceTakes ==
    /\ spc = "idle" /\ Awake("source")
    /\ render.request # 0 /\ ~Halting
    /\ spc' = "rendering" /\ spage' = render.request
    /\ render' = [render EXCEPT !.request = 0]
    /\ UNCHANGED <<control, inputBytes, updates, counts, ending, worker, deliveryPump,
                   client, asleep>>

(* The pump ends, parked or with a raster nobody wants any more: the result  *)
(* of a late callback is dropped.                                            *)
SourceHalts ==
    /\ spc \in {"idle", "rendering"} /\ Awake("source") /\ Halting
    /\ spc' = "done" /\ spage' = 0
    /\ render' = [render EXCEPT !.done = TRUE]
    /\ NotifyAll
    /\ UNCHANGED <<control, inputBytes, updates, counts, ending, worker, deliveryPump, client>>

SourceReplies ==
    /\ spc = "rendering" /\ ~Halting
    /\ \E reply \in Replies : render' = [render EXCEPT !.reply = <<reply>>]
    /\ spc' = "idle" /\ spage' = 0
    /\ NotifyAll
    /\ UNCHANGED <<control, inputBytes, updates, counts, ending, worker, deliveryPump, client>>

-----------------------------------------------------------------------------
(* The delivery pump.                                                        *)

Terminal(u) == u.kind = "document"
Bytes(queue) ==
    LET total[n \in 0 .. Len(queue)] == IF n = 0 THEN 0 ELSE total[n - 1] + queue[n].size
    IN  total[Len(queue)]

(* release_queued(all = false): only the terminal notice, queued last,       *)
(* survives a cancellation.                                                  *)
Retained(queue) == IF queue # <<>> /\ Terminal(queue[Len(queue)])
                   THEN <<queue[Len(queue)]>> ELSE <<>>

(* A cancelled pump discards the backlog each time it returns to the head of *)
(* its loop, not while it is parked inside the loop.                         *)
Discarding == dpc = "head" /\ control.cancelled
Backlog == IF Discarding THEN Retained(results.queue) ELSE results.queue
Discard(queue) ==
    /\ results' = [results EXCEPT !.queue = queue,
                                  !.updates = @ - (Len(results.queue) - Len(Backlog))]
    /\ pendingBytes' = pendingBytes - (Bytes(results.queue) - Bytes(Backlog))

MayDeliverAny(u) == TRUE
MayDeliver(u) == control.cancelled => Terminal(u)

DeliveryWaits ==
    /\ dpc \in {"head", "wait"} /\ Awake("delivery")
    /\ Backlog = <<>> /\ ~results.processingDone
    /\ Discard(<<>>)
    /\ dpc' = "wait"
    /\ asleep' = IF Discarding THEN {"delivery"} ELSE asleep \cup {"delivery"}
    /\ UNCHANGED <<control, render, inputBytes, delivered, counts, ending, worker,
                   sourcePump, inflight, client>>

DeliveryEnds ==
    /\ dpc \in {"head", "wait"} /\ Awake("delivery")
    /\ Backlog = <<>> /\ results.processingDone
    /\ results' = [results EXCEPT !.queue = <<>>, !.updates = @ - Len(results.queue),
                                  !.deliveryDone = TRUE]
    /\ pendingBytes' = pendingBytes - Bytes(results.queue)
    /\ dpc' = "done"
    /\ NotifyAll
    /\ UNCHANGED <<control, render, inputBytes, delivered, counts, ending, worker,
                   sourcePump, inflight, client>>

DeliveryCalls ==
    /\ dpc \in {"head", "wait"} /\ Awake("delivery")
    /\ Backlog # <<>>
    /\ MayDeliver(Head(Backlog))
    /\ Discard(Tail(Backlog))
    /\ inflight' = Head(Backlog)
    /\ dpc' = "sink"
    /\ asleep' = IF Discarding THEN {} ELSE asleep
    /\ UNCHANGED <<control, render, inputBytes, delivered, counts, ending, worker,
                   sourcePump, client>>

(* Woken after a cancellation with content at the head: drop it and return   *)
(* to the head of the loop.                                                  *)
DeliveryDrops ==
    /\ dpc = "wait" /\ Awake("delivery") /\ control.cancelled
    /\ results.queue # <<>> /\ ~Terminal(Head(results.queue))
    /\ results' = [results EXCEPT !.queue = Tail(@), !.updates = @ - 1]
    /\ pendingBytes' = pendingBytes - Head(results.queue).size
    /\ dpc' = "head"
    /\ NotifyAll
    /\ UNCHANGED <<control, render, inputBytes, delivered, counts, ending, worker,
                   sourcePump, inflight, client>>

(* The sink accepted the update in flight.                                   *)
SinkAcknowledges ==
    /\ dpc = "sink"
    /\ dpc' = "head" /\ inflight' = NoUpdate
    /\ results' = [results EXCEPT !.updates = @ - 1]
    /\ pendingBytes' = pendingBytes - inflight.size
    /\ delivered' = [delivered EXCEPT
           !.acknowledged = @ + 1, !.last = inflight.seq,
           !.pages = IF inflight.kind = "page" THEN @ + 1 ELSE @,
           !.formulas = IF inflight.kind = "formula" THEN @ + 1 ELSE @,
           !.notice = @ \/ Terminal(inflight)]
    /\ NotifyAll
    /\ UNCHANGED <<control, render, inputBytes, counts, ending, worker, sourcePump, client>>

SinkFailsAndContinues ==
    /\ dpc = "sink"
    /\ dpc' = "head" /\ inflight' = NoUpdate
    /\ results' = [results EXCEPT !.updates = @ - 1]
    /\ pendingBytes' = pendingBytes - inflight.size
    /\ NotifyAll
    /\ UNCHANGED <<control, render, inputBytes, delivered, counts, ending, worker,
                   sourcePump, client>>

(* The sink failed or panicked: nothing more is delivered.                   *)
SinkFails ==
    /\ dpc = "sink"
    /\ dpc' = "done" /\ inflight' = NoUpdate
    /\ control' = [control EXCEPT !.abort = TRUE, !.deliveryError = "Delivery"]
    /\ results' = [results EXCEPT !.queue = <<>>, !.updates = @ - 1 - Len(results.queue),
                                  !.deliveryDone = TRUE]
    /\ pendingBytes' = pendingBytes - inflight.size - Bytes(results.queue)
    /\ NotifyAll
    /\ UNCHANGED <<render, inputBytes, delivered, counts, ending, worker, sourcePump, client>>

-----------------------------------------------------------------------------
(* The client, and the specification.                                        *)

(* CancellationHandle.cancel: refused once the outcome is out or delivery    *)
(* has ended.  A repeated request only wakes threads that recheck and park.  *)
MayCancel == outcome = None /\ ~results.deliveryDone
Cancel ==
    /\ MayCancel /\ ~control.cancelled
    /\ control' = [control EXCEPT !.cancelled = TRUE]
    /\ NotifyAll
    /\ UNCHANGED <<render, inputBytes, updates, counts, ending, worker, others>>

(* AnalysisJob.wait (close cancels first).                                   *)
ClientWaits ==
    /\ client \in {"idle", "waiting"} /\ Awake("client")
    /\ outcome = None
    /\ client' = "waiting" /\ Sleep("client")
    /\ UNCHANGED <<shared, worker, sourcePump, deliveryPump>>

ClientReturns ==
    /\ client \in {"idle", "waiting"} /\ Awake("client")
    /\ outcome # None
    /\ client' = "returned"
    /\ UNCHANGED <<shared, worker, sourcePump, deliveryPump, asleep>>

Worker == \/ StartJob \/ NextPage \/ StopSource \/ Reserve \/ ReserveStopped \/ ReserveWaits
          \/ Publish \/ PublishRejected \/ RequestPage \/ AwaitSleeps \/ AwaitEnded \/ TakeReply
          \/ CheckBeforeLayout \/ LayoutSucceeds \/ LayoutFails \/ PipelineBreaks
          \/ NextFormula \/ FormulaFinishes \/ FormulaAborts \/ FinishPage
          \/ Summarize \/ StopDelivery \/ Finish
Source == SourceSleeps \/ SourceTakes \/ SourceHalts \/ SourceReplies
Delivery == \/ DeliveryWaits \/ DeliveryEnds \/ DeliveryCalls \/ DeliveryDrops
            \/ SinkAcknowledges \/ SinkFails
Client == ClientWaits \/ ClientReturns

(* Everything has returned: the job stutters.                                *)
Done == client = "returned" /\ wpc = "finished" /\ UNCHANGED vars

Next == Worker \/ Source \/ Delivery \/ Client \/ Cancel \/ Done

Spec == Init /\ [][Next]_vars

(* Once the lane has started the job, every thread runs while it is awake    *)
(* and every callback returns: the progress the code's joins rely on.        *)
(* Nothing obliges a client to cancel or to call wait; a wait that was       *)
(* called resumes when notified.                                             *)
Fairness == /\ WF_vars(wpc # "queued" /\ Worker) /\ WF_vars(Source) /\ WF_vars(Delivery)
            /\ WF_vars(client = "waiting" /\ Client)
FairSpec == Spec /\ Fairness

-----------------------------------------------------------------------------
(* Properties.                                                               *)

(* Type invariant: every variable keeps the shape its field has in State,    *)
(* and the raster reservation its limit (BytesCharged bounds pendingBytes).  *)
WorkerPositions == {"queued", "pages", "load", "await", "loaded", "layout", "formulas",
                    "recognize", "finishPage", "reserve", "encode", "stop", "joinSource",
                    "stopDelivery", "joinDelivery", "finished"}
Controls == [cancelled : BOOLEAN, abort : BOOLEAN, deliveryError : Codes \cup {None}]
Mailboxes == [request : 0 .. NumPages, reply : Seq(Replies), stop : BOOLEAN, done : BOOLEAN]
Updates == [seq : Int, kind : Kinds, page : 0 .. NumPages, size : 1 .. UpdateLimit]
ResultQueues == [queue : Seq(Updates), updates : Nat,
                 processingDone : BOOLEAN, deliveryDone : BOOLEAN]
Deliveries == [acknowledged : Nat, last : Int, pages : Nat, formulas : Nat, notice : BOOLEAN]
Counts == [finished : Nat, failed : Nat, pending : Int, badFormulas : Nat]
Works == [all : BOOLEAN, page : 0 .. NumPages, left : 0 .. MaxFormulas,
          held : 0 .. InputLimit, sequence : Nat, emit : Kinds,
          failure : Codes \cup {None}, broken : BOOLEAN, summary : Statuses \cup {None}]
TypeOK ==
    /\ control \in Controls /\ render \in Mailboxes /\ inputBytes \in 0 .. InputLimit
    /\ results \in ResultQueues /\ delivered \in Deliveries /\ counts \in Counts
    /\ phase \in {"Queued", "Running", "Finishing", "Finished"}
    /\ outcome \in Statuses \cup {None}
    /\ wpc \in WorkerPositions /\ work \in Works
    /\ spc \in {"off", "idle", "rendering", "done"} /\ spage \in 0 .. NumPages
    /\ dpc \in {"off", "head", "wait", "sink", "done"}
    /\ inflight \in Updates \cup {NoUpdate}
    /\ client \in {"idle", "waiting", "returned"}
    /\ asleep \subseteq {"worker", "source", "delivery", "client"}

(* The counters agree with the updates they stand for: queued, in the sink,  *)
(* or reserved by the worker while it encodes; and both limits hold, so a    *)
(* slow sink bounds memory and no path leaks or double-frees a charge.       *)
UpdatesCharged ==
    /\ results.updates = Len(results.queue) + (IF dpc = "sink" THEN 1 ELSE 0)
                                            + (IF wpc = "encode" THEN 1 ELSE 0)
    /\ results.updates <= PendingLimit
BytesCharged ==
    /\ pendingBytes = Bytes(results.queue) + inflight.size
                      + (IF wpc = "encode" THEN UpdateLimit ELSE 0)
    /\ pendingBytes <= ResultLimit

(* Every raster that may exist is charged: the whole budget while a renderer *)
(* works or its reply is unclaimed, also after a cancellation the worker has *)
(* already acted on; and what the worker holds afterwards.                   *)
RasterCharged ==
    /\ spc = "rendering" \/ render.reply # <<>> => inputBytes = InputLimit
    /\ work.held <= inputBytes

(* Request, render and reply are one token: a page is rendered once, and the *)
(* worker never takes an answer to an earlier page for the current one.      *)
RenderOnce ==
    LET requested == render.request # 0
        rendering == spc = "rendering"
        replied == render.reply # <<>>
    IN  /\ ~(requested /\ rendering) /\ ~(requested /\ replied) /\ ~(rendering /\ replied)
        /\ requested => render.request = work.page
        /\ rendering => spage = work.page
        /\ requested \/ replied => wpc \in {"await", "stop"}

(* The page mailbox between the worker and the source pump is exact: no      *)
(* raster exists uncharged, and no page is rendered or answered twice.       *)
MailboxExact == RasterCharged /\ RenderOnce

(* What the sink sees: content arrives without a gap from the first update,  *)
(* cancelled or not, and the terminal notice is the last update of all.      *)
Outstanding == (IF dpc = "sink" THEN <<inflight>> ELSE <<>>) \o results.queue
DeliveryOrder ==
    /\ \A i \in DOMAIN Outstanding :
          /\ Outstanding[i].seq < work.sequence
          /\ /\ ~Terminal(Outstanding[i])
             /\ control.cancelled => dpc = "sink" /\ i = 1
             => Outstanding[i].seq = delivered.last + i
          /\ Terminal(Outstanding[i]) => i = Len(Outstanding)
    /\ ~delivered.notice => delivered.acknowledged = delivered.last + 1
    /\ delivered.notice => Outstanding = <<>>

(* The update queue between the worker and the sink is exact: the state has  *)
(* its shape, every byte queued, reserved or being delivered is charged      *)
(* within the result budget, and the sink sees one gapless sequence.         *)
QueueExact == TypeOK /\ BytesCharged /\ DeliveryOrder

(* The outcome tells the truth: a completed job attempted every page and     *)
(* formula and the sink acknowledged every update; only a failed job may     *)
(* leave the sink without its terminal notice; a native failure always fails *)
(* the job, and a cancelled job was asked to cancel.                         *)
OutcomeHonest ==
    /\ outcome \in {"Completed", "Partial"} =>
          /\ counts.finished + counts.failed = NumPages /\ counts.pending = 0
          /\ delivered.acknowledged = work.sequence /\ delivered.pages = counts.finished
          /\ ~control.cancelled
    /\ outcome = "Completed" <=> outcome \in {"Completed", "Partial"}
                                 /\ counts.failed + counts.badFormulas = 0
    /\ outcome \in Statuses \ {"Failed"} => delivered.notice /\ ~Fatal
    /\ outcome = "Cancelled" => control.cancelled

(* An outcome is given out when both pumps have returned and every budget is *)
(* released; its account of the pages and updates is true; and it is final:  *)
(* a late cancel or callback changes nothing.                                *)
Quiescent == /\ spc \in {"off", "done"} /\ dpc \in {"off", "done"}
             /\ results.queue = <<>> /\ results.updates = 0
             /\ pendingBytes = 0 /\ inputBytes = 0 /\ render.reply = <<>>
OutcomeTrue == [][/\ outcome # None => UNCHANGED <<shared, spc, dpc>>
                  /\ outcome' # None => Quiescent' /\ OutcomeHonest']_vars

(* Once cancelled, no page is rendered and no content is handed to the sink: *)
(* what was under way may end, and only the terminal notice may follow.      *)
CancelStops ==
    [][control.cancelled =>
          /\ spc' = "rendering" => spc = "rendering"
          /\ dpc' = "sink" /\ dpc # "sink" => Terminal(inflight')]_vars

(* A job that started ends, whatever fails and whoever cancels: no           *)
(* wakeup is lost between the worker, the pumps and the waiting client.      *)
JobDrains == wpc # "queued" ~> outcome # None
WaitReturns == client = "waiting" /\ wpc # "queued" ~> client = "returned"

(* Nobody who relies on a started job hangs: not the lane, not its client.   *)
NobodyHangs == JobDrains /\ WaitReturns

(* The promise the callbacks' authors rely on (see JobContract).             *)
Contract == INSTANCE JobContract WITH
    rendering <- spc = "rendering",
    delivering <- IF dpc # "sink" THEN "idle"
                  ELSE IF Terminal(inflight) THEN "notice" ELSE "content",
    sinkOpen <- ~results.deliveryDone /\ (wpc # "queued" => dpc # "off"),
    noticed <- delivered.notice,
    cancelRequested <- control.cancelled,
    broken <- Fatal,
    status <- outcome
KeepsContract == Contract!ContractSpec
=============================================================================
