------------------------------- MODULE Bridge -------------------------------
(* The rendezvous between a job's callbacks and a foreign client that polls: *)
(* podoco/crates/podoco-ffi/src/transport.rs and the job calls of jobs.rs.   *)
(*                                                                           *)
(* The job is the one of JobContract: its renderer and its sink are the two  *)
(* native threads here, each of which leaves a request in the bridge, wakes  *)
(* the client and waits for the answer.  Every critical section is one       *)
(* action; the wake callback runs between two, outside the lock.             *)
EXTENDS Integers, JobContract

CONSTANTS
    JobKinds,      \* kinds of job that may be started: "document", "formula"
    MaxRequests,   \* bound: page renders of one job
    MaxUpdates     \* bound: content updates of one job

ASSUME BridgeAssumption ==
    /\ JobKinds \subseteq {"document", "formula"}
    /\ MaxRequests \in Nat \ {0} /\ MaxUpdates \in Nat

VARIABLES
    kind,          \* what was started
    source,        \* the source request: its position, token and reply
    result,        \* the result request: its position, sequence and acknowledgement
    nextSource,    \* State.next_source
    sequence,      \* updates the job has handed over
    wakeCount,     \* State.wake_count
    posted,        \* wake calls made and not yet run by the client's event loop
    abandoned,     \* State.abandoned
    loader, told,  \* the renderer's thread, and its cancellation_notified
    deliverer,     \* the sink's thread
    parked         \* it is parked in Condvar.wait (the loader's waits are timed)

contract == contractVars
channels == <<source, result>>
counters == <<nextSource, sequence>>
wakes == <<wakeCount, posted>>
callers == <<loader, told, deliverer, parked>>
bridgeVars == <<contract, kind, channels, counters, wakes, abandoned, callers>>

(* A request is offered (bytes present), polled (bytes taken), then replied  *)
(* (response present) until its caller consumes it.                          *)
NoSource == [at |-> "none", token |-> 0]
NoResult == [at |-> "none", token |-> -1, ok |-> TRUE]

BridgeInit ==
    /\ ContractInit
    /\ kind \in JobKinds
    /\ source = NoSource /\ result = NoResult
    /\ nextSource = 0 /\ sequence = 0
    /\ wakeCount = 0 /\ posted = 0
    /\ abandoned = FALSE
    /\ loader = "idle" /\ told = FALSE
    /\ deliverer = "idle" /\ parked = FALSE

(* CancellationToken.is_cancelled while a page renders: a cancellation, or   *)
(* the abort that follows a sink failure.                                    *)
Stopping == cancelRequested \/ ~sinkOpen
Ended == status # None

(* podoco_job_drain_state's count: frozen once the job has ended.            *)
FrozenCount == wakeCount

(* A formula's loader is called once, a document's renderer for every page.  *)
RequestLimit == IF kind = "formula" THEN 1 ELSE MaxRequests

-----------------------------------------------------------------------------
(* Bridge.load: the renderer of a document job, or the formula's loader.     *)

NextToken == nextSource + 1
LoadBegins ==
    /\ loader = "idle"
    /\ nextSource < RequestLimit
    /\ BeginRender
    /\ told' = FALSE
    /\ IF abandoned
       THEN loader' = "wait" /\ UNCHANGED <<source, nextSource>>
       ELSE /\ nextSource' = NextToken
            /\ source' = [at |-> "offered", token |-> NextToken]
            /\ loader' = "count"
    /\ UNCHANGED <<kind, result, sequence, wakes, abandoned, deliverer, parked>>

(* notify: count under the lock, then call the client.                       *)
LoadCounts ==
    /\ loader = "count"
    /\ wakeCount' = wakeCount + 1 /\ loader' = "post"
    /\ UNCHANGED <<contract, kind, channels, counters, posted, abandoned, told, deliverer,
                   parked>>

LoadPosts ==
    /\ loader = "post"
    /\ posted' = posted + 1 /\ loader' = "wait"
    /\ UNCHANGED <<contract, kind, channels, counters, wakeCount, abandoned, told, deliverer,
                   parked>>

(* One turn of wait_source's loop.  A client is told of a cancellation once; *)
(* a polled request is then still waited for, because a renderer owns it.    *)
MustTell == Stopping /\ ~told /\ ~abandoned
ForeignDone == source.at # "polled"
WithdrawingPolitely == Stopping /\ ForeignDone
Withdrawing == abandoned \/ (Stopping /\ ForeignDone)

LoadTells ==
    /\ loader = "wait" /\ MustTell
    /\ told' = TRUE /\ loader' = "count"
    /\ UNCHANGED <<contract, kind, channels, counters, wakes, abandoned, deliverer, parked>>

LoadReturns ==
    /\ loader = "wait" /\ ~MustTell
    /\ Withdrawing \/ source.at = "replied"
    /\ source' = NoSource
    /\ loader' = "idle"
    /\ EndRender
    /\ UNCHANGED <<kind, result, counters, wakes, abandoned, told, deliverer, parked>>

(* Its wait is timed, so a cancellation is noticed although nobody replies.  *)
LoadSpins ==
    /\ loader = "wait" /\ ~MustTell
    /\ ~Withdrawing /\ source.at # "replied"
    /\ UNCHANGED bridgeVars

-----------------------------------------------------------------------------
(* Bridge.deliver and drain_crop: one update, or the formula's drain notice. *)

DeliverBegins ==
    /\ deliverer = "idle"
    /\ \/ BeginContent /\ kind = "document" /\ sequence < MaxUpdates
       \/ BeginNotice
    /\ sequence' = sequence + 1
    /\ IF abandoned
       THEN deliverer' = "wait" /\ result' = result
       ELSE /\ result' = [at |-> "offered", token |-> sequence, ok |-> TRUE]
            /\ deliverer' = "count"
    /\ UNCHANGED <<kind, source, nextSource, wakes, abandoned, loader, told, parked>>

DeliverCounts ==
    /\ deliverer = "count"
    /\ wakeCount' = wakeCount + 1 /\ deliverer' = "post"
    /\ UNCHANGED <<contract, kind, channels, counters, posted, abandoned, loader, told, parked>>

DeliverPosts ==
    /\ deliverer = "post"
    /\ posted' = posted + 1 /\ deliverer' = "wait"
    /\ UNCHANGED <<contract, kind, channels, counters, wakeCount, abandoned, loader, told,
                   parked>>

DeliverParks ==
    /\ deliverer = "wait" /\ ~parked
    /\ ~abandoned /\ result.at # "replied"
    /\ parked' = TRUE
    /\ UNCHANGED <<contract, kind, channels, counters, wakes, abandoned, loader, told,
                   deliverer>>

DeliverReturns ==
    /\ deliverer = "wait" /\ ~parked
    /\ \/ abandoned /\ SinkRefuses
       \/ /\ ~abandoned /\ result.at = "replied"
          /\ IF result.ok THEN SinkAccepts ELSE SinkRefuses
    /\ result' = NoResult
    /\ deliverer' = "idle"
    /\ UNCHANGED <<kind, source, counters, wakes, abandoned, loader, told, parked>>

(* The job behind the callbacks: its sink closes when nothing is left to     *)
(* deliver, its model may break, and it ends when both callers are back.     *)
JobCloses == /\ CloseSink /\ ~rendering
             /\ UNCHANGED <<kind, channels, counters, wakes, abandoned, callers>>
JobBreaks == /\ Break /\ sinkOpen' = sinkOpen
             /\ UNCHANGED <<kind, channels, counters, wakes, abandoned, callers>>
JobEnds == /\ End
           /\ UNCHANGED <<kind, channels, counters, wakes, abandoned, callers>>

Loader == LoadBegins \/ LoadCounts \/ LoadPosts \/ LoadTells \/ LoadReturns \/ LoadSpins
Deliverer == DeliverBegins \/ DeliverCounts \/ DeliverPosts \/ DeliverParks \/ DeliverReturns
Job == JobCloses \/ JobBreaks \/ JobEnds

-----------------------------------------------------------------------------
(* What a client's calls do (podoco_source_next .. podoco_job_abandon).      *)

SourceNext == /\ source.at = "offered"
              /\ source' = [source EXCEPT !.at = "polled"]

ResultNext == /\ result.at = "offered"
              /\ result' = [result EXCEPT !.at = "polled"]

(* source_reply and source_fail; a stale token is refused.                   *)
AcceptsReply(token) == ~abandoned /\ source.at = "polled" /\ source.token = token
SourceReply(token) ==
    source' = IF AcceptsReply(token) THEN [source EXCEPT !.at = "replied"] ELSE source

AcceptsAck(token) == ~abandoned /\ result.at = "polled" /\ result.token = token
ResultAck(token, ok) ==
    /\ result' = IF AcceptsAck(token) THEN [result EXCEPT !.at = "replied", !.ok = ok]
                 ELSE result
    /\ parked' = (parked /\ ~AcceptsAck(token))

(* CancellationHandle.cancel, while the job still accepts one.               *)
CancelJob ==
    /\ cancelRequested' = (cancelRequested \/ ~Ended)
    /\ UNCHANGED <<rendering, delivering, sinkOpen, noticed, broken, status>>

(* Bridge.abandon followed by the job's cancellation.                        *)
Abandon ==
    /\ abandoned' = TRUE /\ parked' = FALSE
    /\ CancelJob
=============================================================================
