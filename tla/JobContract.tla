---------------------------- MODULE JobContract ----------------------------
(* What a document job promises the code that supplies its callbacks and     *)
(* waits for its outcome, with no threads, queue or pages: which callbacks   *)
(* may run together, what a cancellation or a dead sink rules out, and which *)
(* outcomes may be reported (podoco/crates/podoco/src/jobs/mod.rs, the       *)
(* comments on AnalysisOutcome, CancellationHandle and AnalysisJob).         *)
EXTENDS Naturals

None == "none"

VARIABLES
    rendering,        \* the page renderer is being called
    delivering,       \* the update sink is being called: "idle", "content", "notice"
    sinkOpen,         \* updates may still be delivered
    noticed,          \* the sink accepted the terminal notice
    cancelRequested,
    broken,           \* the model failed: the analyzer cannot be used again
    status            \* the outcome's status

contractVars == <<rendering, delivering, sinkOpen, noticed, cancelRequested, broken, status>>

ContractInit ==
    /\ rendering = FALSE /\ delivering = "idle"
    /\ sinkOpen = TRUE /\ noticed = FALSE
    /\ cancelRequested \in BOOLEAN /\ broken \in BOOLEAN
    /\ status = None

(* A render begins only while somebody still wants its page.                 *)
BeginRender ==
    /\ ~rendering /\ ~cancelRequested /\ sinkOpen /\ ~noticed
    /\ delivering # "notice" /\ status = None
    /\ rendering' = TRUE
    /\ UNCHANGED <<delivering, sinkOpen, noticed, cancelRequested, broken, status>>

EndRender ==
    /\ rendering
    /\ rendering' = FALSE
    /\ UNCHANGED <<delivering, sinkOpen, noticed, cancelRequested, broken, status>>

(* Calls to the sink are serial; content stops with a cancellation, and the  *)
(* notice is the last call, made when the renderer has returned for good.    *)
BeginContent ==
    /\ delivering = "idle" /\ sinkOpen /\ ~noticed /\ ~cancelRequested /\ status = None
    /\ delivering' = "content"
    /\ UNCHANGED <<rendering, sinkOpen, noticed, cancelRequested, broken, status>>

BeginNotice ==
    /\ delivering = "idle" /\ sinkOpen /\ ~noticed /\ ~rendering /\ status = None
    /\ delivering' = "notice"
    /\ UNCHANGED <<rendering, sinkOpen, noticed, cancelRequested, broken, status>>

SinkAccepts ==
    /\ delivering # "idle"
    /\ noticed' = (delivering = "notice") /\ delivering' = "idle"
    /\ UNCHANGED <<rendering, sinkOpen, cancelRequested, broken, status>>

SinkRefuses ==
    /\ delivering # "idle"
    /\ delivering' = "idle" /\ sinkOpen' = FALSE
    /\ UNCHANGED <<rendering, noticed, cancelRequested, broken, status>>

CloseSink ==
    /\ delivering = "idle" /\ sinkOpen
    /\ sinkOpen' = FALSE
    /\ UNCHANGED <<rendering, delivering, noticed, cancelRequested, broken, status>>

RequestCancel ==
    /\ status = None /\ cancelRequested' = TRUE
    /\ UNCHANGED <<rendering, delivering, sinkOpen, noticed, broken, status>>

(* A native failure in the middle of the job, or before its sink was ready.  *)
Break ==
    /\ status = None /\ ~noticed /\ delivering # "notice"
    /\ broken' = TRUE
    /\ sinkOpen' \in {sinkOpen} \cup {open \in {FALSE} : delivering = "idle"}
    /\ UNCHANGED <<rendering, delivering, noticed, cancelRequested, status>>

(* The outcome: after every callback has returned, and never better than     *)
(* what the sink and the client have seen.                                   *)
End ==
    /\ status = None /\ ~rendering /\ delivering = "idle" /\ ~sinkOpen
    /\ \/ status' = "Failed"
       \/ noticed /\ ~broken /\ cancelRequested /\ status' = "Cancelled"
       \/ noticed /\ ~broken /\ ~cancelRequested /\ status' \in {"Completed", "Partial"}
    /\ UNCHANGED <<rendering, delivering, sinkOpen, noticed, cancelRequested, broken>>

ContractNext == \/ BeginRender \/ EndRender \/ BeginContent \/ BeginNotice
                \/ SinkAccepts \/ SinkRefuses \/ CloseSink \/ RequestCancel \/ Break \/ End

ContractSpec == ContractInit /\ [][ContractNext]_contractVars
=============================================================================
