---------------------------- MODULE NativeSession ----------------------------
(* A model session: podoco/crates/podoco/src/session.rs.  One owner thread   *)
(* holds every native object; a client with exclusive access sends it one    *)
(* request at a time, and learns from the answer whether the model may be    *)
(* used again.  What a request does is FormulaSession's.                      *)
EXTENDS Naturals

None == "none"

VARIABLES
    client,    \* "opening", "idle", "called", "closing", "refused"
    open,      \* the client holds the sender of the request channel
    request,   \* a request is in the channel
    worker,    \* the owner thread
    reply,     \* the answer: None, "ok", "error", "fatal", or "lost" with its thread
    failed,    \* LayoutSession.failed
    joined     \* the join handle was taken

sessionVars == <<client, open, request, worker, reply, failed, joined>>

SessionInit ==
    /\ client = "opening" /\ open = TRUE /\ request = FALSE
    /\ worker = "loading" /\ reply = None
    /\ failed = FALSE /\ joined = FALSE

Gone == worker \in {"exited", "panicked"}

(* The model loads on its owner thread and the client waits to be told; it   *)
(* gets a session or, when the thread is gone, an error.                     *)
Load ==
    /\ worker = "loading"
    /\ \/ worker' = "ready" /\ client' = "idle"
       \/ worker' \in {"exited", "panicked"} /\ client' = client
    /\ UNCHANGED <<open, request, reply, failed, joined>>

Refuse ==
    /\ client = "opening" /\ Gone
    /\ client' = "refused" /\ joined' = TRUE /\ open' = FALSE
    /\ UNCHANGED <<request, worker, reply, failed>>

(* analyze_page after its checks; a session that failed or was closed        *)
(* answers at once, and one whose thread has gone becomes a failed one.      *)
Call ==
    /\ client = "idle" /\ open /\ ~failed
    /\ IF Gone
       THEN failed' = TRUE /\ UNCHANGED <<client, request>>
       ELSE request' = TRUE /\ client' = "called" /\ failed' = failed
    /\ UNCHANGED <<open, worker, reply, joined>>

Take ==
    /\ worker = "ready" /\ request
    /\ request' = FALSE /\ worker' = "serving"
    /\ UNCHANGED <<client, open, reply, failed, joined>>

Answer(result) ==
    /\ worker = "serving"
    /\ reply' = result
    /\ worker' = IF result = "fatal" THEN "releasing" ELSE "ready"
    /\ UNCHANGED <<client, open, request, failed, joined>>

Panic ==
    /\ worker = "serving"
    /\ worker' = "panicked" /\ reply' = "lost"
    /\ UNCHANGED <<client, open, request, failed, joined>>

FailedBy(r) == r \in {"fatal", "lost"}
Return ==
    /\ client = "called" /\ reply # None
    /\ client' = "idle" /\ reply' = None
    /\ failed' = FailedBy(reply)
    /\ UNCHANGED <<open, request, worker, joined>>

(* The model is dropped on its owner thread, after a fatal request or when   *)
(* the client's sender is gone.                                              *)
NeverDisconnected == FALSE
Disconnected == ~request /\ ~open
Quit ==
    /\ worker = "ready" /\ Disconnected
    /\ worker' = "releasing"
    /\ UNCHANGED <<client, open, request, reply, failed, joined>>

ReleaseModel ==
    /\ worker = "releasing"
    /\ worker' = "exited"
    /\ UNCHANGED <<client, open, request, reply, failed, joined>>

(* close, and drop.                                                          *)
Close ==
    /\ client = "idle"
    /\ open' = FALSE
    /\ client' = "closing"
    /\ UNCHANGED <<request, worker, reply, failed, joined>>

Drained == joined \/ Gone
CloseReturns ==
    /\ client = "closing" /\ Drained
    /\ joined' = TRUE /\ client' = "idle"
    /\ failed' = (failed \/ (~joined /\ worker = "panicked"))
    /\ UNCHANGED <<open, request, worker, reply>>

=============================================================================
