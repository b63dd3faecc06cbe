---------------------------- MODULE MathProcessor ----------------------------
(* The math conversion lane: podoco/crates/podoco/src/math/worker.rs, called *)
(* through podoco-ffi/src/math.rs by the processor of the Dart bindings,     *)
(* podoco/bindings/dart/lib/src/math.dart.                                   *)
(*                                                                           *)
(* One worker thread owns MathCAT and serves a bounded queue.  Each Dart     *)
(* call runs in an isolate of its own, which blocks in the native call; a    *)
(* close may come from the owner's dispose and from other native callers.    *)
EXTENDS Naturals, Sequences, FiniteSets, Functions

CONSTANTS
    Callers,      \* conversions asked for
    Closers,      \* threads that close the processor
    Owner,        \* the closer that disposes of the Dart object
    QueueLimit,   \* MathLimits.queued_requests
    Options,      \* speech preferences a caller may ask for
    None          \* no value; as preferences: plain MathML, no speech

(* What a caller may be told: an error, or an output and for speech the      *)
(* preferences it was spoken with.                                           *)
Preferences == [language : Options \cup {None}, style : Options \cup {None}]
Replies == [is : {"stale", "failed", "closed", "full", "error", "cancelled", "mathml"}]
           \cup [is : {"speech"}, prefs : Preferences]

(* The values are told apart; "worker" stands for the thread among those who *)
(* hold requests, "queue" and "active" for its queue and its hands.          *)
ASSUME MathAssumption ==
    /\ QueueLimit \in Nat \ {0} /\ Owner \in Closers
    /\ None \notin Options \cup Callers \cup Closers \cup Replies
    /\ Closers \cap {"worker", "queue", "active"} = {}

VARIABLES
    closed, failure, requests,  \* State
    worker,       \* the worker's position
    parked,       \* it sleeps on the condition variable
    active,       \* the request it converts
    pending,      \* requests taken from the queue and not answered yet, by owner
    prefs,        \* MathCAT's preferences: two of them, set one after the other
    reply,        \* the answer in each request's channel
    call,         \* each caller: "new", "admitted", "waiting", "done", "refused"
    want,         \* the speech options it asks for
    closer,       \* each closer's position in close
    joinLock,     \* the mutex around the worker's join handle: its holder
    handle        \* the Dart owner: "open", "closing", "released"

lane == <<closed, failure, requests>>
work == <<worker, parked, active, prefs>>
calls == <<reply, call, want>>
closes == <<closer, joinLock, handle>>
vars == <<lane, work, pending, calls, closes>>

Init ==
    /\ closed = FALSE /\ failure = FALSE /\ requests = <<>>
    /\ worker = "ready" /\ parked = FALSE /\ active = None
    /\ pending = [a \in Closers \cup {"worker"} |-> <<>>]
    /\ prefs = [language |-> None, style |-> None]
    /\ reply = [c \in Callers |-> None]
    /\ call = [c \in Callers |-> "new"]
    /\ want \in [Callers -> Options \cup {None}]
    /\ closer = [k \in Closers |-> "new"]
    /\ joinLock = None
    /\ handle = "open"

Pending == {c \in Callers : call[c] \in {"admitted", "waiting"}}

-----------------------------------------------------------------------------
(* MathProcessor._convert of the bindings, then MathProcessor::request.      *)

(* Dart admits one more than the queue holds: the one being converted.       *)
Admit(c) ==
    /\ call[c] = "new"
    /\ call' = [call EXCEPT ![c] =
           IF handle = "open" /\ Cardinality(Pending) < QueueLimit + 1
           THEN "admitted" ELSE "refused"]
    /\ UNCHANGED <<lane, work, pending, reply, want, closes>>

HasRoom == Len(requests) < QueueLimit
Refusal == CASE handle = "released" -> "stale"
             [] handle # "released" /\ failure -> "failed"
             [] handle # "released" /\ closed /\ ~failure -> "closed"
             [] OTHER -> "full"
Accepts == handle # "released" /\ ~closed /\ HasRoom

Request(c) ==
    /\ call[c] = "admitted"
    /\ call' = [call EXCEPT ![c] = "waiting"]
    /\ \/ /\ Accepts
          /\ requests' = Append(requests, c)
          /\ parked' = FALSE
          /\ reply' = reply
       \/ /\ ~Accepts
          /\ reply' = [reply EXCEPT ![c] = [is |-> Refusal]]
          /\ UNCHANGED <<requests, parked>>
    /\ UNCHANGED <<closed, failure, worker, active, prefs, pending, want, closes>>

(* The isolate returns and the call leaves the bindings' pending set.        *)
Settle(c) ==
    /\ call[c] = "waiting" /\ reply[c] # None
    /\ call' = [call EXCEPT ![c] = "done"]
    /\ UNCHANGED <<lane, work, pending, reply, want, closes>>

-----------------------------------------------------------------------------
(* The worker.                                                               *)

WorkerSleeps ==
    /\ worker = "ready" /\ ~parked
    /\ requests = <<>> /\ ~closed
    /\ parked' = TRUE
    /\ UNCHANGED <<lane, worker, active, prefs, pending, calls, closes>>

WorkerStops ==
    /\ worker = "ready" /\ ~parked /\ closed
    /\ worker' = "exited"
    /\ UNCHANGED <<lane, parked, active, prefs, pending, calls, closes>>

WorkerPops ==
    /\ worker = "ready" /\ ~parked /\ ~closed /\ requests # <<>>
    /\ active' = Head(requests) /\ requests' = Tail(requests)
    /\ worker' = "language"
    /\ UNCHANGED <<closed, failure, parked, prefs, pending, calls, closes>>

(* The closure of MathProcessor::open: a conversion that may fail; for       *)
(* speech every preference is set, any of which may fail, before the text.   *)
Speaks == want[active] # None

SetLanguage ==
    /\ worker = "language" /\ Speaks
    /\ prefs' = [prefs EXCEPT !.language = want[active]]
    /\ worker' = "style"
    /\ UNCHANGED <<lane, parked, active, pending, calls, closes>>

StyleOnce == IF prefs.style = None THEN want[active] ELSE prefs.style
Style == want[active]
SetStyle ==
    /\ worker = "style"
    /\ prefs' = [prefs EXCEPT !.style = Style]
    /\ worker' = "text"
    /\ UNCHANGED <<lane, parked, active, pending, calls, closes>>

Send(c, answer) == reply' = [reply EXCEPT ![c] = answer]

WorkerAnswers ==
    /\ \/ worker \in {"language", "style", "text"}
          /\ Send(active, [is |-> "error"])
       \/ worker = "language" /\ ~Speaks
          /\ Send(active, [is |-> "mathml"])
       \/ worker = "text"
          /\ Send(active, [is |-> "speech", prefs |-> prefs])
    /\ worker' = "ready" /\ active' = None
    /\ UNCHANGED <<lane, parked, prefs, pending, call, want, closes>>

(* MathCAT crashed or the conversion panicked: nobody may wait for it again. *)
KeepQueue == /\ pending' = [pending EXCEPT !["worker"] = <<active>>]
             /\ requests' = requests
TakeQueue == /\ pending' = [pending EXCEPT !["worker"] = <<active>> \o requests]
             /\ requests' = <<>>
WorkerFails ==
    /\ worker \in {"language", "style", "text"}
    /\ closed' = TRUE /\ failure' = TRUE
    /\ TakeQueue
    /\ worker' = "failing" /\ active' = None
    /\ UNCHANGED <<parked, prefs, calls, closes>>

WorkerRejects ==
    /\ worker = "failing" /\ pending["worker"] # <<>>
    /\ Send(Head(pending["worker"]), [is |-> "failed"])
    /\ pending' = [pending EXCEPT !["worker"] = Tail(@)]
    /\ UNCHANGED <<lane, work, call, want, closes>>

WorkerDies ==
    /\ worker = "failing" /\ pending["worker"] = <<>>
    /\ worker' = "exited"
    /\ UNCHANGED <<lane, parked, active, prefs, pending, calls, closes>>

-----------------------------------------------------------------------------
(* MathProcessor::close, and the owner's dispose around it.                  *)

(* The owner closes once; from then on it admits nothing.                    *)
Dispose ==
    /\ handle = "open" /\ handle' = "closing"
    /\ UNCHANGED <<lane, work, pending, calls, closer, joinLock>>

CopyRequests == requests' = requests
TakeRequests == requests' = <<>>
Close(k) ==
    /\ closer[k] = "new" /\ handle # "released"
    /\ k = Owner => handle = "closing"
    /\ closer' = [closer EXCEPT ![k] = "answering"]
    /\ closed' = TRUE /\ parked' = FALSE
    /\ pending' = [pending EXCEPT ![k] = requests] /\ TakeRequests
    /\ UNCHANGED <<failure, worker, active, prefs, calls, joinLock, handle>>

CancelPending(k) ==
    /\ closer[k] = "answering" /\ pending[k] # <<>>
    /\ Send(Head(pending[k]), [is |-> "cancelled"])
    /\ pending' = [pending EXCEPT ![k] = Tail(@)]
    /\ UNCHANGED <<lane, work, call, want, closes>>

(* The guard of the handle's mutex lives through the join.                   *)
MayTake(k) == joinLock = None
TakeHandle(k) ==
    /\ closer[k] = "answering" /\ pending[k] = <<>>
    /\ MayTake(k)
    /\ \E taken \in BOOLEAN :
          /\ taken <=> \A o \in Closers : closer[o] \notin {"joining", "done"}
          /\ closer' = [closer EXCEPT ![k] = IF taken THEN "joining" ELSE "done"]
          /\ joinLock' = IF taken THEN k ELSE joinLock
    /\ UNCHANGED <<lane, work, pending, calls, handle>>

Joined(k) ==
    /\ closer[k] = "joining" /\ worker = "exited"
    /\ closer' = [closer EXCEPT ![k] = "done"]
    /\ joinLock' = None
    /\ UNCHANGED <<lane, work, pending, calls, handle>>

(* dispose releases the handle when its pending calls have settled.          *)
MayReleaseEarly == TRUE
MayRelease == Pending = {}
Release ==
    /\ handle = "closing" /\ closer[Owner] = "done"
    /\ MayRelease
    /\ handle' = "released"
    /\ UNCHANGED <<lane, work, pending, calls, closer, joinLock>>

-----------------------------------------------------------------------------
Worker == \/ WorkerSleeps \/ WorkerStops \/ WorkerPops \/ SetLanguage \/ SetStyle
          \/ WorkerAnswers \/ WorkerFails \/ WorkerRejects \/ WorkerDies
Caller(c) == Admit(c) \/ Request(c) \/ Settle(c)
Closer(k) == Close(k) \/ CancelPending(k) \/ TakeHandle(k) \/ Joined(k)

Over == /\ Pending = {} /\ \A c \in Callers : call[c] # "new"
        /\ \A k \in Closers : closer[k] \in {"new", "done"}
        /\ UNCHANGED vars

Next == \/ Worker \/ Dispose \/ Release \/ Over
        \/ \E c \in Callers : Caller(c)
        \/ \E k \in Closers : Closer(k)

Spec == Init /\ [][Next]_vars

(* A conversion that began ends; an admitted call's isolate runs; a close    *)
(* that began goes on.  Nobody is obliged to call, close or dispose.         *)
FairSpec == /\ Spec
            /\ WF_vars(Worker) /\ WF_vars(Release)
            /\ \A c \in Callers : WF_vars(Request(c) \/ Settle(c))
            /\ WF_vars(Close(Owner))
            /\ \A k \in Closers : WF_vars(CancelPending(k) \/ TakeHandle(k) \/ Joined(k))

-----------------------------------------------------------------------------
(* Properties.                                                               *)

InHand == Range(requests) \cup {active} \cup UNION {Range(pending[a]) : a \in DOMAIN pending}

(* Type invariant; the queue never exceeds its limit.                        *)
TypeOK ==
    /\ closed \in BOOLEAN /\ (failure => closed)
    /\ requests \in Seq(Callers) /\ Len(requests) <= QueueLimit
    /\ worker \in {"ready", "language", "style", "text", "failing", "exited"}
    /\ parked \in BOOLEAN /\ active \in Callers \cup {None}
    /\ pending \in [Closers \cup {"worker"} -> Seq(Callers)]
    /\ prefs \in Preferences /\ reply \in [Callers -> Replies \cup {None}]
    /\ want \in [Callers -> Options \cup {None}]
    /\ call \in [Callers -> {"new", "admitted", "waiting", "done", "refused"}]
    /\ closer \in [Closers -> {"new", "answering", "joining", "done"}]
    /\ joinLock \in Closers \cup {None}
    /\ handle \in {"open", "closing", "released"}

(* Each request is answered, once, by whoever took it out of the queue: one  *)
(* without its answer is somewhere it will be answered from, and never in    *)
(* the queue of a worker that has gone.                                      *)
NobodyForgotten ==
    /\ \A c \in Callers : call[c] = "waiting" /\ reply[c] = None => c \in InHand
    /\ worker \in {"failing", "exited"} => requests = <<>>
AnsweredOnce ==
    [][/\ NobodyForgotten'
       /\ \A c \in Callers : reply[c] # None => reply'[c] = reply[c]]_vars

(* What a release may rely on: every close that has returned, the first or a *)
(* concurrent one, left no worker behind, so the libraries may be unloaded;  *)
(* and no isolate uses a handle that dispose has released.                   *)
CloseDrains == \A k \in Closers : closer[k] = "done" => worker = "exited"
HandleOutlivesCalls == \A c \in Callers : reply[c] # [is |-> "stale"]
DisposesCleanly == TypeOK /\ CloseDrains /\ HandleOutlivesCalls

(* Speech is spoken with the preferences its caller asked for, whatever an   *)
(* earlier request that failed half-way left in MathCAT.                     *)
SpeechMatchesRequest ==
    \A c \in Callers : reply[c] # None /\ reply[c].is = "speech" =>
        reply[c].prefs = [language |-> want[c], style |-> want[c]]

(* Every caller that reached the worker's queue, or was refused there,       *)
(* returns, also when the worker dies or the processor is closed under it;   *)
(* and a dispose that began completes.                                       *)
EveryCallReturns ==
    /\ \A c \in Callers : call[c] = "admitted" ~> call[c] = "done"
    /\ handle = "closing" ~> handle = "released"
=============================================================================
