--------------------------- MODULE HandleRegistry ---------------------------
(* The handle table of the C interface: podoco-ffi handles.rs, the calls of  *)
(* api.rs and jobs.rs that fill it, and the native image leases of           *)
(* podoco/src/image/native.rs it owns.                                       *)
(*                                                                           *)
(* A C caller names what it owns by a number.  Several threads create, read  *)
(* and release at once; an entry lives until its last reader lets go, and a  *)
(* lease then calls back into the caller, which may call the library again.  *)
EXTENDS Naturals, FiniteSets

CONSTANTS
    Threads, Leases, Jobs,
    MaxId       \* the identity space: i64::MAX in the code

Error == "error"      \* the payload of an error buffer
Nothing == "none"

(* A payload is of one kind, and a thread is none of them.                   *)
ASSUME RegistryAssumption ==
    /\ MaxId \in Nat
    /\ Leases \cap Jobs = {}
    /\ {Error, Nothing} \cap (Leases \cup Jobs) = {} /\ Nothing \notin Threads

Payloads == Leases \cup Jobs \cup {Error}
Ids == 1 .. MaxId

VARIABLES
    next,       \* Registry.next
    entries,    \* Registry.entries
    lock,       \* the thread in the registry's critical section
    pc,         \* where each thread's call stands
    arg,        \* the payload that call is about
    id,         \* the handle it reserved
    handed,     \* handles that were ever given to the client
    owner,      \* of each lease: "caller", "library"
    armed,      \* podoco_image_import's `accepted`
    back,       \* release callbacks made for each lease
    running     \* jobs admitted to the analyzer

callVars == <<pc, arg, id>>
leaseVars == <<owner, armed, back>>
vars == <<next, entries, lock, callVars, handed, leaseVars, running>>

Init ==
    /\ next = 0
    /\ entries = [i \in Ids |-> Nothing]
    /\ lock = Nothing
    /\ pc = [t \in Threads |-> "idle"]
    /\ arg = [t \in Threads |-> Nothing] /\ id = [t \in Threads |-> 0]
    /\ handed = {}
    /\ owner = [l \in Leases |-> "caller"]
    /\ armed = [l \in Leases |-> FALSE] /\ back = [l \in Leases |-> 0]
    /\ running = {}

Goto(t, where) == pc' = [pc EXCEPT ![t] = where]
Ends(t) ==
    /\ Goto(t, "idle")
    /\ arg' = [arg EXCEPT ![t] = Nothing] /\ id' = [id EXCEPT ![t] = 0]

Starts(t, what, p) ==
    /\ pc[t] = "idle"
    /\ Goto(t, what) /\ arg' = [arg EXCEPT ![t] = p] /\ id' = id

(* A failed call becomes an error buffer, itself an entry.                   *)
Fails(t) == /\ Goto(t, "reserve") /\ arg' = [arg EXCEPT ![t] = Error]
            /\ id' = [id EXCEPT ![t] = 0]

-----------------------------------------------------------------------------
(* Creating.                                                                 *)

Notifies(l) == back' = IF armed[l] THEN [back EXCEPT ![l] = @ + 1] ELSE back

Rejected(t) ==
    /\ pc[t] = "rejected"
    /\ Notifies(arg[t])
    /\ Fails(t)
    /\ UNCHANGED <<next, entries, lock, handed, owner, armed, running>>

(* Every check of an import precedes acceptance; a rejected lease is dropped *)
(* unarmed and stays the caller's.                                           *)
Import(t, l) ==
    /\ owner[l] = "caller" /\ \A u \in Threads : arg[u] # l
    /\ pc[t] = "idle"
    /\ \/ Starts(t, "reserve", l)
       \/ Starts(t, "rejected", l)
    /\ UNCHANGED <<next, entries, lock, handed, leaseVars, running>>

StartJobAdmitted(t, j) ==
    /\ j \notin running /\ \A u \in Threads : arg[u] # j
    /\ Starts(t, "reserve", j)
    /\ running' = running \cup {j}
    /\ UNCHANGED <<next, entries, lock, handed, leaseVars>>
StartJob(t, j) ==
    /\ j \notin running /\ \A u \in Threads : arg[u] # j
    /\ Starts(t, "reserve", j)
    /\ UNCHANGED <<next, entries, lock, handed, leaseVars, running>>

Exhausted == next = MaxId

ReservesFree(t) == \E i \in Ids : /\ entries[i] = Nothing /\ \A u \in Threads : id[u] # i
                                  /\ id' = [id EXCEPT ![t] = i] /\ next' = next
ReservesNext(t) == /\ ~Exhausted
                   /\ next' = next + 1 /\ id' = [id EXCEPT ![t] = next + 1]
Reserve(t) ==
    /\ pc[t] = "reserve" /\ lock = Nothing
    /\ ReservesNext(t)
    /\ Goto(t, IF arg[t] \in Jobs THEN "admit" ELSE "publish")
    /\ UNCHANGED <<entries, lock, arg, handed, leaseVars, running>>

(* No handle is left: the call fails, and so does its error buffer.          *)
ReserveFails(t) ==
    /\ pc[t] = "reserve" /\ lock = Nothing /\ Exhausted
    /\ CASE arg[t] = Error  -> Ends(t)
         [] arg[t] \in Leases -> Goto(t, "rejected") /\ UNCHANGED <<arg, id>>
         [] OTHER            -> Fails(t)
    /\ UNCHANGED <<next, entries, lock, handed, leaseVars, running>>

(* The analyzer accepts the job or not; the reserved number is then unused.  *)
Admit(t) ==
    /\ pc[t] = "admit"
    /\ \/ running' = running \cup {arg[t]} /\ Goto(t, "publish") /\ UNCHANGED <<arg, id>>
       \/ Fails(t) /\ UNCHANGED running
    /\ UNCHANGED <<next, entries, lock, handed, leaseVars>>

PublishUnarmed(t) ==
    /\ pc[t] = "publish" /\ lock = Nothing
    /\ entries' = [entries EXCEPT ![id[t]] = arg[t]]
    /\ Goto(t, "hand")
    /\ UNCHANGED <<next, lock, arg, id, handed, leaseVars, running>>
Publish(t) ==
    /\ pc[t] = "publish" /\ lock = Nothing
    /\ entries' = [entries EXCEPT ![id[t]] = arg[t]]
    /\ Goto(t, IF arg[t] \in Leases THEN "arm" ELSE "hand")
    /\ UNCHANGED <<next, lock, arg, id, handed, leaseVars, running>>

Arm(t) ==
    /\ pc[t] = "arm"
    /\ armed' = [armed EXCEPT ![arg[t]] = TRUE]
    /\ Goto(t, "hand")
    /\ UNCHANGED <<next, entries, lock, arg, id, handed, owner, back, running>>

HandOver(t) ==
    /\ pc[t] = "hand"
    /\ handed' = handed \cup {id[t]}
    /\ owner' = [l \in Leases |-> IF l = arg[t] THEN "library" ELSE owner[l]]
    /\ Ends(t)
    /\ UNCHANGED <<next, entries, lock, armed, back, running>>

-----------------------------------------------------------------------------
(* Using and releasing.                                                      *)

(* get clones the entry under the lock; a stale handle or one of another     *)
(* kind fails.                                                               *)
Get(t, i) ==
    /\ lock = Nothing /\ entries[i] \in Leases \cup Jobs
    /\ Starts(t, "reading", entries[i])
    /\ UNCHANGED <<next, entries, lock, handed, leaseVars, running>>

GetStale(t, i) ==
    /\ lock = Nothing /\ entries[i] \notin Leases \cup Jobs
    /\ pc[t] = "idle" /\ Fails(t)
    /\ UNCHANGED <<next, entries, lock, handed, leaseVars, running>>

ReadEnds(t) ==
    /\ pc[t] = "reading"
    /\ Goto(t, "dropping")
    /\ UNCHANGED <<next, entries, lock, arg, id, handed, leaseVars, running>>

Release(t, i) ==
    /\ lock = Nothing /\ entries[i] # Nothing
    /\ Starts(t, "removed", entries[i])
    /\ entries' = [entries EXCEPT ![i] = Nothing]
    /\ lock' = t
    /\ UNCHANGED <<next, handed, leaseVars, running>>

Unlocks(t) == lock' = Nothing
Unlock(t) ==
    /\ pc[t] = "removed" /\ Unlocks(t)
    /\ Goto(t, "dropping")
    /\ UNCHANGED <<next, entries, arg, id, handed, leaseVars, running>>

Holding == {"reading", "removed", "dropping"}
InTable(p) == \E i \in Ids : entries[i] = p
LastInTable(t, p) == ~InTable(p)
LastHolder(t, p) == ~InTable(p) /\ \A u \in Threads \ {t} : ~(arg[u] = p /\ pc[u] \in Holding)

(* The last owner destroys the payload; a lease tells the caller.            *)
Survives(t) == ~LastHolder(t, arg[t])
Drop(t) ==
    /\ pc[t] = "dropping"
    /\ IF arg[t] \in Leases /\ ~Survives(t)
       THEN Goto(t, "callback") /\ UNCHANGED <<arg, id, running>>
       ELSE /\ Ends(t)
            /\ running' = IF Survives(t) THEN running ELSE running \ {arg[t]}
    /\ UNCHANGED <<next, entries, lock, handed, leaseVars>>

Callback(t) ==
    /\ pc[t] = "callback"
    /\ Notifies(arg[t])
    /\ Goto(t, "inside")
    /\ UNCHANGED <<next, entries, lock, arg, id, handed, owner, armed, running>>

(* The callback's code may itself count or release handles.                  *)
CallbackReturns(t) ==
    /\ pc[t] = "inside" /\ lock = Nothing
    /\ Ends(t)
    /\ UNCHANGED <<next, entries, lock, handed, leaseVars, running>>

-----------------------------------------------------------------------------
Call(t) == \/ Rejected(t) \/ Reserve(t) \/ ReserveFails(t) \/ Admit(t) \/ Publish(t) \/ Arm(t)
           \/ HandOver(t) \/ ReadEnds(t) \/ Unlock(t) \/ Drop(t) \/ Callback(t)
           \/ CallbackReturns(t)

Client(t) == \/ \E l \in Leases : Import(t, l)
             \/ \E j \in Jobs : StartJob(t, j)
             \/ \E i \in handed : Get(t, i) \/ GetStale(t, i) \/ Release(t, i)

Next == \E t \in Threads : Call(t) \/ Client(t)
Spec == Init /\ [][Next]_vars

(* A call that has begun goes on, and a caller releases what it was given.   *)
FairSpec == /\ Spec
            /\ \A t \in Threads : SF_vars(Call(t))
            /\ SF_vars(\E t \in Threads, i \in handed : Release(t, i))

-----------------------------------------------------------------------------
(* Properties.                                                               *)

(* Type invariant.                                                           *)
TypeOK ==
    /\ next \in 0 .. MaxId /\ entries \in [Ids -> Payloads \cup {Nothing}]
    /\ lock \in Threads \cup {Nothing}
    /\ arg \in [Threads -> Payloads \cup {Nothing}] /\ id \in [Threads -> 0 .. MaxId]
    /\ \A t \in Threads : pc[t] = "publish" => id[t] \in 1 .. next
    /\ handed \subseteq 1 .. next
    /\ owner \in [Leases -> {"caller", "library"}] /\ armed \in [Leases -> BOOLEAN]
    /\ running \subseteq Jobs

(* A lease the caller still owns is never called back: an import that failed *)
(* left the pixels with it, whichever step failed; others once at most.      *)
ReleasedOnce == \A l \in Leases : back[l] <= IF owner[l] = "caller" THEN 0 ELSE 1

(* While any thread reads an image, or its handle lives, its pixels have not *)
(* been given back.                                                          *)
PixelsAlive ==
    \A l \in Leases : back[l] > 0 =>
        ~InTable(l) /\ \A t \in Threads : ~(arg[t] = l /\ pc[t] \in Holding)

(* An accepted lease is in use, or being given back, or was: none is lost.   *)
AcceptedReturns ==
    \A l \in Leases : owner[l] = "library" =>
        \/ back[l] = 1 \/ InTable(l)
        \/ \E t \in Threads : arg[t] = l /\ pc[t] \in Holding \cup {"callback"}

(* The caller's pixels are given back exactly once, and never too early.     *)
LeaseExact == TypeOK /\ ReleasedOnce /\ PixelsAlive /\ AcceptedReturns

(* Nothing in the table is out of the client's reach for good, and a running *)
(* job always has an entry, a reader or a call that will publish it.         *)
NothingOrphaned ==
    /\ \A i \in Ids : entries[i] # Nothing =>
           i \in handed \/ \E t \in Threads : id[t] = i /\ pc[t] \in {"arm", "hand"}
    /\ \A j \in running : InTable(j) \/ \E t \in Threads : arg[t] = j /\ pc[t] \in Holding \cup {"publish"}

(* A handle the client has seen never names anything else later, so a stale  *)
(* or repeated release cannot hit another resource.                          *)
StaleStaysStale ==
    [][\A i \in handed : entries[i] = Nothing => entries'[i] = Nothing]_vars

(* A lease the library accepted comes back to a caller that releases it; the *)
(* callback that brings it runs without the registry's lock, so that it may  *)
(* call back into the library.                                               *)
CallbackLockFree == \A t \in Threads : pc[t] \in {"callback", "inside"} => lock # t
LeaseComesBack ==
    /\ [][CallbackLockFree']_vars
    /\ \A l \in Leases : owner[l] = "library" ~> back[l] = 1
=============================================================================
