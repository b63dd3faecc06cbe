----------------------- MODULE ForeignInterfaceProofs -----------------------
(* Theorems about the C interface and its Dart client: the handle registry,  *)
(* for every number of threads, leases and jobs and every size of the        *)
(* identity space; and a job run by the Dart bindings, for every number of   *)
(* pages and updates and every interleaving of the native threads, the event *)
(* loop, a failing transport and a client that vanishes.                     *)
EXTENDS HandleRegistry, ForeignJob, TLAPS

-----------------------------------------------------------------------------
(* The registry: its inductive invariant.                                    *)

States == {"idle", "rejected", "reserve", "admit", "publish", "arm", "hand", "reading",
           "removed", "dropping", "callback", "inside"}
Inbound == {"rejected", "reserve", "publish", "arm", "hand"}
Published == {"arm", "hand"}
Outbound == Holding \cup {"callback"}

Types == TypeOK /\ pc \in [Threads -> States] /\ back \in [Leases -> Nat]

(* A call is about a payload while it runs, and has a number from the        *)
(* reservation to the moment the client gets it.                             *)
CallShape ==
    \A t \in Threads :
        /\ pc[t] = "idle" <=> arg[t] = Nothing
        /\ pc[t] \in {"admit", "publish"} \cup Published <=> id[t] # 0
        /\ pc[t] \in {"rejected", "arm", "callback", "inside"} => arg[t] \in Leases
        /\ pc[t] = "admit" => arg[t] \in Jobs
        /\ lock = t => pc[t] = "removed"

(* A reserved number belongs to one call and was never given out.            *)
NumbersFresh ==
    \A t \in Threads :
        /\ id[t] <= next /\ id[t] \notin handed
        /\ \A u \in Threads : t # u /\ id[t] # 0 => id[t] # id[u]
        /\ pc[t] \in {"admit", "publish"} => entries[id[t]] = Nothing
        /\ pc[t] \in Published => entries[id[t]] = arg[t]

EntryReachable ==
    \A i \in Ids : entries[i] # Nothing =>
        i \in handed \/ \E t \in Threads : id[t] = i /\ pc[t] \in Published

JobsHeld ==
    \A j \in running :
        InTable(j) \/ \E t \in Threads : arg[t] = j /\ pc[t] \in Holding \cup {"publish"}

(* A call that brings a lease in is the only one about it, and the lease is  *)
(* the caller's; it is armed only once it is in the table.                   *)
BroughtByOne(l) ==
    /\ \A t \in Threads : arg[t] = l /\ pc[t] \in Inbound =>
           /\ owner[l] = "caller" /\ (armed[l] <=> pc[t] = "hand")
           /\ \A u \in Threads : arg[u] = l => u = t
    /\ owner[l] = "caller" =>
           /\ back[l] = 0
           /\ \A t \in Threads : arg[t] = l => pc[t] \in Inbound
           /\ \A i \in Ids : entries[i] = l =>
                  \E t \in Threads : arg[t] = l /\ id[t] = i /\ pc[t] \in Published
           /\ armed[l] => \E t \in Threads : arg[t] = l /\ pc[t] = "hand"

(* An accepted lease is armed, and is in the table, in use or in its one     *)
(* callback until the callback is made; then it is nowhere.                  *)
ReturnedByOne(l) ==
    /\ owner[l] = "library" =>
           /\ armed[l]
           /\ \/ back[l] = 1
              \/ back[l] = 0 /\ (InTable(l) \/ \E t \in Threads : arg[t] = l /\ pc[t] \in Outbound)
    /\ back[l] > 0 => ~InTable(l) /\ \A t \in Threads : arg[t] = l => pc[t] \notin Outbound
    /\ \A t \in Threads : arg[t] = l /\ pc[t] = "callback" =>
           /\ ~InTable(l)
           /\ \A u \in Threads : arg[u] = l /\ pc[u] \in Outbound => u = t

LeaseLife == \A l \in Leases : BroughtByOne(l) /\ ReturnedByOne(l)

RegistryInv ==
    Types /\ CallShape /\ NumbersFresh /\ EntryReachable /\ JobsHeld /\ LeaseLife

LEMMA Kinds ==
  /\ Nothing \notin Payloads /\ Error \in Payloads /\ Error \notin Leases \cup Jobs
  /\ Leases \cap Jobs = {} /\ Nothing \notin Threads /\ MaxId \in Nat
  BY RegistryAssumption DEF Payloads, Error, Nothing

LEMMA RegistryInit == Init => RegistryInv
<1> SUFFICES ASSUME Init PROVE RegistryInv
  OBVIOUS
<1> USE RegistryAssumption DEF Init
<1>1. Types BY DEF Types, TypeOK, States, Ids, Payloads
<1>2. CallShape BY DEF CallShape, Published, Nothing
<1>3. NumbersFresh BY DEF NumbersFresh, Published
<1>4. EntryReachable BY DEF EntryReachable
<1>5. JobsHeld BY DEF JobsHeld
<1>6. LeaseLife
  BY DEF LeaseLife, BroughtByOne, ReturnedByOne, InTable, Inbound, Outbound, Published, Holding
<1> QED BY <1>1, <1>2, <1>3, <1>4, <1>5, <1>6 DEF RegistryInv

-----------------------------------------------------------------------------
(* One thread moves: where its call stands next, the payload, the number.    *)

Moves(t, where, p, n) ==
    /\ pc' \in [Threads -> States] /\ arg' \in [Threads -> Payloads \cup {Nothing}]
    /\ id' \in [Threads -> 0 .. MaxId]
    /\ pc'[t] = where /\ arg'[t] = p /\ id'[t] = n
    /\ \A u \in Threads : u # t => pc'[u] = pc[u] /\ arg'[u] = arg[u] /\ id'[u] = id[u]


LEMMA Goes ==
  ASSUME Types, NEW t \in Threads, NEW where \in States, NEW p \in Payloads \cup {Nothing},
         NEW n \in 0 .. MaxId,
         pc' = [pc EXCEPT ![t] = where], arg' = [arg EXCEPT ![t] = p], id' = [id EXCEPT ![t] = n]
  PROVE  Moves(t, where, p, n)
  BY DEF Types, TypeOK, Moves

LEMMA GoesOn ==
  ASSUME Types, NEW t \in Threads, NEW where \in States, Goto(t, where), arg' = arg, id' = id
  PROVE  Moves(t, where, arg[t], id[t])
  BY DEF Types, TypeOK, Moves, Goto

LEMMA EndMoves ==
  ASSUME Types, NEW t \in Threads, Ends(t)
  PROVE  Moves(t, "idle", Nothing, 0)
<1>1. 0 \in 0 .. MaxId BY RegistryAssumption
<1> QED BY <1>1, Goes DEF Ends, Goto, States

LEMMA FailMoves ==
  ASSUME Types, NEW t \in Threads, Fails(t)
  PROVE  Moves(t, "reserve", Error, 0)
<1>1. 0 \in 0 .. MaxId BY RegistryAssumption
<1> QED BY <1>1, Goes DEF Fails, Goto, States, Payloads

LEMMA StartMoves ==
  ASSUME Types, CallShape, NEW t \in Threads, NEW where \in States, NEW p \in Payloads,
         Starts(t, where, p)
  PROVE  pc[t] = "idle" /\ Moves(t, where, p, 0)
<1>1. pc[t] = "idle" /\ id[t] = 0 BY DEF Starts, CallShape, Published
<1> QED BY <1>1 DEF Types, TypeOK, Moves, Starts, Goto

(* Such a move leaves the table, the numbers given out and the leases alone. *)
Quiet(t, where, p, n) ==
    Moves(t, where, p, n) /\ UNCHANGED <<next, entries, handed, owner, armed, back>>

LEMMA QuietKeeps ==
  ASSUME RegistryInv, NEW t \in Threads, NEW where, NEW p, NEW n, Quiet(t, where, p, n),
         pc[t] \notin Published, where \notin Published \cup {"admit"}, n \in {0, id[t]},
         where = "idle" <=> p = Nothing, where = "publish" <=> n # 0,
         where = "publish" => pc[t] = "admit",
         where \in {"rejected", "callback", "inside"} => p \in Leases,
         lock' \in {lock, Nothing}, lock' = t => where = "removed", running' \subseteq Jobs
  PROVE  Types' /\ CallShape' /\ NumbersFresh' /\ EntryReachable'
<1>0. Types /\ CallShape /\ NumbersFresh /\ EntryReachable
  BY DEF RegistryInv
<1>1. Moves(t, where, p, n) /\ UNCHANGED <<next, entries, handed, owner, armed, back>>
  BY DEF Quiet
<1>2. \A u \in Threads : u # t => pc'[u] = pc[u] /\ arg'[u] = arg[u] /\ id'[u] = id[u]
  BY <1>1 DEF Moves
<1>3. pc'[t] = where /\ arg'[t] = p /\ id'[t] = n
  BY <1>1 DEF Moves
<1>4. Types'
  <2>1. ASSUME NEW u \in Threads, pc'[u] = "publish" PROVE id'[u] \in 1 .. next'
    <3>1. CASE u = t
      BY <1>0, <1>1, <1>3, <2>1, <3>1 DEF NumbersFresh, Types, TypeOK
    <3>2. CASE u # t
      BY <1>0, <1>1, <1>2, <2>1, <3>2 DEF Types, TypeOK
    <3> QED BY <3>1, <3>2
  <2>2. lock' \in Threads \cup {Nothing} BY <1>0 DEF Types, TypeOK
  <2> QED BY <1>0, <1>1, <2>1, <2>2 DEF Moves, Types, TypeOK
<1>5. CallShape'
  BY <1>0, <1>2, <1>3, Kinds DEF CallShape, Published
<1>6. NumbersFresh'
  BY <1>0, <1>1, <1>2, <1>3, Kinds DEF NumbersFresh, CallShape, Published, Types, TypeOK
<1>7. EntryReachable'
  BY <1>0, <1>1, <1>2 DEF EntryReachable
<1> QED BY <1>4, <1>5, <1>6, <1>7

(* What keeps a running job is not lost by a move that keeps holding it, or  *)
(* by a call that did not keep it.                                           *)
LEMMA QuietJobs ==
  ASSUME RegistryInv, NEW t \in Threads, NEW where, NEW p, NEW n, Moves(t, where, p, n),
         entries' = entries, running' = running,
         \/ arg[t] \notin Jobs \/ pc[t] \notin Holding \cup {"publish"}
         \/ p = arg[t] /\ where \in Holding \cup {"publish"}
  PROVE  JobsHeld'
<1>0. JobsHeld /\ running \subseteq Jobs
  BY DEF RegistryInv, Types, TypeOK
<1>1. \A u \in Threads : u # t => pc'[u] = pc[u] /\ arg'[u] = arg[u]
  BY DEF Moves
<1>2. pc'[t] = where /\ arg'[t] = p
  BY DEF Moves
<1>3. ASSUME NEW j PROVE InTable(j)' <=> InTable(j)
  BY DEF InTable
<1> QED BY <1>0, <1>1, <1>2, <1>3 DEF JobsHeld

(* A move about another payload changes nothing for a lease.                 *)
LEMMA Elsewhere ==
  ASSUME Types, NEW t \in Threads, NEW l \in Leases, NEW where, NEW p, NEW n,
         Moves(t, where, p, n), arg[t] # l, p # l,
         owner'[l] = owner[l], armed'[l] = armed[l], back'[l] = back[l],
         \A i \in Ids : entries'[i] = l <=> entries[i] = l,
         BroughtByOne(l), ReturnedByOne(l)
  PROVE  BroughtByOne(l)' /\ ReturnedByOne(l)'
<1>1. \A u \in Threads : u # t => pc'[u] = pc[u] /\ arg'[u] = arg[u] /\ id'[u] = id[u]
  BY DEF Moves
<1>2. arg'[t] # l BY DEF Moves
<1>3. BroughtByOne(l)'
  BY <1>1, <1>2 DEF BroughtByOne
<1>4. InTable(l)' <=> InTable(l)
  BY DEF InTable
<1>5. ReturnedByOne(l)'
  BY <1>1, <1>2, <1>4 DEF ReturnedByOne
<1> QED BY <1>3, <1>5

LEMMA QuietElsewhere ==
  ASSUME Types, LeaseLife, NEW t \in Threads, NEW where, NEW p, NEW n, Quiet(t, where, p, n),
         NEW l \in Leases, arg[t] # l, p # l
  PROVE  BroughtByOne(l)' /\ ReturnedByOne(l)'
  BY Elsewhere DEF Quiet, LeaseLife

(* What a thread that is about a lease knows of it: it brings it in alone,   *)
(* or the library has accepted it.                                           *)
LEMMA Bringing ==
  ASSUME NEW l \in Leases, BroughtByOne(l), NEW t \in Threads, arg[t] = l, pc[t] \in Inbound
  PROVE  /\ owner[l] = "caller" /\ back[l] = 0 /\ (armed[l] <=> pc[t] = "hand")
         /\ \A u \in Threads : u # t => arg[u] # l
         /\ \A i \in Ids : entries[i] = l => id[t] = i /\ pc[t] \in Published
  BY DEF BroughtByOne

LEMMA Accepted ==
  ASSUME Types, NEW l \in Leases, BroughtByOne(l), ReturnedByOne(l),
         \/ \E t \in Threads : arg[t] = l /\ pc[t] \notin Inbound
         \/ owner[l] # "caller"
  PROVE  /\ owner[l] = "library" /\ armed[l]
         /\ \A t \in Threads : arg[t] = l => pc[t] \notin Inbound
  BY DEF BroughtByOne, ReturnedByOne, Types, TypeOK

(* The two ways a lease's first half stays true.                             *)
LEMMA StaysBrought ==
  ASSUME NEW l \in Leases, NEW t \in Threads, arg'[t] = l, pc'[t] \in Inbound,
         owner'[l] = "caller", back'[l] = 0, armed'[l] <=> pc'[t] = "hand",
         \A u \in Threads : u # t => arg'[u] # l,
         \A i \in Ids : entries'[i] = l => id'[t] = i /\ pc'[t] \in Published
  PROVE  BroughtByOne(l)' /\ ReturnedByOne(l)'
<1>1. BroughtByOne(l)' BY DEF BroughtByOne
<1>2. ReturnedByOne(l)' BY DEF ReturnedByOne, Inbound
<1> QED BY <1>1, <1>2

LEMMA StaysAccepted ==
  ASSUME NEW l \in Leases, owner'[l] = "library",
         \A u \in Threads : arg'[u] = l => pc'[u] \notin Inbound
  PROVE  BroughtByOne(l)'
  BY DEF BroughtByOne

(* One more reader of an accepted lease that is in the table.                *)
LEMMA JoinsReaders ==
  ASSUME Types, NEW l \in Leases, BroughtByOne(l), ReturnedByOne(l), InTable(l),
         owner[l] # "caller", NEW t \in Threads, arg[t] = Nothing, Nothing \notin Leases,
         Quiet(t, "reading", l, 0)
  PROVE  BroughtByOne(l)' /\ ReturnedByOne(l)'
<1>1. \A u \in Threads : u # t => pc'[u] = pc[u] /\ arg'[u] = arg[u]
  BY DEF Quiet, Moves
<1>2. pc'[t] = "reading" /\ arg'[t] = l /\ UNCHANGED <<entries, owner, armed, back>>
  BY DEF Quiet, Moves
<1>3. /\ owner[l] = "library" /\ armed[l]
      /\ \A u \in Threads : arg[u] = l => pc[u] \notin Inbound
  BY Accepted
<1>4. BroughtByOne(l)'
  BY <1>1, <1>2, <1>3, StaysAccepted DEF Inbound
<1>5. InTable(l)'
  BY <1>2 DEF InTable
<1>6. back[l] = 0
  BY DEF ReturnedByOne, Types
<1>7. \A u \in Threads : arg'[u] = l => pc'[u] # "callback"
  BY <1>1, <1>2 DEF ReturnedByOne
<1>8. ReturnedByOne(l)'
  BY <1>2, <1>3, <1>5, <1>6, <1>7 DEF ReturnedByOne
<1> QED BY <1>4, <1>8

(* A thread that holds an accepted lease goes on holding it.                 *)
LEMMA KeepsHolding ==
  ASSUME Types, NEW l \in Leases, BroughtByOne(l), ReturnedByOne(l), NEW t \in Threads,
         arg[t] = l, pc[t] \in Holding, NEW n, Quiet(t, "dropping", l, n)
  PROVE  BroughtByOne(l)' /\ ReturnedByOne(l)'
<1>1. \A u \in Threads : u # t => pc'[u] = pc[u] /\ arg'[u] = arg[u]
  BY DEF Quiet, Moves
<1>2. pc'[t] = "dropping" /\ arg'[t] = l /\ UNCHANGED <<entries, owner, armed, back>>
  BY DEF Quiet, Moves
<1>3. /\ owner[l] = "library" /\ armed[l]
      /\ \A u \in Threads : arg[u] = l => pc[u] \notin Inbound
  BY Accepted DEF Holding, Inbound
<1>4. BroughtByOne(l)'
  BY <1>1, <1>2, <1>3, StaysAccepted DEF Inbound
<1>5. pc[t] \in Outbound /\ pc'[t] \in Outbound /\ pc[t] # "callback"
  BY <1>2 DEF Outbound, Holding
<1>6. InTable(l)' <=> InTable(l)
  BY <1>2 DEF InTable
<1>7. back[l] = 0
  BY <1>5 DEF ReturnedByOne, Types
<1>8. \A u \in Threads : arg'[u] = l => pc'[u] # "callback"
  BY <1>1, <1>2, <1>5 DEF ReturnedByOne
<1>9. ReturnedByOne(l)'
  BY <1>2, <1>3, <1>5, <1>7, <1>8 DEF ReturnedByOne
<1> QED BY <1>4, <1>9

-----------------------------------------------------------------------------
(* The steps.                                                                *)

LEMMA RejectedStep ==
  ASSUME RegistryInv, NEW t \in Threads, Rejected(t)
  PROVE  RegistryInv'
<1>0. Types /\ CallShape /\ NumbersFresh /\ EntryReachable /\ JobsHeld /\ LeaseLife
  BY DEF RegistryInv
<1>1. /\ pc[t] = "rejected" /\ arg[t] \in Leases /\ UNCHANGED <<lock, running>>
      /\ Quiet(t, "reserve", Error, 0)
  <2>1. pc[t] = "rejected" /\ arg[t] \in Leases BY <1>0 DEF Rejected, CallShape
  <2>2. ~armed[arg[t]]
    BY <1>0, <2>1 DEF LeaseLife, BroughtByOne, Inbound
  <2> QED BY <1>0, <2>1, <2>2, FailMoves DEF Rejected, Notifies, Quiet
<1>2. Types' /\ CallShape' /\ NumbersFresh' /\ EntryReachable'
  BY <1>0, <1>1, QuietKeeps, Kinds DEF Published, Types, TypeOK, CallShape
<1>3. JobsHeld'
  BY <1>1, QuietJobs DEF Quiet, Holding
<1>4. LeaseLife'
  <2> SUFFICES ASSUME NEW l \in Leases PROVE BroughtByOne(l)' /\ ReturnedByOne(l)'
    BY DEF LeaseLife
  <2>1. CASE arg[t] # l
    BY <1>0, <1>1, <2>1, QuietElsewhere, Kinds
  <2>2. CASE arg[t] = l
    <3>1. /\ owner[l] = "caller" /\ back[l] = 0 /\ ~armed[l]
          /\ \A u \in Threads : u # t => arg[u] # l
          /\ \A i \in Ids : entries[i] # l
      BY <1>0, <1>1, <2>2, Bringing DEF LeaseLife, Inbound, Published
    <3>2. \A u \in Threads : arg'[u] # l
      BY <1>1, <3>1, Kinds DEF Quiet, Moves
    <3> QED BY <1>1, <3>1, <3>2 DEF Quiet, BroughtByOne, ReturnedByOne
  <2> QED BY <2>1, <2>2
<1> QED BY <1>2, <1>3, <1>4 DEF RegistryInv

LEMMA ImportStep ==
  ASSUME RegistryInv, NEW t \in Threads, NEW l \in Leases, Import(t, l)
  PROVE  RegistryInv'
<1>0. Types /\ CallShape /\ NumbersFresh /\ EntryReachable /\ JobsHeld /\ LeaseLife
  BY DEF RegistryInv
<1> PICK where \in {"reserve", "rejected"} : Starts(t, where, l)
  BY DEF Import
<1>1. /\ pc[t] = "idle" /\ owner[l] = "caller" /\ \A u \in Threads : arg[u] # l
      /\ UNCHANGED <<lock, running>> /\ Quiet(t, where, l, 0)
  BY <1>0, StartMoves DEF Import, Quiet, States, Payloads, leaseVars
<1>2. Types' /\ CallShape' /\ NumbersFresh' /\ EntryReachable'
  BY <1>0, <1>1, QuietKeeps, Kinds DEF Published, Types, TypeOK, CallShape, Payloads
<1>3. JobsHeld'
  BY <1>1, QuietJobs DEF Quiet, Holding
<1>4. LeaseLife'
  <2> SUFFICES ASSUME NEW m \in Leases PROVE BroughtByOne(m)' /\ ReturnedByOne(m)'
    BY DEF LeaseLife
  <2>1. CASE l # m
    BY <1>0, <1>1, <2>1, QuietElsewhere, Kinds DEF CallShape, Payloads
  <2>2. CASE l = m
    <3>1. back[l] = 0 /\ ~armed[l] /\ \A i \in Ids : entries[i] # l
      BY <1>0, <1>1 DEF LeaseLife, BroughtByOne, Types, TypeOK
    <3>2. /\ pc'[t] \in {"reserve", "rejected"} /\ arg'[t] = l
          /\ \A u \in Threads : u # t => arg'[u] # l
      BY <1>1 DEF Quiet, Moves
    <3>3. owner'[l] = "caller" /\ back'[l] = 0 /\ ~armed'[l] /\ \A i \in Ids : entries'[i] # l
      BY <1>1, <3>1 DEF Quiet
    <3>4. pc'[t] \in Inbound /\ pc'[t] # "hand"
      BY <3>2 DEF Inbound
    <3> QED BY <2>2, <3>2, <3>3, <3>4, StaysBrought
  <2> QED BY <2>1, <2>2
<1> QED BY <1>2, <1>3, <1>4 DEF RegistryInv

LEMMA StartJobStep ==
  ASSUME RegistryInv, NEW t \in Threads, NEW j \in Jobs, StartJob(t, j)
  PROVE  RegistryInv'
<1>0. Types /\ CallShape /\ NumbersFresh /\ EntryReachable /\ JobsHeld /\ LeaseLife
  BY DEF RegistryInv
<1>1. /\ pc[t] = "idle" /\ arg[t] = Nothing /\ UNCHANGED <<lock, running>>
      /\ Quiet(t, "reserve", j, 0)
  BY <1>0, StartMoves DEF StartJob, Quiet, States, Payloads, leaseVars, CallShape
<1>2. Types' /\ CallShape' /\ NumbersFresh' /\ EntryReachable'
  BY <1>0, <1>1, QuietKeeps, Kinds DEF Published, Types, TypeOK, CallShape, Payloads
<1>3. JobsHeld'
  BY <1>1, QuietJobs DEF Quiet, Holding
<1>4. LeaseLife'
  <2>1. \A l \in Leases : arg[t] # l /\ j # l BY <1>1, Kinds DEF Payloads
  <2> QED BY <1>0, <1>1, <2>1, QuietElsewhere DEF LeaseLife
<1> QED BY <1>2, <1>3, <1>4 DEF RegistryInv

LEMMA ReserveStep ==
  ASSUME RegistryInv, NEW t \in Threads, Reserve(t)
  PROVE  RegistryInv'
<1>0. Types /\ CallShape /\ NumbersFresh /\ EntryReachable /\ JobsHeld /\ LeaseLife
  BY DEF RegistryInv
<1> DEFINE where == IF arg[t] \in Jobs THEN "admit" ELSE "publish"
<1>n. /\ pc[t] = "reserve" /\ next' = next + 1 /\ next + 1 \in 1 .. MaxId /\ next \in Nat
      /\ UNCHANGED <<entries, lock, handed, owner, armed, back, running>>
  BY <1>0, Kinds DEF Reserve, ReservesNext, Exhausted, leaseVars, Types, TypeOK
<1>1. Moves(t, where, arg[t], next + 1)
  <2>1. arg[t] \in Payloads \cup {Nothing} /\ arg = [arg EXCEPT ![t] = arg[t]]
    BY <1>0 DEF Types, TypeOK
  <2>2. where \in States BY DEF States
  <2>3. pc' = [pc EXCEPT ![t] = where] /\ arg' = arg /\ id' = [id EXCEPT ![t] = next + 1]
    BY DEF Reserve, ReservesNext, Goto
  <2>4. next + 1 \in 0 .. MaxId BY <1>n
  <2> HIDE DEF where
  <2> QED BY <1>0, <2>1, <2>2, <2>3, <2>4, Goes
<1>u. \A u \in Threads : u # t => pc'[u] = pc[u] /\ arg'[u] = arg[u] /\ id'[u] = id[u]
  BY <1>1 DEF Moves
<1>t. /\ pc'[t] \in {"admit", "publish"} /\ arg'[t] = arg[t] /\ id'[t] = next + 1
      /\ pc'[t] = "admit" => arg[t] \in Jobs
  BY <1>1 DEF Moves
<1>2. Types' /\ CallShape' /\ NumbersFresh' /\ EntryReachable'
  <2>1. ASSUME NEW u \in Threads, pc'[u] = "publish" PROVE id'[u] \in 1 .. next'
    BY <1>0, <1>n, <1>u, <1>t, <2>1 DEF Types, TypeOK
  <2>2. handed \subseteq 1 .. next' /\ next' \in 0 .. MaxId
    BY <1>0, <1>n, Kinds DEF Types, TypeOK
  <2>3. Types'
    BY <1>0, <1>1, <1>n, <2>1, <2>2 DEF Moves, Types, TypeOK
  <2>4. CallShape'
    BY <1>0, <1>n, <1>u, <1>t DEF CallShape, Published
  <2>5. /\ next + 1 \notin handed /\ entries[next + 1] = Nothing
        /\ \A u \in Threads : id[u] \in Nat /\ id[u] <= next
    BY <1>0, <1>n DEF Types, TypeOK, NumbersFresh, EntryReachable, Ids
  <2>6. NumbersFresh'
    BY <1>0, <1>n, <1>u, <1>t, <2>5 DEF NumbersFresh, Published
  <2>7. EntryReachable'
    BY <1>0, <1>n, <1>u DEF EntryReachable, Published
  <2> QED BY <2>3, <2>4, <2>6, <2>7
<1>3. JobsHeld'
  BY <1>1, <1>n, QuietJobs DEF Holding
<1>4. LeaseLife'
  <2> SUFFICES ASSUME NEW l \in Leases PROVE BroughtByOne(l)' /\ ReturnedByOne(l)'
    BY DEF LeaseLife
  <2>0. BroughtByOne(l) /\ ReturnedByOne(l)
    BY <1>0 DEF LeaseLife
  <2>1. CASE arg[t] # l
    BY <1>0, <1>1, <1>n, <2>0, <2>1, Elsewhere
  <2>2. CASE arg[t] = l
    <3>1. /\ owner[l] = "caller" /\ back[l] = 0 /\ ~armed[l]
          /\ \A u \in Threads : u # t => arg[u] # l
          /\ \A i \in Ids : entries[i] # l
      BY <1>n, <2>0, <2>2, Bringing DEF Inbound, Published
    <3>2. pc'[t] = "publish" /\ pc'[t] \in Inbound
      BY <1>t, <2>2, Kinds DEF Inbound
    <3> QED BY <1>n, <1>u, <1>t, <2>2, <3>1, <3>2, StaysBrought
  <2> QED BY <2>1, <2>2
<1> QED BY <1>2, <1>3, <1>4 DEF RegistryInv

LEMMA ReserveFailsStep ==
  ASSUME RegistryInv, NEW t \in Threads, ReserveFails(t)
  PROVE  RegistryInv'
<1>0. Types /\ CallShape /\ NumbersFresh /\ EntryReachable /\ JobsHeld /\ LeaseLife
  BY DEF RegistryInv
<1>r. pc[t] = "reserve" /\ id[t] = 0 /\ UNCHANGED <<lock, running>>
  BY <1>0 DEF ReserveFails, CallShape, Published
<1>1. CASE arg[t] = Error
  <2>1. Quiet(t, "idle", Nothing, 0)
    BY <1>0, <1>1, EndMoves, Kinds DEF ReserveFails, Quiet, leaseVars
  <2>2. Types' /\ CallShape' /\ NumbersFresh' /\ EntryReachable'
    BY <1>0, <1>r, <2>1, QuietKeeps DEF Published, Types, TypeOK, CallShape
  <2>3. JobsHeld'
    BY <1>r, <2>1, QuietJobs DEF Quiet, Holding
  <2>4. \A l \in Leases : arg[t] # l /\ Nothing # l BY <1>1, Kinds DEF Payloads
  <2> QED BY <1>0, <2>1, <2>2, <2>3, <2>4, QuietElsewhere DEF LeaseLife, RegistryInv
<1>2. CASE arg[t] \in Leases
  <2>1. Quiet(t, "rejected", arg[t], id[t])
    BY <1>0, <1>2, GoesOn, Kinds DEF ReserveFails, Quiet, leaseVars, States
  <2>2. Types' /\ CallShape' /\ NumbersFresh' /\ EntryReachable'
    BY <1>0, <1>r, <1>2, <2>1, QuietKeeps, Kinds DEF Published, Types, TypeOK, CallShape,
       Payloads
  <2>3. JobsHeld'
    BY <1>r, <2>1, QuietJobs DEF Quiet, Holding
  <2>4. ASSUME NEW l \in Leases PROVE BroughtByOne(l)' /\ ReturnedByOne(l)'
    <3>1. CASE arg[t] # l
      BY <1>0, <2>1, <3>1, QuietElsewhere
    <3>2. CASE arg[t] = l
      <4>1. /\ owner[l] = "caller" /\ back[l] = 0 /\ ~armed[l]
            /\ \A u \in Threads : u # t => arg[u] # l
            /\ \A i \in Ids : entries[i] # l
        BY <1>0, <1>r, <3>2, Bringing DEF LeaseLife, Inbound, Published
      <4>2. /\ pc'[t] = "rejected" /\ pc'[t] \in Inbound /\ arg'[t] = l
            /\ \A u \in Threads : u # t => arg'[u] # l
        BY <2>1, <3>2, <4>1 DEF Quiet, Moves, Inbound
      <4>3. UNCHANGED <<entries, owner, armed, back>>
        BY <2>1 DEF Quiet
      <4> QED BY <4>1, <4>2, <4>3, StaysBrought
    <3> QED BY <3>1, <3>2
  <2> QED BY <2>2, <2>3, <2>4 DEF LeaseLife, RegistryInv
<1>3. CASE arg[t] \notin Leases \cup {Error}
  <2>1. Quiet(t, "reserve", Error, 0)
    BY <1>0, <1>3, FailMoves DEF ReserveFails, Quiet, leaseVars
  <2>2. Types' /\ CallShape' /\ NumbersFresh' /\ EntryReachable'
    BY <1>0, <1>r, <2>1, QuietKeeps, Kinds DEF Published, Types, TypeOK, CallShape
  <2>3. JobsHeld'
    BY <1>r, <2>1, QuietJobs DEF Quiet, Holding
  <2>4. \A l \in Leases : arg[t] # l /\ Error # l BY <1>3, Kinds
  <2> QED BY <1>0, <2>1, <2>2, <2>3, <2>4, QuietElsewhere DEF LeaseLife, RegistryInv
<1> QED BY <1>1, <1>2, <1>3

LEMMA AdmitStep ==
  ASSUME RegistryInv, NEW t \in Threads, Admit(t)
  PROVE  RegistryInv'
<1>0. Types /\ CallShape /\ NumbersFresh /\ EntryReachable /\ JobsHeld /\ LeaseLife
  BY DEF RegistryInv
<1>j. /\ pc[t] = "admit" /\ arg[t] \in Jobs /\ id[t] # 0 /\ lock' = lock
      /\ \A l \in Leases : arg[t] # l
  BY <1>0, Kinds DEF Admit, CallShape
<1>1. CASE running' = running \cup {arg[t]} /\ Goto(t, "publish") /\ UNCHANGED <<arg, id>>
  <2>1. Quiet(t, "publish", arg[t], id[t])
    BY <1>0, <1>1, GoesOn DEF Admit, Quiet, leaseVars, States
  <2>2. Types' /\ CallShape' /\ NumbersFresh' /\ EntryReachable'
    <3>1. running' \subseteq Jobs BY <1>0, <1>1, <1>j DEF Types, TypeOK
    <3> QED BY <1>0, <1>j, <2>1, <3>1, QuietKeeps, Kinds DEF Published, Types, TypeOK,
               CallShape, Payloads
  <2>3. JobsHeld'
    <3>1. entries' = entries /\ pc'[t] = "publish" /\ arg'[t] = arg[t]
      BY <2>1 DEF Quiet, Moves
    <3>2. \A u \in Threads : u # t => pc'[u] = pc[u] /\ arg'[u] = arg[u]
      BY <2>1 DEF Quiet, Moves
    <3> QED BY <1>0, <1>1, <1>j, <3>1, <3>2 DEF JobsHeld, InTable, Holding
  <2> QED BY <1>0, <1>j, <2>1, <2>2, <2>3, QuietElsewhere DEF LeaseLife, RegistryInv
<1>2. CASE Fails(t) /\ UNCHANGED running
  <2>1. Quiet(t, "reserve", Error, 0)
    BY <1>0, <1>2, FailMoves DEF Admit, Quiet, leaseVars
  <2>2. Types' /\ CallShape' /\ NumbersFresh' /\ EntryReachable'
    BY <1>0, <1>2, <1>j, <2>1, QuietKeeps, Kinds DEF Published, Types, TypeOK, CallShape
  <2>3. JobsHeld'
    BY <1>2, <1>j, <2>1, QuietJobs DEF Quiet, Holding
  <2>4. \A l \in Leases : Error # l BY Kinds
  <2> QED BY <1>0, <1>j, <2>1, <2>2, <2>3, <2>4, QuietElsewhere DEF LeaseLife, RegistryInv
<1> QED BY <1>1, <1>2 DEF Admit

LEMMA PublishStep ==
  ASSUME RegistryInv, NEW t \in Threads, Publish(t)
  PROVE  RegistryInv'
<1>0. Types /\ CallShape /\ NumbersFresh /\ EntryReachable /\ JobsHeld /\ LeaseLife
  BY DEF RegistryInv
<1> DEFINE where == IF arg[t] \in Leases THEN "arm" ELSE "hand"
<1>p. /\ pc[t] = "publish" /\ arg[t] # Nothing /\ id[t] # 0 /\ id[t] \in Ids
      /\ entries[id[t]] = Nothing
      /\ UNCHANGED <<next, lock, handed, owner, armed, back, running>>
  BY <1>0, Kinds DEF Publish, leaseVars, Types, TypeOK, CallShape, NumbersFresh, Ids
<1>1. Moves(t, where, arg[t], id[t])
  BY <1>0, GoesOn DEF Publish, States
<1>e. /\ entries' \in [Ids -> Payloads \cup {Nothing}] /\ entries'[id[t]] = arg[t]
      /\ \A i \in Ids : i # id[t] => entries'[i] = entries[i]
  BY <1>0, <1>p DEF Publish, Types, TypeOK
<1>u. \A u \in Threads : u # t => pc'[u] = pc[u] /\ arg'[u] = arg[u] /\ id'[u] = id[u]
  BY <1>1 DEF Moves
<1>t. pc'[t] = where /\ arg'[t] = arg[t] /\ id'[t] = id[t]
  BY <1>1 DEF Moves
<1>2. Types' /\ CallShape' /\ NumbersFresh' /\ EntryReachable'
  <2>1. ASSUME NEW u \in Threads, pc'[u] = "publish" PROVE id'[u] \in 1 .. next'
    BY <1>0, <1>p, <1>u, <1>t, <2>1 DEF Types, TypeOK
  <2>3. Types'
    BY <1>0, <1>1, <1>p, <1>e, <2>1 DEF Moves, Types, TypeOK
  <2>4. CallShape'
    BY <1>0, <1>p, <1>u, <1>t DEF CallShape, Published
  <2>5. \A u \in Threads : pc[u] \in {"admit", "publish"} \cup Published => id[u] \in Ids
    BY <1>0, Kinds DEF Types, TypeOK, CallShape, Ids
  <2>6. NumbersFresh'
    <3> SUFFICES ASSUME NEW u \in Threads
                 PROVE  /\ id'[u] <= next' /\ id'[u] \notin handed'
                        /\ \A v \in Threads : u # v /\ id'[u] # 0 => id'[u] # id'[v]
                        /\ pc'[u] \in {"admit", "publish"} => entries'[id'[u]] = Nothing
                        /\ pc'[u] \in Published => entries'[id'[u]] = arg'[u]
      BY DEF NumbersFresh
    <3>1. id' = id BY <1>0, <1>u, <1>t, <1>1 DEF Types, TypeOK, Moves
    <3>2. /\ id'[u] <= next' /\ id'[u] \notin handed'
          /\ \A v \in Threads : u # v /\ id'[u] # 0 => id'[u] # id'[v]
      BY <1>0, <1>p, <3>1 DEF NumbersFresh
    <3>3. CASE u = t
      BY <1>p, <1>e, <1>t, <3>2, <3>3 DEF Published
    <3>4. CASE u # t
      <4>1. pc[u] \in {"admit", "publish"} \cup Published => entries'[id[u]] = entries[id[u]]
        BY <1>0, <1>p, <1>e, <2>5, <3>4 DEF NumbersFresh
      <4> QED BY <1>0, <1>u, <3>1, <3>2, <3>4, <4>1 DEF NumbersFresh
    <3> QED BY <3>3, <3>4
  <2>7. EntryReachable'
    <3>1. pc'[t] \in Published BY <1>t DEF Published
    <3> QED BY <1>0, <1>p, <1>e, <1>u, <1>t, <3>1 DEF EntryReachable, Published
  <2> QED BY <2>3, <2>4, <2>6, <2>7
<1>3. JobsHeld'
  <2> SUFFICES ASSUME NEW j \in running
               PROVE  \/ \E i \in Ids : entries'[i] = j
                      \/ \E u \in Threads : arg'[u] = j /\ pc'[u] \in Holding \cup {"publish"}
    BY <1>p DEF JobsHeld, InTable
  <2>0. j # Nothing BY <1>0, Kinds DEF Types, TypeOK, Payloads
  <2>1. CASE arg[t] = j
    BY <1>e, <1>p, <2>1
  <2>2. CASE arg[t] # j
    BY <1>0, <1>e, <1>p, <1>u, <2>0, <2>2 DEF JobsHeld, InTable
  <2> QED BY <2>1, <2>2
<1>4. LeaseLife'
  <2> SUFFICES ASSUME NEW l \in Leases PROVE BroughtByOne(l)' /\ ReturnedByOne(l)'
    BY DEF LeaseLife
  <2>0. BroughtByOne(l) /\ ReturnedByOne(l)
    BY <1>0 DEF LeaseLife
  <2>1. CASE arg[t] # l
    BY <1>0, <1>1, <1>p, <1>e, <2>0, <2>1, Elsewhere, Kinds DEF Payloads
  <2>2. CASE arg[t] = l
    <3>1. /\ owner[l] = "caller" /\ back[l] = 0 /\ ~armed[l]
          /\ \A u \in Threads : u # t => arg[u] # l
          /\ \A i \in Ids : entries[i] # l
      BY <1>p, <2>0, <2>2, Bringing DEF Inbound, Published
    <3>2. pc'[t] = "arm" /\ pc'[t] \in Inbound /\ pc'[t] \in Published
      BY <1>t, <2>2 DEF Inbound, Published
    <3>3. \A i \in Ids : entries'[i] = l => id'[t] = i
      BY <1>e, <1>t, <3>1
    <3> QED BY <1>p, <1>u, <1>t, <2>2, <3>1, <3>2, <3>3, StaysBrought
  <2> QED BY <2>1, <2>2
<1> QED BY <1>2, <1>3, <1>4 DEF RegistryInv

LEMMA ArmStep ==
  ASSUME RegistryInv, NEW t \in Threads, Arm(t)
  PROVE  RegistryInv'
<1>0. Types /\ CallShape /\ NumbersFresh /\ EntryReachable /\ JobsHeld /\ LeaseLife
  BY DEF RegistryInv
<1>p. /\ pc[t] = "arm" /\ arg[t] \in Leases /\ id[t] # 0
      /\ UNCHANGED <<next, entries, lock, handed, owner, back, running>>
  BY <1>0 DEF Arm, CallShape, Published
<1>1. Moves(t, "hand", arg[t], id[t])
  BY <1>0, GoesOn DEF Arm, States
<1>a. /\ armed' \in [Leases -> BOOLEAN] /\ armed'[arg[t]]
      /\ \A l \in Leases : l # arg[t] => armed'[l] = armed[l]
  BY <1>0, <1>p DEF Arm, Types, TypeOK
<1>u. \A u \in Threads : u # t => pc'[u] = pc[u] /\ arg'[u] = arg[u] /\ id'[u] = id[u]
  BY <1>1 DEF Moves
<1>t. pc'[t] = "hand" /\ arg'[t] = arg[t] /\ id'[t] = id[t]
  BY <1>1 DEF Moves
<1>2. Types' /\ CallShape' /\ NumbersFresh' /\ EntryReachable'
  <2>1. ASSUME NEW u \in Threads, pc'[u] = "publish" PROVE id'[u] \in 1 .. next'
    BY <1>0, <1>p, <1>u, <1>t, <2>1 DEF Types, TypeOK
  <2>2. Types'
    BY <1>0, <1>1, <1>p, <1>a, <2>1 DEF Moves, Types, TypeOK
  <2>3. CallShape'
    BY <1>0, <1>p, <1>u, <1>t, Kinds DEF CallShape, Published, Payloads
  <2>4. NumbersFresh'
    BY <1>0, <1>p, <1>u, <1>t DEF NumbersFresh, Published
  <2>5. EntryReachable'
    BY <1>0, <1>p, <1>u, <1>t DEF EntryReachable, Published
  <2> QED BY <2>2, <2>3, <2>4, <2>5
<1>3. JobsHeld'
  BY <1>1, <1>p, QuietJobs DEF Holding
<1>4. LeaseLife'
  <2> SUFFICES ASSUME NEW l \in Leases PROVE BroughtByOne(l)' /\ ReturnedByOne(l)'
    BY DEF LeaseLife
  <2>0. BroughtByOne(l) /\ ReturnedByOne(l)
    BY <1>0 DEF LeaseLife
  <2>1. CASE arg[t] # l
    BY <1>0, <1>1, <1>p, <1>a, <2>0, <2>1, Elsewhere
  <2>2. CASE arg[t] = l
    <3>1. /\ owner[l] = "caller" /\ back[l] = 0
          /\ \A u \in Threads : u # t => arg[u] # l
          /\ \A i \in Ids : entries[i] = l => id[t] = i
      BY <1>p, <2>0, <2>2, Bringing DEF Inbound
    <3>2. pc'[t] \in Inbound /\ pc'[t] \in Published
      BY <1>t DEF Inbound, Published
    <3> QED BY <1>p, <1>a, <1>u, <1>t, <2>2, <3>1, <3>2, StaysBrought
  <2> QED BY <2>1, <2>2
<1> QED BY <1>2, <1>3, <1>4 DEF RegistryInv

LEMMA HandOverStep ==
  ASSUME RegistryInv, NEW t \in Threads, HandOver(t)
  PROVE  RegistryInv'
<1>0. Types /\ CallShape /\ NumbersFresh /\ EntryReachable /\ JobsHeld /\ LeaseLife
  BY DEF RegistryInv
<1>p. /\ pc[t] = "hand" /\ id[t] # 0 /\ entries[id[t]] = arg[t] /\ arg[t] # Nothing
      /\ handed' = handed \cup {id[t]} /\ id[t] \in 1 .. next
      /\ UNCHANGED <<next, entries, lock, armed, back, running>>
  BY <1>0, Kinds DEF HandOver, CallShape, NumbersFresh, Published, Types, TypeOK
<1>1. Moves(t, "idle", Nothing, 0)
  BY <1>0, EndMoves DEF HandOver
<1>o. /\ owner' \in [Leases -> {"caller", "library"}]
      /\ \A l \in Leases : owner'[l] = IF l = arg[t] THEN "library" ELSE owner[l]
  BY <1>0 DEF HandOver, Types, TypeOK
<1>u. \A u \in Threads : u # t => pc'[u] = pc[u] /\ arg'[u] = arg[u] /\ id'[u] = id[u]
  BY <1>1 DEF Moves
<1>t. pc'[t] = "idle" /\ arg'[t] = Nothing /\ id'[t] = 0
  BY <1>1 DEF Moves
<1>2. Types' /\ CallShape' /\ NumbersFresh' /\ EntryReachable'
  <2>1. ASSUME NEW u \in Threads, pc'[u] = "publish" PROVE id'[u] \in 1 .. next'
    BY <1>0, <1>p, <1>u, <1>t, <2>1 DEF Types, TypeOK
  <2>2. handed' \subseteq 1 .. next'
    BY <1>0, <1>p DEF Types, TypeOK
  <2>3. Types'
    BY <1>0, <1>1, <1>p, <1>o, <2>1, <2>2 DEF Moves, Types, TypeOK
  <2>4. CallShape'
    BY <1>0, <1>p, <1>u, <1>t DEF CallShape, Published
  <2>5. 0 \notin handed' /\ 0 <= next'
    BY <1>0, <1>p, <2>2, Kinds DEF Types, TypeOK
  <2>6. NumbersFresh'
    BY <1>0, <1>p, <1>u, <1>t, <2>5 DEF NumbersFresh, Published
  <2>7. EntryReachable'
    BY <1>0, <1>p, <1>u DEF EntryReachable
  <2> QED BY <2>3, <2>4, <2>6, <2>7
<1>3. JobsHeld'
  BY <1>1, <1>p, QuietJobs DEF Holding
<1>4. LeaseLife'
  <2> SUFFICES ASSUME NEW l \in Leases PROVE BroughtByOne(l)' /\ ReturnedByOne(l)'
    BY DEF LeaseLife
  <2>0. BroughtByOne(l) /\ ReturnedByOne(l)
    BY <1>0 DEF LeaseLife
  <2>1. CASE arg[t] # l
    BY <1>0, <1>1, <1>p, <1>o, <2>0, <2>1, Elsewhere, Kinds DEF Payloads
  <2>2. CASE arg[t] = l
    <3>1. /\ back[l] = 0 /\ armed[l] /\ \A u \in Threads : u # t => arg[u] # l
      BY <1>p, <2>0, <2>2, Bringing DEF Inbound
    <3>2. \A u \in Threads : arg'[u] # l
      BY <1>u, <1>t, <3>1, Kinds DEF Payloads
    <3>3. InTable(l)' /\ owner'[l] = "library"
      BY <1>0, <1>p, <1>o, <2>2, Kinds DEF InTable, Ids, Types, TypeOK
    <3>4. BroughtByOne(l)'
      BY <3>2, <3>3 DEF BroughtByOne
    <3>5. ReturnedByOne(l)'
      BY <1>p, <3>1, <3>2, <3>3 DEF ReturnedByOne
    <3> QED BY <3>4, <3>5
  <2> QED BY <2>1, <2>2
<1> QED BY <1>2, <1>3, <1>4 DEF RegistryInv

LEMMA GetStep ==
  ASSUME RegistryInv, NEW t \in Threads, NEW i \in handed, Get(t, i)
  PROVE  RegistryInv'
<1>0. Types /\ CallShape /\ NumbersFresh /\ EntryReachable /\ JobsHeld /\ LeaseLife
  BY DEF RegistryInv
<1>i. i \in Ids /\ entries[i] \in Leases \cup Jobs
  BY <1>0, Kinds DEF Get, Types, TypeOK, Ids
<1>1. /\ pc[t] = "idle" /\ arg[t] = Nothing /\ UNCHANGED <<lock, running>>
      /\ Quiet(t, "reading", entries[i], 0)
  BY <1>0, <1>i, StartMoves DEF Get, Quiet, States, Payloads, leaseVars, CallShape
<1>2. Types' /\ CallShape' /\ NumbersFresh' /\ EntryReachable'
  BY <1>0, <1>i, <1>1, QuietKeeps, Kinds DEF Published, Types, TypeOK, CallShape, Payloads
<1>3. JobsHeld'
  BY <1>1, QuietJobs DEF Quiet, Holding
<1>4. LeaseLife'
  <2> SUFFICES ASSUME NEW l \in Leases PROVE BroughtByOne(l)' /\ ReturnedByOne(l)'
    BY DEF LeaseLife
  <2>0. BroughtByOne(l) /\ ReturnedByOne(l)
    BY <1>0 DEF LeaseLife
  <2>1. CASE entries[i] # l
    BY <1>0, <1>1, <2>1, QuietElsewhere, Kinds DEF Payloads
  <2>2. CASE entries[i] = l
    <3>1. InTable(l) /\ owner[l] # "caller"
      BY <1>0, <1>i, <2>0, <2>2 DEF InTable, BroughtByOne, NumbersFresh
    <3> QED BY <1>0, <1>1, <2>0, <2>2, <3>1, JoinsReaders, Kinds DEF Payloads
  <2> QED BY <2>1, <2>2
<1> QED BY <1>2, <1>3, <1>4 DEF RegistryInv

LEMMA GetStaleStep ==
  ASSUME RegistryInv, NEW t \in Threads, NEW i \in handed, GetStale(t, i)
  PROVE  RegistryInv'
<1>0. Types /\ CallShape /\ NumbersFresh /\ EntryReachable /\ JobsHeld /\ LeaseLife
  BY DEF RegistryInv
<1>1. /\ pc[t] = "idle" /\ arg[t] = Nothing /\ UNCHANGED <<lock, running>>
      /\ Quiet(t, "reserve", Error, 0)
  BY <1>0, FailMoves DEF GetStale, Quiet, leaseVars, CallShape
<1>2. Types' /\ CallShape' /\ NumbersFresh' /\ EntryReachable'
  BY <1>0, <1>1, QuietKeeps, Kinds DEF Published, Types, TypeOK, CallShape, Payloads
<1>3. JobsHeld'
  BY <1>1, QuietJobs DEF Quiet, Holding
<1>4. LeaseLife'
  <2>1. \A l \in Leases : arg[t] # l /\ Error # l BY <1>1, Kinds DEF Payloads
  <2> QED BY <1>0, <1>1, <2>1, QuietElsewhere DEF LeaseLife
<1> QED BY <1>2, <1>3, <1>4 DEF RegistryInv

LEMMA ReadEndsStep ==
  ASSUME RegistryInv, NEW t \in Threads, ReadEnds(t)
  PROVE  RegistryInv'
<1>0. Types /\ CallShape /\ NumbersFresh /\ EntryReachable /\ JobsHeld /\ LeaseLife
  BY DEF RegistryInv
<1>1. /\ pc[t] = "reading" /\ arg[t] # Nothing /\ id[t] = 0 /\ lock' = lock /\ running' = running
      /\ Quiet(t, "dropping", arg[t], id[t])
  BY <1>0, GoesOn DEF ReadEnds, Quiet, leaseVars, States, CallShape, Published
<1>2. Types' /\ CallShape' /\ NumbersFresh' /\ EntryReachable'
  BY <1>0, <1>1, QuietKeeps, Kinds DEF Published, Types, TypeOK, CallShape, Payloads
<1>3. JobsHeld'
  BY <1>1, QuietJobs DEF Quiet, Holding
<1>4. LeaseLife'
  <2> SUFFICES ASSUME NEW l \in Leases PROVE BroughtByOne(l)' /\ ReturnedByOne(l)'
    BY DEF LeaseLife
  <2>0. BroughtByOne(l) /\ ReturnedByOne(l)
    BY <1>0 DEF LeaseLife
  <2>1. CASE arg[t] # l
    BY <1>0, <1>1, <2>1, QuietElsewhere
  <2>2. CASE arg[t] = l
    BY <1>0, <1>1, <2>0, <2>2, KeepsHolding DEF Holding
  <2> QED BY <2>1, <2>2
<1> QED BY <1>2, <1>3, <1>4 DEF RegistryInv

LEMMA UnlockStep ==
  ASSUME RegistryInv, NEW t \in Threads, Unlock(t)
  PROVE  RegistryInv'
<1>0. Types /\ CallShape /\ NumbersFresh /\ EntryReachable /\ JobsHeld /\ LeaseLife
  BY DEF RegistryInv
<1>1. /\ pc[t] = "removed" /\ arg[t] # Nothing /\ id[t] = 0 /\ lock' = Nothing /\ running' = running
      /\ Quiet(t, "dropping", arg[t], id[t])
  BY <1>0, GoesOn DEF Unlock, Unlocks, Quiet, leaseVars, States, CallShape, Published
<1>2. Types' /\ CallShape' /\ NumbersFresh' /\ EntryReachable'
  BY <1>0, <1>1, QuietKeeps, Kinds DEF Published, Types, TypeOK, CallShape, Payloads
<1>3. JobsHeld'
  BY <1>1, QuietJobs DEF Quiet, Holding
<1>4. LeaseLife'
  <2> SUFFICES ASSUME NEW l \in Leases PROVE BroughtByOne(l)' /\ ReturnedByOne(l)'
    BY DEF LeaseLife
  <2>0. BroughtByOne(l) /\ ReturnedByOne(l)
    BY <1>0 DEF LeaseLife
  <2>1. CASE arg[t] # l
    BY <1>0, <1>1, <2>1, QuietElsewhere
  <2>2. CASE arg[t] = l
    BY <1>0, <1>1, <2>0, <2>2, KeepsHolding DEF Holding
  <2> QED BY <2>1, <2>2
<1> QED BY <1>2, <1>3, <1>4 DEF RegistryInv

LEMMA ReleaseStep ==
  ASSUME RegistryInv, NEW t \in Threads, NEW i \in handed, Release(t, i)
  PROVE  RegistryInv'
<1>0. Types /\ CallShape /\ NumbersFresh /\ EntryReachable /\ JobsHeld /\ LeaseLife
  BY DEF RegistryInv
<1>n. i \in Ids /\ entries[i] \in Payloads
  <2>1. i \in Ids /\ entries[i] \in Payloads \cup {Nothing}
    BY <1>0, Kinds DEF Types, TypeOK, Ids
  <2> QED BY <2>1 DEF Release
<1>p. /\ pc[t] = "idle" /\ arg[t] = Nothing /\ id[t] = 0 /\ lock = Nothing /\ lock' = t
      /\ UNCHANGED <<next, handed, owner, armed, back, running>>
  BY <1>0 DEF Release, Starts, CallShape, Published, leaseVars
<1>1. Moves(t, "removed", entries[i], 0)
  BY <1>0, <1>n, StartMoves DEF Release, States
<1>e. /\ entries' \in [Ids -> Payloads \cup {Nothing}] /\ entries'[i] = Nothing
      /\ \A k \in Ids : k # i => entries'[k] = entries[k]
  BY <1>0, <1>n DEF Release, Types, TypeOK
<1>u. \A u \in Threads : u # t => pc'[u] = pc[u] /\ arg'[u] = arg[u] /\ id'[u] = id[u]
  BY <1>1 DEF Moves
<1>t. pc'[t] = "removed" /\ arg'[t] = entries[i] /\ id'[t] = 0
  BY <1>1 DEF Moves
<1>2. Types' /\ CallShape' /\ NumbersFresh' /\ EntryReachable'
  <2>1. ASSUME NEW u \in Threads, pc'[u] = "publish" PROVE id'[u] \in 1 .. next'
    BY <1>0, <1>p, <1>u, <1>t, <2>1 DEF Types, TypeOK
  <2>2. Types'
    BY <1>0, <1>1, <1>p, <1>e, <2>1 DEF Moves, Types, TypeOK
  <2>3. CallShape'
    BY <1>0, <1>n, <1>p, <1>u, <1>t, Kinds DEF CallShape, Published
  <2>4. \A u \in Threads :
           pc[u] \in {"admit", "publish"} \cup Published => id[u] \in Ids /\ id[u] # i
    BY <1>0, Kinds DEF Types, TypeOK, CallShape, NumbersFresh, Ids
  <2>5. NumbersFresh'
    BY <1>0, <1>p, <1>e, <1>u, <1>t, <2>4 DEF NumbersFresh, Published
  <2>6. EntryReachable'
    BY <1>0, <1>p, <1>e, <1>u, <1>t DEF EntryReachable, Published
  <2> QED BY <2>2, <2>3, <2>5, <2>6
<1>3. JobsHeld'
  <2> SUFFICES ASSUME NEW j \in running
               PROVE  \/ \E k \in Ids : entries'[k] = j
                      \/ \E u \in Threads : arg'[u] = j /\ pc'[u] \in Holding \cup {"publish"}
    BY <1>p DEF JobsHeld, InTable
  <2>1. CASE entries[i] = j
    BY <1>t, <2>1 DEF Holding
  <2>2. CASE entries[i] # j
    <3>1. CASE InTable(j)
      BY <1>e, <2>2, <3>1 DEF InTable
    <3>2. CASE \E u \in Threads : arg[u] = j /\ pc[u] \in Holding \cup {"publish"}
      BY <1>p, <1>u, <3>2 DEF Holding
    <3> QED BY <1>0, <3>1, <3>2 DEF JobsHeld
  <2> QED BY <2>1, <2>2
<1>4. LeaseLife'
  <2> SUFFICES ASSUME NEW l \in Leases PROVE BroughtByOne(l)' /\ ReturnedByOne(l)'
    BY DEF LeaseLife
  <2>0. BroughtByOne(l) /\ ReturnedByOne(l)
    BY <1>0 DEF LeaseLife
  <2>1. CASE entries[i] # l
    BY <1>0, <1>1, <1>n, <1>p, <1>e, <2>0, <2>1, Elsewhere, Kinds DEF Payloads
  <2>2. CASE entries[i] = l
    <3>1. InTable(l) /\ owner[l] # "caller"
      BY <1>0, <1>n, <2>0, <2>2 DEF InTable, BroughtByOne, NumbersFresh
    <3>2. /\ owner[l] = "library" /\ armed[l]
          /\ \A u \in Threads : arg[u] = l => pc[u] \notin Inbound
      BY <1>0, <2>0, <3>1, Accepted
    <3>3. BroughtByOne(l)'
      BY <1>p, <1>u, <1>t, <3>2, StaysAccepted DEF Inbound
    <3>4. back[l] = 0
      BY <1>0, <2>0, <3>1 DEF ReturnedByOne, Types
    <3>5. \A u \in Threads : arg'[u] = l => pc'[u] # "callback"
      BY <1>u, <1>t, <2>0, <3>1 DEF ReturnedByOne
    <3>6. arg'[t] = l /\ pc'[t] \in Outbound
      BY <1>t, <2>2 DEF Outbound, Holding
    <3>7. ReturnedByOne(l)'
      BY <1>p, <3>2, <3>4, <3>5, <3>6 DEF ReturnedByOne
    <3> QED BY <3>3, <3>7
  <2> QED BY <2>1, <2>2
<1> QED BY <1>2, <1>3, <1>4 DEF RegistryInv

LEMMA DropStep ==
  ASSUME RegistryInv, NEW t \in Threads, Drop(t)
  PROVE  RegistryInv'
<1>0. Types /\ CallShape /\ NumbersFresh /\ EntryReachable /\ JobsHeld /\ LeaseLife
  BY DEF RegistryInv
<1>d. pc[t] = "dropping" /\ arg[t] # Nothing /\ id[t] = 0 /\ lock' = lock
  BY <1>0 DEF Drop, CallShape, Published
<1>1. CASE arg[t] \in Leases /\ ~Survives(t)
  <2>1. Quiet(t, "callback", arg[t], id[t]) /\ running' = running
    BY <1>0, <1>1, GoesOn DEF Drop, Quiet, leaseVars, States
  <2>2. Types' /\ CallShape' /\ NumbersFresh' /\ EntryReachable'
    BY <1>0, <1>1, <1>d, <2>1, QuietKeeps, Kinds DEF Published, Types, TypeOK, CallShape
  <2>3. JobsHeld'
    BY <1>1, <2>1, QuietJobs, Kinds DEF Quiet
  <2>4. ASSUME NEW l \in Leases PROVE BroughtByOne(l)' /\ ReturnedByOne(l)'
    <3>0. BroughtByOne(l) /\ ReturnedByOne(l) BY <1>0 DEF LeaseLife
    <3>1. CASE arg[t] # l
      BY <1>0, <2>1, <3>1, QuietElsewhere
    <3>2. CASE arg[t] = l
      <4>1. ~InTable(l) /\ \A u \in Threads : u # t /\ arg[u] = l => pc[u] \notin Holding
        BY <1>1, <3>2 DEF Survives, LastHolder
      <4>2. /\ owner[l] = "library" /\ armed[l]
            /\ \A u \in Threads : arg[u] = l => pc[u] \notin Inbound
        BY <1>0, <1>d, <3>0, <3>2, Accepted DEF Inbound
      <4>3. back[l] = 0 /\ \A u \in Threads : arg[u] = l => pc[u] # "callback"
        BY <1>0, <1>d, <3>0, <3>2 DEF ReturnedByOne, Types, Outbound, Holding
      <4>4. \A u \in Threads : u # t => pc'[u] = pc[u] /\ arg'[u] = arg[u]
        BY <2>1 DEF Quiet, Moves
      <4>5. pc'[t] = "callback" /\ arg'[t] = l /\ UNCHANGED <<entries, owner, armed, back>>
        BY <2>1, <3>2 DEF Quiet, Moves
      <4>6. BroughtByOne(l)'
        BY <4>2, <4>4, <4>5, StaysAccepted DEF Inbound
      <4>7. ~InTable(l)' BY <4>1, <4>5 DEF InTable
      <4>8. \A u \in Threads : arg'[u] = l /\ pc'[u] \in Outbound => u = t
        BY <4>1, <4>3, <4>4 DEF Outbound
      <4>9. ReturnedByOne(l)'
        BY <4>2, <4>3, <4>5, <4>7, <4>8 DEF ReturnedByOne, Outbound
      <4> QED BY <4>6, <4>9
    <3> QED BY <3>1, <3>2
  <2> QED BY <2>2, <2>3, <2>4 DEF LeaseLife, RegistryInv
<1>2. CASE arg[t] \notin Leases \/ Survives(t)
  <2>1. /\ Quiet(t, "idle", Nothing, 0)
        /\ running' = IF Survives(t) THEN running ELSE running \ {arg[t]}
    BY <1>0, <1>2, EndMoves DEF Drop, Quiet, leaseVars
  <2>2. Types' /\ CallShape' /\ NumbersFresh' /\ EntryReachable'
    BY <1>0, <1>d, <2>1, QuietKeeps, Kinds DEF Published, Types, TypeOK, CallShape
  <2>m. \A u \in Threads : u # t => pc'[u] = pc[u] /\ arg'[u] = arg[u]
    BY <2>1 DEF Quiet, Moves
  <2>t. pc'[t] = "idle" /\ arg'[t] = Nothing /\ UNCHANGED <<entries, owner, armed, back>>
    BY <2>1 DEF Quiet, Moves
  <2>3. JobsHeld'
    <3> SUFFICES ASSUME NEW j \in running'
                 PROVE  \/ InTable(j)
                        \/ \E u \in Threads : arg'[u] = j /\ pc'[u] \in Holding \cup {"publish"}
      BY <2>t DEF JobsHeld, InTable
    <3>1. j \in running BY <2>1
    <3>2. CASE arg[t] = j
      <4>1. Survives(t) BY <2>1, <3>2
      <4>2. InTable(j) \/ \E u \in Threads : u # t /\ arg[u] = j /\ pc[u] \in Holding
        BY <3>2, <4>1 DEF Survives, LastHolder
      <4> QED BY <2>m, <4>2
    <3>3. CASE arg[t] # j
      BY <1>0, <2>m, <3>1, <3>3 DEF JobsHeld
    <3> QED BY <3>2, <3>3
  <2>4. ASSUME NEW l \in Leases PROVE BroughtByOne(l)' /\ ReturnedByOne(l)'
    <3>0. BroughtByOne(l) /\ ReturnedByOne(l) BY <1>0 DEF LeaseLife
    <3>n. Nothing # l BY Kinds DEF Payloads
    <3>1. CASE arg[t] # l
      BY <1>0, <2>1, <3>1, <3>n, QuietElsewhere
    <3>2. CASE arg[t] = l
      <4>1. InTable(l) \/ \E u \in Threads : u # t /\ arg[u] = l /\ pc[u] \in Holding
        BY <1>2, <3>2 DEF Survives, LastHolder
      <4>2. /\ owner[l] = "library" /\ armed[l]
            /\ \A u \in Threads : arg[u] = l => pc[u] \notin Inbound
        BY <1>0, <1>d, <3>0, <3>2, Accepted DEF Inbound
      <4>3. back[l] = 0 /\ \A u \in Threads : arg[u] = l => pc[u] # "callback"
        BY <1>0, <1>d, <3>0, <3>2 DEF ReturnedByOne, Types, Outbound, Holding
      <4>4. BroughtByOne(l)'
        BY <2>m, <2>t, <4>2, StaysAccepted, <3>n
      <4>5. InTable(l)' \/ \E u \in Threads : arg'[u] = l /\ pc'[u] \in Outbound
        BY <2>m, <2>t, <4>1 DEF InTable, Outbound
      <4>6. \A u \in Threads : arg'[u] = l => pc'[u] # "callback"
        BY <2>m, <2>t, <4>3
      <4>7. ReturnedByOne(l)'
        BY <2>t, <4>2, <4>3, <4>5, <4>6 DEF ReturnedByOne
      <4> QED BY <4>4, <4>7
    <3> QED BY <3>1, <3>2
  <2> QED BY <2>2, <2>3, <2>4 DEF LeaseLife, RegistryInv
<1> QED BY <1>1, <1>2

LEMMA CallbackStep ==
  ASSUME RegistryInv, NEW t \in Threads, Callback(t)
  PROVE  RegistryInv'
<1>0. Types /\ CallShape /\ NumbersFresh /\ EntryReachable /\ JobsHeld /\ LeaseLife
  BY DEF RegistryInv
<1>p. /\ pc[t] = "callback" /\ arg[t] \in Leases /\ id[t] = 0
      /\ UNCHANGED <<next, entries, lock, handed, owner, armed, running>>
  BY <1>0 DEF Callback, CallShape, Published
<1>a. /\ owner[arg[t]] = "library" /\ armed[arg[t]] /\ back[arg[t]] = 0 /\ ~InTable(arg[t])
      /\ \A u \in Threads : arg[u] = arg[t] => pc[u] \notin Inbound
      /\ \A u \in Threads : u # t /\ arg[u] = arg[t] => pc[u] \notin Outbound
  <2>0. BroughtByOne(arg[t]) /\ ReturnedByOne(arg[t]) BY <1>0, <1>p DEF LeaseLife
  <2>1. /\ owner[arg[t]] = "library" /\ armed[arg[t]]
        /\ \A u \in Threads : arg[u] = arg[t] => pc[u] \notin Inbound
    BY <1>0, <1>p, <2>0, Accepted DEF Inbound
  <2>2. pc[t] \in Outbound BY <1>p DEF Outbound
  <2> QED BY <1>0, <1>p, <2>0, <2>1, <2>2 DEF ReturnedByOne, Types
<1>1. Moves(t, "inside", arg[t], id[t])
  BY <1>0, GoesOn DEF Callback, States
<1>b. /\ back' \in [Leases -> Nat] /\ back'[arg[t]] = 1
      /\ \A l \in Leases : l # arg[t] => back'[l] = back[l]
  BY <1>0, <1>p, <1>a DEF Callback, Notifies, Types
<1>u. \A u \in Threads : u # t => pc'[u] = pc[u] /\ arg'[u] = arg[u] /\ id'[u] = id[u]
  BY <1>1 DEF Moves
<1>t. pc'[t] = "inside" /\ arg'[t] = arg[t] /\ id'[t] = 0
  BY <1>1, <1>p DEF Moves
<1>2. Types' /\ CallShape' /\ NumbersFresh' /\ EntryReachable'
  <2>1. ASSUME NEW u \in Threads, pc'[u] = "publish" PROVE id'[u] \in 1 .. next'
    BY <1>0, <1>p, <1>u, <1>t, <2>1 DEF Types, TypeOK
  <2>2. Types'
    BY <1>0, <1>1, <1>p, <1>b, <2>1 DEF Moves, Types, TypeOK
  <2>3. CallShape'
    BY <1>0, <1>p, <1>u, <1>t, Kinds DEF CallShape, Published, Payloads
  <2>4. NumbersFresh'
    BY <1>0, <1>p, <1>u, <1>t DEF NumbersFresh, Published
  <2>5. EntryReachable'
    BY <1>0, <1>p, <1>u, <1>t DEF EntryReachable, Published
  <2> QED BY <2>2, <2>3, <2>4, <2>5
<1>3. JobsHeld'
  BY <1>1, <1>p, QuietJobs, Kinds
<1>4. LeaseLife'
  <2> SUFFICES ASSUME NEW l \in Leases PROVE BroughtByOne(l)' /\ ReturnedByOne(l)'
    BY DEF LeaseLife
  <2>0. BroughtByOne(l) /\ ReturnedByOne(l)
    BY <1>0 DEF LeaseLife
  <2>1. CASE arg[t] # l
    BY <1>0, <1>1, <1>p, <1>b, <2>0, <2>1, Elsewhere
  <2>2. CASE arg[t] = l
    <3>1. BroughtByOne(l)'
      BY <1>p, <1>a, <1>u, <1>t, <2>2, StaysAccepted DEF Inbound
    <3>2. ~InTable(l)' BY <1>p, <1>a, <2>2 DEF InTable
    <3>3. \A u \in Threads : arg'[u] = l => pc'[u] \notin Outbound
      BY <1>a, <1>u, <1>t, <2>2 DEF Outbound, Holding
    <3>4. ReturnedByOne(l)'
      BY <1>p, <1>a, <1>b, <2>2, <3>2, <3>3 DEF ReturnedByOne, Outbound
    <3> QED BY <3>1, <3>4
  <2> QED BY <2>1, <2>2
<1> QED BY <1>2, <1>3, <1>4 DEF RegistryInv

LEMMA CallbackReturnsStep ==
  ASSUME RegistryInv, NEW t \in Threads, CallbackReturns(t)
  PROVE  RegistryInv'
<1>0. Types /\ CallShape /\ NumbersFresh /\ EntryReachable /\ JobsHeld /\ LeaseLife
  BY DEF RegistryInv
<1>1. /\ pc[t] = "inside" /\ arg[t] \in Leases /\ UNCHANGED <<lock, running>>
      /\ Quiet(t, "idle", Nothing, 0)
  BY <1>0, EndMoves DEF CallbackReturns, Quiet, leaseVars, CallShape
<1>2. Types' /\ CallShape' /\ NumbersFresh' /\ EntryReachable'
  BY <1>0, <1>1, QuietKeeps, Kinds DEF Published, Types, TypeOK, CallShape, Payloads
<1>3. JobsHeld'
  BY <1>1, QuietJobs DEF Quiet, Holding
<1>4. LeaseLife'
  <2> SUFFICES ASSUME NEW l \in Leases PROVE BroughtByOne(l)' /\ ReturnedByOne(l)'
    BY DEF LeaseLife
  <2>0. BroughtByOne(l) /\ ReturnedByOne(l)
    BY <1>0 DEF LeaseLife
  <2>1. CASE arg[t] # l
    BY <1>0, <1>1, <2>1, QuietElsewhere, Kinds DEF Payloads
  <2>2. CASE arg[t] = l
    <3>1. /\ owner[l] = "library" /\ armed[l]
          /\ \A u \in Threads : arg[u] = l => pc[u] \notin Inbound
      BY <1>0, <1>1, <2>0, <2>2, Accepted DEF Inbound
    <3>2. \A u \in Threads : u # t => pc'[u] = pc[u] /\ arg'[u] = arg[u]
      BY <1>1 DEF Quiet, Moves
    <3>3. pc'[t] = "idle" /\ arg'[t] # l /\ UNCHANGED <<entries, owner, armed, back>>
      BY <1>1, Kinds DEF Quiet, Moves, Payloads
    <3>4. BroughtByOne(l)' BY <3>1, <3>2, <3>3, StaysAccepted
    <3>5. InTable(l)' <=> InTable(l) BY <3>3 DEF InTable
    <3>6. pc[t] \notin Outbound BY <1>1 DEF Outbound, Holding
    <3>7. ReturnedByOne(l)'
      BY <2>0, <3>2, <3>3, <3>5, <3>6 DEF ReturnedByOne
    <3> QED BY <3>4, <3>7
  <2> QED BY <2>1, <2>2
<1> QED BY <1>2, <1>3, <1>4 DEF RegistryInv

LEMMA RegistryStep == RegistryInv /\ [Next]_vars => RegistryInv'
<1> SUFFICES ASSUME RegistryInv, [Next]_vars PROVE RegistryInv'
  OBVIOUS
<1>1. ASSUME NEW t \in Threads, Call(t) PROVE RegistryInv'
  BY <1>1, RejectedStep, ReserveStep, ReserveFailsStep, AdmitStep, PublishStep, ArmStep,
     HandOverStep, ReadEndsStep, UnlockStep, DropStep, CallbackStep, CallbackReturnsStep DEF Call
<1>2. ASSUME NEW t \in Threads, Client(t) PROVE RegistryInv'
  BY <1>2, ImportStep, StartJobStep, GetStep, GetStaleStep, ReleaseStep DEF Client
<1>3. CASE UNCHANGED vars
  BY <1>3 DEF vars, callVars, leaseVars, RegistryInv, Types, TypeOK, CallShape, NumbersFresh,
     EntryReachable, JobsHeld, LeaseLife, BroughtByOne, ReturnedByOne, InTable
<1> QED BY <1>1, <1>2, <1>3 DEF Next

LEMMA RegistryAlways == Spec => []RegistryInv
  BY RegistryInit, RegistryStep, PTL DEF Spec

-----------------------------------------------------------------------------
(* The theorems.                                                             *)

(* A caller's pixels are given back exactly once: not while a thread reads   *)
(* them or their handle lives, not at all when the import failed, and an     *)
(* accepted lease is never lost (podoco_page_image_from_buffer, Registry).   *)
THEOREM LeasesExact == Spec => []LeaseExact
<1>1. RegistryInv => LeaseExact
  <2> SUFFICES ASSUME RegistryInv PROVE LeaseExact
    OBVIOUS
  <2>0. TypeOK /\ Types /\ LeaseLife BY DEF RegistryInv, Types
  <2>1. ReleasedOnce
    BY <2>0 DEF ReleasedOnce, LeaseLife, BroughtByOne, ReturnedByOne, Types, TypeOK
  <2>2. PixelsAlive
    BY <2>0 DEF PixelsAlive, LeaseLife, ReturnedByOne, Outbound
  <2>3. AcceptedReturns
    BY <2>0 DEF AcceptedReturns, LeaseLife, ReturnedByOne, Outbound
  <2> QED BY <2>0, <2>1, <2>2, <2>3 DEF LeaseExact
<1> QED BY <1>1, RegistryAlways, PTL

(* Every entry of the table is the client's to release, or about to be, and  *)
(* a job that runs has an entry, a reader or a call that will publish it     *)
(* (podoco_job_start reserves its number before the analyzer takes the job). *)
THEOREM EntriesReachable == Spec => []NothingOrphaned
<1>1. RegistryInv => NothingOrphaned
  BY DEF RegistryInv, NothingOrphaned, EntryReachable, JobsHeld, Published
<1> QED BY <1>1, RegistryAlways, PTL

(* A number the client has seen never names anything else later, so a stale  *)
(* or repeated release hits nothing (Registry::reserve, Registry::release).  *)
THEOREM NumbersNeverReused == Spec => StaleStaysStale
<1>1. RegistryInv /\ [Next]_vars
        => [\A i \in handed : entries[i] = Nothing => entries'[i] = Nothing]_vars
  <2> SUFFICES ASSUME RegistryInv, [Next]_vars, NEW i \in handed, entries[i] = Nothing
               PROVE  entries'[i] = Nothing
    OBVIOUS
  <2>0. CallShape /\ NumbersFresh /\ TypeOK /\ i \in Ids
    BY Kinds DEF RegistryInv, Types, TypeOK, Ids
  <2>1. ASSUME NEW t \in Threads, Publish(t) PROVE entries'[i] = Nothing
    BY <2>0, <2>1 DEF Publish, NumbersFresh, TypeOK
  <2>2. ASSUME NEW t \in Threads, NEW k \in handed, Release(t, k) PROVE entries'[i] = Nothing
    BY <2>0, <2>2 DEF Release, TypeOK
  <2>3. CASE entries' = entries
    BY <2>3
  <2>4. ASSUME NEW t \in Threads, Call(t) PROVE entries' = entries \/ Publish(t)
    BY <2>4 DEF Call, Rejected, Reserve, ReserveFails, Admit, Arm, HandOver, ReadEnds, Unlock,
       Drop, Callback, CallbackReturns
  <2>5. ASSUME NEW t \in Threads, Client(t)
        PROVE  entries' = entries \/ \E k \in handed : Release(t, k)
    BY <2>5 DEF Client, Import, StartJob, Get, GetStale
  <2>6. CASE UNCHANGED vars
    BY <2>6 DEF vars
  <2> QED BY <2>1, <2>2, <2>3, <2>4, <2>5, <2>6 DEF Next
<1> QED BY <1>1, RegistryAlways, PTL DEF Spec, StaleStaysStale

(* The callback that gives a caller its pixels back runs with the registry's *)
(* lock free, so that it may call the library again (Registry::release drops *)
(* the entry after its critical section).                                    *)
THEOREM CallbackRunsUnlocked == Spec => []CallbackLockFree
<1>1. RegistryInv => CallbackLockFree
  BY DEF RegistryInv, CallShape, CallbackLockFree
<1> QED BY <1>1, RegistryAlways, PTL

-----------------------------------------------------------------------------
(* The job of the Dart bindings: its inductive invariant.                    *)

(* Wake calls the two native threads still have to count, and those counted  *)
(* but not yet made.                                                         *)
One(b) == IF b THEN 1 ELSE 0
Owed == One(loader = "count") + One(loader # "idle" /\ ~told /\ ~abandoned)
          + One(deliverer = "count")
Underway == One(loader = "post") + One(deliverer = "post")

RequestPositions == {"none", "offered", "polled", "replied"}

ContractTypes ==
    /\ kind \in JobKinds /\ rendering \in BOOLEAN /\ delivering \in {"idle", "content", "notice"}
    /\ sinkOpen \in BOOLEAN /\ noticed \in BOOLEAN

RequestTypes ==
    /\ source \in [at : RequestPositions, token : Nat]
    /\ result \in [at : RequestPositions, token : Int, ok : BOOLEAN]

CounterTypes ==
    /\ nextSource \in Nat /\ sequence \in Nat /\ wakeCount \in Nat /\ posted \in Nat

ThreadTypes ==
    /\ loader \in Positions /\ deliverer \in Positions
    /\ abandoned \in BOOLEAN /\ told \in BOOLEAN /\ parked \in BOOLEAN

DriveTypes ==
    /\ drive \in {"idle", "progress", "source", "result", "finish"}
    /\ fatal \in BOOLEAN /\ known \in BOOLEAN /\ drained \in BOOLEAN /\ finished \in BOOLEAN
    /\ received \in Nat /\ expected \in Nat /\ lastSequence \in Int

TaskTypes ==
    /\ renderTask \in [at : {"none", "rendering", "disposing"}, token : Int]
    /\ deliverTask \in [at : {"none", "await", "sink", "failed"}, token : Int]

ForeignTypes ==
    /\ ContractTypes /\ RequestTypes /\ CounterTypes /\ ThreadTypes /\ DriveTypes /\ TaskTypes

(* The native threads are where the contract says they are, and a thread     *)
(* that is not called has no request in the bridge.                          *)
Callers ==
    /\ rendering <=> loader # "idle"
    /\ delivering # "idle" <=> deliverer # "idle"
    /\ Ended => ~rendering /\ delivering = "idle" /\ ~sinkOpen
    /\ delivering # "idle" => sinkOpen /\ ~noticed
    /\ delivering = "notice" \/ noticed => ~rendering
    /\ loader = "idle" => source.at = "none"
    /\ deliverer = "idle" => result.at = "none"
    /\ result.at # "none" => result.token = sequence - 1

(* Until the bridge is abandoned, a task of the client stands behind every   *)
(* request that was polled and not answered, and behind no other.            *)
Owned ==
    ~abandoned => /\ source.at = "polled" <=> renderTask.at = "rendering"
                  /\ result.at = "polled" <=> Delivering

(* The terminal notice is accepted with no render task left.                 *)
RendersDone ==
    /\ delivering = "notice" /\ ~abandoned /\ deliverTask.at = "sink" => ~Rendering
    /\ delivering = "notice" /\ ~abandoned /\ result.at = "replied" /\ result.ok => ~Rendering
    /\ noticed => ~Rendering

(* What was acknowledged, what is being delivered and what is offered follow *)
(* each other.                                                               *)
InOrder ==
    /\ -1 <= lastSequence /\ lastSequence < sequence
    /\ Delivering => deliverTask.token < sequence /\ lastSequence < deliverTask.token
    /\ ~abandoned /\ result.at = "offered" => lastSequence < result.token
    /\ ~abandoned /\ result.at = "replied" /\ result.ok => lastSequence = result.token

(* Every wake call counted is received, on its way or about to be made; two  *)
(* for a page and one for an update are all there are.                       *)
WakesAdd ==
    /\ received + posted + Underway = wakeCount
    /\ wakeCount + Owed <= 2 * nextSource + sequence

WithinLimits ==
    /\ nextSource <= RequestLimit
    /\ sequence <= MaxUpdates + 1
    /\ sequence = MaxUpdates + 1 => delivering = "notice" \/ noticed \/ ~sinkOpen

(* What the client knows of the end.                                         *)
EndKnown ==
    /\ fatal \/ finished => abandoned
    /\ abandoned => fatal \/ vanished \/ finished
    /\ drained => Ended /\ (fatal \/ known)
    /\ known => drained /\ expected = wakeCount
    /\ drive = "finish" /\ drained => expected = wakeCount
    /\ drive \in {"source", "result"} => ~fatal /\ ~known
    /\ finished => /\ drive = "idle" /\ ~Rendering /\ ~Delivering /\ drained
                   /\ expected = wakeCount /\ received >= expected

ForeignInv ==
    /\ ForeignTypes /\ Callers /\ Owned /\ RendersDone /\ InOrder /\ WakesAdd /\ WithinLimits
    /\ EndKnown

LEMMA ForeignStarts == ClientInit => ForeignInv
<1> SUFFICES ASSUME ClientInit PROVE ForeignInv
  OBVIOUS
<1> USE DEF ClientInit, BridgeInit, ContractInit
<1>1. ForeignTypes
  <2>1. /\ source \in [at : RequestPositions, token : Nat]
        /\ result \in [at : RequestPositions, token : Int, ok : BOOLEAN]
    BY DEF RequestPositions, NoSource, NoResult
  <2>2. /\ renderTask \in [at : {"none", "rendering", "disposing"}, token : Int]
        /\ deliverTask \in [at : {"none", "await", "sink", "failed"}, token : Int]
    BY DEF Idle
  <2>3. ContractTypes /\ CounterTypes
    BY DEF ContractTypes, CounterTypes
  <2>4. ThreadTypes
    BY DEF ThreadTypes, Positions
  <2>5. DriveTypes
    <3>1. received \in Nat /\ expected \in Nat /\ lastSequence \in Int
      OBVIOUS
    <3> QED BY <3>1 DEF DriveTypes
  <2> QED BY <2>1, <2>2, <2>3, <2>4, <2>5 DEF ForeignTypes, RequestTypes, TaskTypes
<1>2. Callers /\ Owned /\ RendersDone
  BY DEF Callers, Owned, RendersDone, NoSource, NoResult, Idle, Ended, None, Rendering, Delivering
<1>3. InOrder
  BY DEF InOrder, NoResult, Idle, Delivering
<1>4. WakesAdd
  BY DEF WakesAdd, Underway, Owed, One
<1>5. WithinLimits
  BY BridgeAssumption DEF WithinLimits, RequestLimit
<1>6. EndKnown
  BY DEF EndKnown
<1> QED BY <1>1, <1>2, <1>3, <1>4, <1>5, <1>6 DEF ForeignInv

(* Nothing but the request to cancel and the model's health may change.      *)
LEMMA NothingMoves ==
  ASSUME ForeignInv,
         UNCHANGED <<rendering, delivering, sinkOpen, noticed, status, kind, source, result,
                     nextSource, sequence, wakeCount, posted, abandoned, loader, told, deliverer,
                     parked>>,
         UNCHANGED <<drive, fatal, known, drained, received, expected, renderTask, deliverTask,
                     lastSequence, finished, vanished>>
  PROVE  ForeignInv'
<1>2. ForeignTypes'
  BY DEF ForeignInv, ForeignTypes, ContractTypes, RequestTypes, CounterTypes, ThreadTypes,
              DriveTypes, TaskTypes
<1>3. Callers' /\ Owned' /\ RendersDone'
  BY DEF ForeignInv, Callers, Owned, RendersDone, Ended, Rendering, Delivering
<1>4. InOrder' /\ WithinLimits'
  BY DEF ForeignInv, InOrder, WithinLimits, Delivering, RequestLimit
<1>5. WakesAdd'
  BY DEF ForeignInv, WakesAdd, Owed, Underway
<1>6. EndKnown'
  BY DEF ForeignInv, EndKnown, Ended, Rendering, Delivering
<1> QED BY <1>2, <1>3, <1>4, <1>5, <1>6 DEF ForeignInv

LEMMA StandsStill == ForeignInv /\ UNCHANGED clientVars => ForeignInv'
  BY NothingMoves
  DEF clientVars, dartVars, bridgeVars, contract, contractVars, channels, counters, wakes, callers

-----------------------------------------------------------------------------
(* The native threads.                                                       *)

LEMMA DartRests ==
  ASSUME UNCHANGED dartVars
  PROVE  /\ UNCHANGED <<drive, fatal, known, drained, received, expected, renderTask, deliverTask,
                        lastSequence, finished, vanished>>
         /\ (Rendering' <=> Rendering) /\ (Delivering' <=> Delivering)
         /\ (DriveTypes => DriveTypes') /\ (TaskTypes => TaskTypes')
  BY DEF dartVars, Rendering, Delivering, DriveTypes, TaskTypes

LEMMA LimitTypes == RequestLimit \in Nat /\ RequestLimit <= MaxRequests /\ MaxUpdates \in Nat
  BY BridgeAssumption DEF RequestLimit

LEMMA LoadBeginsKeeps == ForeignInv /\ LoadBegins /\ UNCHANGED dartVars => ForeignInv'
<1> SUFFICES ASSUME ForeignInv, LoadBegins, UNCHANGED dartVars PROVE ForeignInv'
  OBVIOUS
<1>0. /\ UNCHANGED <<drive, fatal, known, drained, received, expected, renderTask, deliverTask,
                     lastSequence, finished, vanished>>
      /\ (Rendering' <=> Rendering) /\ (Delivering' <=> Delivering)
  BY DartRests
<1>1. /\ loader = "idle" /\ nextSource < RequestLimit /\ ~rendering /\ sinkOpen /\ ~noticed
      /\ delivering # "notice" /\ status = None /\ rendering' = TRUE /\ told' = FALSE
      /\ UNCHANGED <<delivering, sinkOpen, noticed, cancelRequested, broken, status>>
      /\ UNCHANGED <<kind, result, sequence, wakeCount, posted, abandoned, deliverer, parked>>
  BY DEF LoadBegins, BeginRender, wakes
<1>2. \/ abandoned /\ loader' = "wait" /\ UNCHANGED <<source, nextSource>>
      \/ /\ ~abandoned /\ nextSource' = nextSource + 1 /\ loader' = "count"
         /\ source' = [at |-> "offered", token |-> nextSource + 1]
  BY DEF LoadBegins, NextToken
<1>t. /\ ContractTypes /\ RequestTypes /\ CounterTypes /\ ThreadTypes
      /\ DriveTypes /\ TaskTypes
  BY DEF ForeignInv, ForeignTypes
<1>3. ForeignTypes'
  <2>1. ContractTypes' /\ CounterTypes'
    BY <1>1, <1>2, <1>t DEF ContractTypes, CounterTypes
  <2>2. RequestTypes'
    BY <1>1, <1>2, <1>t DEF RequestTypes, CounterTypes, RequestPositions
  <2>3. ThreadTypes'
    BY <1>1, <1>2, <1>t DEF ThreadTypes, Positions
  <2> QED BY <1>t, <2>1, <2>2, <2>3, DartRests DEF ForeignTypes
<1>4. Callers'
  BY <1>0, <1>1, <1>2 DEF ForeignInv, Callers, Ended
<1>5. Owned'
  BY <1>0, <1>1, <1>2 DEF ForeignInv, Owned, Callers
<1>6. RendersDone'
  BY <1>0, <1>1, <1>2 DEF ForeignInv, RendersDone
<1>7. InOrder'
  BY <1>0, <1>1, <1>2 DEF ForeignInv, InOrder
<1>8. WakesAdd'
  BY <1>0, <1>1, <1>2, <1>t DEF ForeignInv, WakesAdd, Owed, Underway, One, CounterTypes, DriveTypes
<1>9. WithinLimits'
  <2>1. RequestLimit' = RequestLimit /\ RequestLimit \in Nat
    BY <1>1, LimitTypes DEF RequestLimit
  <2>2. nextSource' <= RequestLimit
    BY <1>1, <1>2, <1>t, <2>1 DEF ForeignInv, WithinLimits, CounterTypes
  <2> QED BY <1>1, <2>1, <2>2 DEF ForeignInv, WithinLimits
<1>10. EndKnown'
  BY <1>0, <1>1, <1>2 DEF ForeignInv, EndKnown, Ended
<1> QED BY <1>3, <1>4, <1>5, <1>6, <1>7, <1>8, <1>9, <1>10 DEF ForeignInv

LEMMA LoadCountsKeeps == ForeignInv /\ LoadCounts /\ UNCHANGED dartVars => ForeignInv'
<1> SUFFICES ASSUME ForeignInv, LoadCounts, UNCHANGED dartVars PROVE ForeignInv'
  OBVIOUS
<1>0. /\ UNCHANGED <<drive, fatal, known, drained, received, expected, renderTask, deliverTask,
                     lastSequence, finished, vanished>>
      /\ (Rendering' <=> Rendering) /\ (Delivering' <=> Delivering)
  BY DartRests
<1>1. /\ loader = "count" /\ wakeCount' = wakeCount + 1 /\ loader' = "post"
      /\ UNCHANGED <<rendering, delivering, sinkOpen, noticed, cancelRequested, broken, status,
                      kind, source, result, nextSource, sequence, posted, abandoned, told,
                      deliverer, parked>>
  BY DEF LoadCounts, contractVars, contract, channels, counters, wakes, callers
<1>t. /\ ContractTypes /\ RequestTypes /\ CounterTypes /\ ThreadTypes
      /\ DriveTypes /\ TaskTypes
  BY DEF ForeignInv, ForeignTypes
<1>2. ForeignTypes'
  <2>1. ContractTypes' /\ CounterTypes'
    BY <1>1, <1>t DEF ContractTypes, CounterTypes
  <2>2. RequestTypes'
    BY <1>1, <1>t DEF RequestTypes, CounterTypes
  <2>3. ThreadTypes'
    BY <1>1, <1>t DEF ThreadTypes, Positions
  <2> QED BY <1>t, <2>1, <2>2, <2>3, DartRests DEF ForeignTypes
<1>3. Callers'
  BY <1>0, <1>1 DEF ForeignInv, Callers, Ended
<1>4. Owned'
  BY <1>0, <1>1 DEF ForeignInv, Owned
<1>5. RendersDone'
  BY <1>0, <1>1 DEF ForeignInv, RendersDone
<1>6. InOrder'
  BY <1>0, <1>1 DEF ForeignInv, InOrder
<1>7. WakesAdd'
  BY <1>0, <1>1, <1>t DEF ForeignInv, WakesAdd, Owed, Underway, One, CounterTypes, DriveTypes
<1>8. WithinLimits'
  BY <1>0, <1>1, <1>t DEF ForeignInv, WithinLimits, RequestLimit
<1>9. EndKnown'
  <2>1. ~Ended /\ ~drained /\ ~known /\ ~finished
    BY <1>1 DEF ForeignInv, Callers, EndKnown, Ended
  <2> QED BY <1>0, <1>1, <2>1 DEF ForeignInv, EndKnown, Ended
<1> QED BY <1>2, <1>3, <1>4, <1>5, <1>6, <1>7, <1>8, <1>9 DEF ForeignInv

LEMMA LoadPostsKeeps == ForeignInv /\ LoadPosts /\ UNCHANGED dartVars => ForeignInv'
<1> SUFFICES ASSUME ForeignInv, LoadPosts, UNCHANGED dartVars PROVE ForeignInv'
  OBVIOUS
<1>0. /\ UNCHANGED <<drive, fatal, known, drained, received, expected, renderTask, deliverTask,
                     lastSequence, finished, vanished>>
      /\ (Rendering' <=> Rendering) /\ (Delivering' <=> Delivering)
  BY DartRests
<1>1. /\ loader = "post" /\ posted' = posted + 1 /\ loader' = "wait"
      /\ UNCHANGED <<rendering, delivering, sinkOpen, noticed, cancelRequested, broken, status,
                      kind, source, result, nextSource, sequence, wakeCount, abandoned, told,
                      deliverer, parked>>
  BY DEF LoadPosts, contractVars, contract, channels, counters, wakes, callers
<1>t. /\ ContractTypes /\ RequestTypes /\ CounterTypes /\ ThreadTypes
      /\ DriveTypes /\ TaskTypes
  BY DEF ForeignInv, ForeignTypes
<1>2. ForeignTypes'
  <2>1. ContractTypes' /\ CounterTypes'
    BY <1>1, <1>t DEF ContractTypes, CounterTypes
  <2>2. RequestTypes'
    BY <1>1, <1>t DEF RequestTypes, CounterTypes
  <2>3. ThreadTypes'
    BY <1>1, <1>t DEF ThreadTypes, Positions
  <2> QED BY <1>t, <2>1, <2>2, <2>3, DartRests DEF ForeignTypes
<1>3. Callers'
  BY <1>0, <1>1 DEF ForeignInv, Callers, Ended
<1>4. Owned'
  BY <1>0, <1>1 DEF ForeignInv, Owned
<1>5. RendersDone'
  BY <1>0, <1>1 DEF ForeignInv, RendersDone
<1>6. InOrder'
  BY <1>0, <1>1 DEF ForeignInv, InOrder
<1>7. WakesAdd'
  BY <1>0, <1>1, <1>t DEF ForeignInv, WakesAdd, Owed, Underway, One, CounterTypes, DriveTypes
<1>8. WithinLimits'
  BY <1>0, <1>1, <1>t DEF ForeignInv, WithinLimits, RequestLimit
<1>9. EndKnown'
  BY <1>0, <1>1 DEF ForeignInv, EndKnown, Ended
<1> QED BY <1>2, <1>3, <1>4, <1>5, <1>6, <1>7, <1>8, <1>9 DEF ForeignInv

LEMMA LoadTellsKeeps == ForeignInv /\ LoadTells /\ UNCHANGED dartVars => ForeignInv'
<1> SUFFICES ASSUME ForeignInv, LoadTells, UNCHANGED dartVars PROVE ForeignInv'
  OBVIOUS
<1>0. /\ UNCHANGED <<drive, fatal, known, drained, received, expected, renderTask, deliverTask,
                     lastSequence, finished, vanished>>
      /\ (Rendering' <=> Rendering) /\ (Delivering' <=> Delivering)
  BY DartRests
<1>1. /\ loader = "wait" /\ ~told /\ ~abandoned /\ told' = TRUE /\ loader' = "count"
      /\ UNCHANGED <<rendering, delivering, sinkOpen, noticed, cancelRequested, broken, status,
                      kind, source, result, nextSource, sequence, wakeCount, posted, abandoned,
                      deliverer, parked>>
  BY DEF LoadTells, MustTell, contractVars, contract, channels, counters, wakes, callers
<1>t. /\ ContractTypes /\ RequestTypes /\ CounterTypes /\ ThreadTypes
      /\ DriveTypes /\ TaskTypes
  BY DEF ForeignInv, ForeignTypes
<1>2. ForeignTypes'
  <2>1. ContractTypes' /\ CounterTypes'
    BY <1>1, <1>t DEF ContractTypes, CounterTypes
  <2>2. RequestTypes'
    BY <1>1, <1>t DEF RequestTypes, CounterTypes
  <2>3. ThreadTypes'
    BY <1>1, <1>t DEF ThreadTypes, Positions
  <2> QED BY <1>t, <2>1, <2>2, <2>3, DartRests DEF ForeignTypes
<1>3. Callers'
  BY <1>0, <1>1 DEF ForeignInv, Callers, Ended
<1>4. Owned'
  BY <1>0, <1>1 DEF ForeignInv, Owned
<1>5. RendersDone'
  BY <1>0, <1>1 DEF ForeignInv, RendersDone
<1>6. InOrder'
  BY <1>0, <1>1 DEF ForeignInv, InOrder
<1>7. WakesAdd'
  BY <1>0, <1>1, <1>t DEF ForeignInv, WakesAdd, Owed, Underway, One, CounterTypes, DriveTypes
<1>8. WithinLimits'
  BY <1>0, <1>1, <1>t DEF ForeignInv, WithinLimits, RequestLimit
<1>9. EndKnown'
  BY <1>0, <1>1 DEF ForeignInv, EndKnown, Ended
<1> QED BY <1>2, <1>3, <1>4, <1>5, <1>6, <1>7, <1>8, <1>9 DEF ForeignInv

LEMMA LoadReturnsKeeps == ForeignInv /\ LoadReturns /\ UNCHANGED dartVars => ForeignInv'
<1> SUFFICES ASSUME ForeignInv, LoadReturns, UNCHANGED dartVars PROVE ForeignInv'
  OBVIOUS
<1>0. /\ UNCHANGED <<drive, fatal, known, drained, received, expected, renderTask, deliverTask,
                     lastSequence, finished, vanished>>
      /\ (Rendering' <=> Rendering) /\ (Delivering' <=> Delivering)
  BY DartRests
<1>1. /\ loader = "wait" /\ (abandoned \/ source.at # "polled") /\ source' = NoSource
      /\ loader' = "idle" /\ rendering' = FALSE
      /\ UNCHANGED <<delivering, sinkOpen, noticed, cancelRequested, broken, status, kind, result,
                      nextSource, sequence, wakeCount, posted, abandoned, told, deliverer, parked>>
  BY DEF LoadReturns, EndRender, Withdrawing, ForeignDone, contractVars, contract, channels,
         counters, wakes, callers
<1>t. /\ ContractTypes /\ RequestTypes /\ CounterTypes /\ ThreadTypes
      /\ DriveTypes /\ TaskTypes
  BY DEF ForeignInv, ForeignTypes
<1>2. ForeignTypes'
  <2>1. ContractTypes' /\ CounterTypes'
    BY <1>1, <1>t DEF ContractTypes, CounterTypes
  <2>2. RequestTypes'
    BY <1>1, <1>t DEF RequestTypes, CounterTypes, RequestPositions, NoSource
  <2>3. ThreadTypes'
    BY <1>1, <1>t DEF ThreadTypes, Positions
  <2> QED BY <1>t, <2>1, <2>2, <2>3, DartRests DEF ForeignTypes
<1>3. Callers'
  BY <1>0, <1>1 DEF ForeignInv, Callers, Ended, NoSource
<1>4. Owned'
  BY <1>0, <1>1 DEF ForeignInv, Owned, NoSource
<1>5. RendersDone'
  BY <1>0, <1>1 DEF ForeignInv, RendersDone
<1>6. InOrder'
  BY <1>0, <1>1 DEF ForeignInv, InOrder
<1>7. WakesAdd'
  BY <1>0, <1>1, <1>t DEF ForeignInv, WakesAdd, Owed, Underway, One, CounterTypes, DriveTypes
<1>8. WithinLimits'
  BY <1>0, <1>1, <1>t DEF ForeignInv, WithinLimits, RequestLimit
<1>9. EndKnown'
  BY <1>0, <1>1 DEF ForeignInv, EndKnown, Ended
<1> QED BY <1>2, <1>3, <1>4, <1>5, <1>6, <1>7, <1>8, <1>9 DEF ForeignInv

LEMMA DeliverCountsKeeps == ForeignInv /\ DeliverCounts /\ UNCHANGED dartVars => ForeignInv'
<1> SUFFICES ASSUME ForeignInv, DeliverCounts, UNCHANGED dartVars PROVE ForeignInv'
  OBVIOUS
<1>0. /\ UNCHANGED <<drive, fatal, known, drained, received, expected, renderTask, deliverTask,
                     lastSequence, finished, vanished>>
      /\ (Rendering' <=> Rendering) /\ (Delivering' <=> Delivering)
  BY DartRests
<1>1. /\ deliverer = "count" /\ wakeCount' = wakeCount + 1 /\ deliverer' = "post"
      /\ UNCHANGED <<rendering, delivering, sinkOpen, noticed, cancelRequested, broken, status,
                      kind, source, result, nextSource, sequence, posted, abandoned, loader, told,
                      parked>>
  BY DEF DeliverCounts, contractVars, contract, channels, counters, wakes, callers
<1>t. /\ ContractTypes /\ RequestTypes /\ CounterTypes /\ ThreadTypes
      /\ DriveTypes /\ TaskTypes
  BY DEF ForeignInv, ForeignTypes
<1>2. ForeignTypes'
  <2>1. ContractTypes' /\ CounterTypes'
    BY <1>1, <1>t DEF ContractTypes, CounterTypes
  <2>2. RequestTypes'
    BY <1>1, <1>t DEF RequestTypes, CounterTypes
  <2>3. ThreadTypes'
    BY <1>1, <1>t DEF ThreadTypes, Positions
  <2> QED BY <1>t, <2>1, <2>2, <2>3, DartRests DEF ForeignTypes
<1>3. Callers'
  BY <1>0, <1>1 DEF ForeignInv, Callers, Ended
<1>4. Owned'
  BY <1>0, <1>1 DEF ForeignInv, Owned
<1>5. RendersDone'
  BY <1>0, <1>1 DEF ForeignInv, RendersDone
<1>6. InOrder'
  BY <1>0, <1>1 DEF ForeignInv, InOrder
<1>7. WakesAdd'
  BY <1>0, <1>1, <1>t DEF ForeignInv, WakesAdd, Owed, Underway, One, CounterTypes, DriveTypes
<1>8. WithinLimits'
  BY <1>0, <1>1, <1>t DEF ForeignInv, WithinLimits, RequestLimit
<1>9. EndKnown'
  <2>1. ~Ended /\ ~drained /\ ~known /\ ~finished
    BY <1>1 DEF ForeignInv, Callers, EndKnown, Ended
  <2> QED BY <1>0, <1>1, <2>1 DEF ForeignInv, EndKnown, Ended
<1> QED BY <1>2, <1>3, <1>4, <1>5, <1>6, <1>7, <1>8, <1>9 DEF ForeignInv

LEMMA DeliverPostsKeeps == ForeignInv /\ DeliverPosts /\ UNCHANGED dartVars => ForeignInv'
<1> SUFFICES ASSUME ForeignInv, DeliverPosts, UNCHANGED dartVars PROVE ForeignInv'
  OBVIOUS
<1>0. /\ UNCHANGED <<drive, fatal, known, drained, received, expected, renderTask, deliverTask,
                     lastSequence, finished, vanished>>
      /\ (Rendering' <=> Rendering) /\ (Delivering' <=> Delivering)
  BY DartRests
<1>1. /\ deliverer = "post" /\ posted' = posted + 1 /\ deliverer' = "wait"
      /\ UNCHANGED <<rendering, delivering, sinkOpen, noticed, cancelRequested, broken, status,
                      kind, source, result, nextSource, sequence, wakeCount, abandoned, loader,
                      told, parked>>
  BY DEF DeliverPosts, contractVars, contract, channels, counters, wakes, callers
<1>t. /\ ContractTypes /\ RequestTypes /\ CounterTypes /\ ThreadTypes
      /\ DriveTypes /\ TaskTypes
  BY DEF ForeignInv, ForeignTypes
<1>2. ForeignTypes'
  <2>1. ContractTypes' /\ CounterTypes'
    BY <1>1, <1>t DEF ContractTypes, CounterTypes
  <2>2. RequestTypes'
    BY <1>1, <1>t DEF RequestTypes, CounterTypes
  <2>3. ThreadTypes'
    BY <1>1, <1>t DEF ThreadTypes, Positions
  <2> QED BY <1>t, <2>1, <2>2, <2>3, DartRests DEF ForeignTypes
<1>3. Callers'
  BY <1>0, <1>1 DEF ForeignInv, Callers, Ended
<1>4. Owned'
  BY <1>0, <1>1 DEF ForeignInv, Owned
<1>5. RendersDone'
  BY <1>0, <1>1 DEF ForeignInv, RendersDone
<1>6. InOrder'
  BY <1>0, <1>1 DEF ForeignInv, InOrder
<1>7. WakesAdd'
  BY <1>0, <1>1, <1>t DEF ForeignInv, WakesAdd, Owed, Underway, One, CounterTypes, DriveTypes
<1>8. WithinLimits'
  BY <1>0, <1>1, <1>t DEF ForeignInv, WithinLimits, RequestLimit
<1>9. EndKnown'
  BY <1>0, <1>1 DEF ForeignInv, EndKnown, Ended
<1> QED BY <1>2, <1>3, <1>4, <1>5, <1>6, <1>7, <1>8, <1>9 DEF ForeignInv

LEMMA DeliverParksKeeps == ForeignInv /\ DeliverParks /\ UNCHANGED dartVars => ForeignInv'
<1> SUFFICES ASSUME ForeignInv, DeliverParks, UNCHANGED dartVars PROVE ForeignInv'
  OBVIOUS
<1>0. /\ UNCHANGED <<drive, fatal, known, drained, received, expected, renderTask, deliverTask,
                     lastSequence, finished, vanished>>
      /\ (Rendering' <=> Rendering) /\ (Delivering' <=> Delivering)
  BY DartRests
<1>1. /\ parked' = TRUE
      /\ UNCHANGED <<rendering, delivering, sinkOpen, noticed, cancelRequested, broken, status,
                      kind, source, result, nextSource, sequence, wakeCount, posted, abandoned,
                      loader, told, deliverer>>
  BY DEF DeliverParks, contractVars, contract, channels, counters, wakes, callers
<1>t. /\ ContractTypes /\ RequestTypes /\ CounterTypes /\ ThreadTypes
      /\ DriveTypes /\ TaskTypes
  BY DEF ForeignInv, ForeignTypes
<1>2. ForeignTypes'
  <2>1. ContractTypes' /\ CounterTypes'
    BY <1>1, <1>t DEF ContractTypes, CounterTypes
  <2>2. RequestTypes'
    BY <1>1, <1>t DEF RequestTypes, CounterTypes
  <2>3. ThreadTypes'
    BY <1>1, <1>t DEF ThreadTypes, Positions
  <2> QED BY <1>t, <2>1, <2>2, <2>3, DartRests DEF ForeignTypes
<1>3. Callers'
  BY <1>0, <1>1 DEF ForeignInv, Callers, Ended
<1>4. Owned'
  BY <1>0, <1>1 DEF ForeignInv, Owned
<1>5. RendersDone'
  BY <1>0, <1>1 DEF ForeignInv, RendersDone
<1>6. InOrder'
  BY <1>0, <1>1 DEF ForeignInv, InOrder
<1>7. WakesAdd'
  BY <1>0, <1>1, <1>t DEF ForeignInv, WakesAdd, Owed, Underway, One, CounterTypes, DriveTypes
<1>8. WithinLimits'
  BY <1>0, <1>1, <1>t DEF ForeignInv, WithinLimits, RequestLimit
<1>9. EndKnown'
  BY <1>0, <1>1 DEF ForeignInv, EndKnown, Ended
<1> QED BY <1>2, <1>3, <1>4, <1>5, <1>6, <1>7, <1>8, <1>9 DEF ForeignInv

LEMMA DeliverBeginsKeeps == ForeignInv /\ DeliverBegins /\ UNCHANGED dartVars => ForeignInv'
<1> SUFFICES ASSUME ForeignInv, DeliverBegins, UNCHANGED dartVars PROVE ForeignInv'
  OBVIOUS
<1>0. /\ UNCHANGED <<drive, fatal, known, drained, received, expected, renderTask, deliverTask,
                     lastSequence, finished, vanished>>
      /\ (Rendering' <=> Rendering) /\ (Delivering' <=> Delivering)
  BY DartRests
<1>1. /\ deliverer = "idle" /\ delivering = "idle" /\ sinkOpen /\ ~noticed /\ status = None
      /\ \/ delivering' = "content" /\ sequence < MaxUpdates
         \/ delivering' = "notice" /\ ~rendering
      /\ sequence' = sequence + 1
      /\ \/ abandoned /\ deliverer' = "wait" /\ result' = result
         \/ /\ ~abandoned /\ deliverer' = "count"
            /\ result' = [at |-> "offered", token |-> sequence, ok |-> TRUE]
      /\ UNCHANGED <<rendering, sinkOpen, noticed, cancelRequested, broken, status, kind, source,
                      nextSource, wakeCount, posted, abandoned, loader, told, parked>>
  BY DEF DeliverBegins, BeginContent, BeginNotice, contractVars, contract, channels, counters,
         wakes, callers
<1>s. sequence \in Nat /\ MaxUpdates \in Nat /\ result.at = "none"
  BY <1>1, LimitTypes DEF ForeignInv, ForeignTypes, CounterTypes, Callers
<1>t. /\ ContractTypes /\ RequestTypes /\ CounterTypes /\ ThreadTypes
      /\ DriveTypes /\ TaskTypes
  BY DEF ForeignInv, ForeignTypes
<1>2. ForeignTypes'
  <2>1. ContractTypes' /\ CounterTypes'
    BY <1>1, <1>s, <1>t DEF ContractTypes, CounterTypes
  <2>2. RequestTypes'
    <3>1. sequence \in Int
      BY <1>s
    <3>2. [at |-> "offered", token |-> sequence, ok |-> TRUE]
             \in [at : RequestPositions, token : Int, ok : BOOLEAN]
      BY <3>1 DEF RequestPositions
    <3> QED BY <1>1, <1>t, <3>2 DEF RequestTypes
  <2>3. ThreadTypes'
    BY <1>1, <1>s, <1>t DEF ThreadTypes, Positions
  <2> QED BY <1>t, <2>1, <2>2, <2>3, DartRests DEF ForeignTypes
<1>3. Callers'
  BY <1>0, <1>1, <1>s DEF ForeignInv, Callers, Ended
<1>4. Owned'
  BY <1>0, <1>1, <1>s DEF ForeignInv, Owned
<1>5. RendersDone'
  <2>1. ~abandoned => ~Delivering
    BY <1>s DEF ForeignInv, Owned
  <2> QED BY <1>0, <1>1, <1>s, <2>1 DEF ForeignInv, RendersDone, Delivering
<1>6. InOrder'
  <2>1. lastSequence \in Int /\ deliverTask.token \in Int
    BY <1>t DEF DriveTypes, TaskTypes
  <2> QED BY <1>0, <1>1, <1>s, <2>1 DEF ForeignInv, InOrder
<1>7. WakesAdd'
  BY <1>0, <1>1, <1>t DEF ForeignInv, WakesAdd, Owed, Underway, One, CounterTypes, DriveTypes
<1>8. WithinLimits'
  BY <1>0, <1>1, <1>s DEF ForeignInv, WithinLimits, RequestLimit
<1>9. EndKnown'
  BY <1>0, <1>1 DEF ForeignInv, EndKnown, Ended
<1> QED BY <1>2, <1>3, <1>4, <1>5, <1>6, <1>7, <1>8, <1>9 DEF ForeignInv

LEMMA DeliverReturnsKeeps == ForeignInv /\ DeliverReturns /\ UNCHANGED dartVars => ForeignInv'
<1> SUFFICES ASSUME ForeignInv, DeliverReturns, UNCHANGED dartVars PROVE ForeignInv'
  OBVIOUS
<1>0. /\ UNCHANGED <<drive, fatal, known, drained, received, expected, renderTask, deliverTask,
                     lastSequence, finished, vanished>>
      /\ (Rendering' <=> Rendering) /\ (Delivering' <=> Delivering)
  BY DartRests
<1>1. /\ deliverer = "wait" /\ delivering # "idle" /\ delivering' = "idle"
      /\ ~abandoned => result.at = "replied"
      /\ \/ /\ ~abandoned /\ result.ok
            /\ noticed' = (delivering = "notice") /\ sinkOpen' = sinkOpen
         \/ sinkOpen' = FALSE /\ noticed' = noticed
      /\ result' = NoResult /\ deliverer' = "idle"
      /\ UNCHANGED <<rendering, cancelRequested, broken, status, kind, source, nextSource,
                      sequence, wakeCount, posted, abandoned, loader, told, parked>>
  BY DEF DeliverReturns, SinkAccepts, SinkRefuses, contractVars, contract, channels, counters,
         wakes, callers
<1>t. /\ ContractTypes /\ RequestTypes /\ CounterTypes /\ ThreadTypes
      /\ DriveTypes /\ TaskTypes
  BY DEF ForeignInv, ForeignTypes
<1>2. ForeignTypes'
  <2>1. ContractTypes' /\ CounterTypes'
    BY <1>1, <1>t DEF ContractTypes, CounterTypes
  <2>2. RequestTypes'
    BY <1>1, <1>t DEF RequestTypes, CounterTypes, RequestPositions, NoResult
  <2>3. ThreadTypes'
    BY <1>1, <1>t DEF ThreadTypes, Positions
  <2> QED BY <1>t, <2>1, <2>2, <2>3, DartRests DEF ForeignTypes
<1>3. Callers'
  <2>1. (noticed' => noticed \/ delivering = "notice") /\ (sinkOpen' => sinkOpen)
    BY <1>1, <1>t DEF ContractTypes
  <2> QED BY <1>1, <2>1 DEF ForeignInv, Callers, Ended, NoResult
<1>4. Owned'
  <2>1. ~abandoned => result.at # "polled"
    BY <1>1
  <2> QED BY <1>0, <1>1, <2>1 DEF ForeignInv, Owned, NoResult
<1>5. RendersDone'
  BY <1>0, <1>1, <1>t DEF ForeignInv, ContractTypes, RequestTypes, RendersDone, NoResult
<1>6. InOrder'
  BY <1>0, <1>1 DEF ForeignInv, InOrder, NoResult
<1>7. WakesAdd'
  BY <1>0, <1>1, <1>t DEF ForeignInv, WakesAdd, Owed, Underway, One, CounterTypes, DriveTypes
<1>8. WithinLimits'
  BY <1>0, <1>1, <1>t DEF ForeignInv, ContractTypes, RequestTypes, CounterTypes, DriveTypes,
         Callers, WithinLimits, RequestLimit
<1>9. EndKnown'
  BY <1>0, <1>1 DEF ForeignInv, EndKnown, Ended
<1> QED BY <1>2, <1>3, <1>4, <1>5, <1>6, <1>7, <1>8, <1>9 DEF ForeignInv

(* Closing the sink, breaking and ending touch no request and no thread.     *)
LEMMA JobKeeps == ForeignInv /\ Job /\ UNCHANGED dartVars => ForeignInv'
<1> SUFFICES ASSUME ForeignInv, Job, UNCHANGED dartVars PROVE ForeignInv'
  OBVIOUS
<1>0. /\ UNCHANGED <<drive, fatal, known, drained, received, expected, renderTask, deliverTask,
                     lastSequence, finished, vanished>>
      /\ (Rendering' <=> Rendering) /\ (Delivering' <=> Delivering)
  BY DartRests
<1>1. /\ \/ delivering = "idle" /\ ~rendering /\ sinkOpen' = FALSE /\ UNCHANGED status
         \/ UNCHANGED <<sinkOpen, status>>
         \/ /\ status = None /\ ~rendering /\ delivering = "idle" /\ ~sinkOpen /\ UNCHANGED sinkOpen
            /\ status' # None
      /\ UNCHANGED <<rendering, delivering, noticed, kind, source, result, nextSource, sequence,
                      wakeCount, posted, abandoned, loader, told, deliverer, parked>>
  BY DEF Job, JobCloses, CloseSink, JobBreaks, Break, JobEnds, End, None, contractVars, contract,
         channels, counters, wakes, callers
<1>t. /\ ContractTypes /\ RequestTypes /\ CounterTypes /\ ThreadTypes
      /\ DriveTypes /\ TaskTypes
  BY DEF ForeignInv, ForeignTypes
<1>2. ForeignTypes'
  <2>1. ContractTypes' /\ CounterTypes'
    BY <1>1, <1>t DEF ContractTypes, CounterTypes
  <2>2. RequestTypes'
    BY <1>1, <1>t DEF RequestTypes, CounterTypes
  <2>3. ThreadTypes'
    BY <1>1, <1>t DEF ThreadTypes, Positions
  <2> QED BY <1>t, <2>1, <2>2, <2>3, DartRests DEF ForeignTypes
<1>3. Callers'
  BY <1>0, <1>1 DEF ForeignInv, Callers, Ended
<1>4. Owned'
  BY <1>0, <1>1 DEF ForeignInv, Owned
<1>5. RendersDone'
  BY <1>0, <1>1 DEF ForeignInv, RendersDone
<1>6. InOrder'
  BY <1>0, <1>1 DEF ForeignInv, InOrder
<1>7. WakesAdd'
  BY <1>0, <1>1, <1>t DEF ForeignInv, WakesAdd, Owed, Underway, One, CounterTypes, DriveTypes
<1>8. WithinLimits'
  BY <1>0, <1>1, <1>t DEF ForeignInv, WithinLimits, RequestLimit
<1>9. EndKnown'
  BY <1>0, <1>1 DEF ForeignInv, EndKnown, Ended
<1> QED BY <1>2, <1>3, <1>4, <1>5, <1>6, <1>7, <1>8, <1>9 DEF ForeignInv

LEMMA LoadSpinsKeeps == ForeignInv /\ LoadSpins /\ UNCHANGED dartVars => ForeignInv'
<1> SUFFICES ASSUME ForeignInv, LoadSpins, UNCHANGED dartVars PROVE ForeignInv'
  OBVIOUS
<1>1. UNCHANGED clientVars
  BY DEF LoadSpins, clientVars
<1> QED BY <1>1, StandsStill

LEMMA NativeKeeps == ForeignInv /\ Native => ForeignInv'
  BY LoadBeginsKeeps, LoadCountsKeeps, LoadPostsKeeps, LoadTellsKeeps, LoadReturnsKeeps,
     LoadSpinsKeeps, DeliverBeginsKeeps, DeliverCountsKeeps, DeliverPostsKeeps,
     DeliverParksKeeps, DeliverReturnsKeeps, JobKeeps
  DEF Native, Loader, Deliverer

-----------------------------------------------------------------------------
(* The client.  What it leaves to the native side with every step: it moves  *)
(* no native thread and hands no update over, at most abandons the job, and  *)
(* takes a wake call off its queue only to count it.                         *)
LeavesNative ==
    /\ UNCHANGED <<rendering, delivering, sinkOpen, noticed, status>>
    /\ UNCHANGED <<kind, nextSource, sequence, wakeCount, loader, told, deliverer>>
    /\ abandoned' \in BOOLEAN /\ (abandoned => abandoned') /\ parked' \in BOOLEAN
    /\ received' \in Nat /\ posted' \in Nat /\ received' + posted' = received + posted

LEMMA LeavesNativeKeeps ==
  ASSUME ForeignInv, LeavesNative
  PROVE  /\ ContractTypes' /\ CounterTypes' /\ ThreadTypes' /\ WakesAdd' /\ WithinLimits'
         /\ (Ended' <=> Ended)
<1> USE DEF LeavesNative
<1>t. ContractTypes /\ CounterTypes /\ ThreadTypes /\ received \in Nat
  BY DEF ForeignInv, ForeignTypes, DriveTypes
<1>1. ContractTypes'
  BY <1>t DEF ContractTypes
<1>2. CounterTypes' /\ ThreadTypes'
  BY <1>t DEF CounterTypes, ThreadTypes
<1>3. WakesAdd'
  <2>1. Underway' = Underway /\ Underway \in Nat
    BY DEF Underway, One
  <2>2. Owed' <= Owed /\ Owed \in Nat /\ Owed' \in Nat
    BY <1>t DEF Owed, One, ThreadTypes
  <2> HIDE DEF LeavesNative
  <2>3. received' + posted' + Underway' = wakeCount'
    BY <1>t, <2>1 DEF ForeignInv, WakesAdd, CounterTypes, LeavesNative
  <2>4. wakeCount' + Owed' <= 2 * nextSource' + sequence'
    <3>1. wakeCount' = wakeCount /\ nextSource' = nextSource /\ sequence' = sequence
      BY DEF LeavesNative
    <3>2. wakeCount + Owed <= 2 * nextSource + sequence
      BY DEF ForeignInv, WakesAdd
    <3>3. wakeCount \in Nat /\ nextSource \in Nat /\ sequence \in Nat
      BY <1>t DEF CounterTypes
    <3>4. \A w, o, p, n, q \in Nat : w + o <= 2 * n + q /\ p <= o => w + p <= 2 * n + q
      OBVIOUS
    <3>5. wakeCount + Owed' <= 2 * nextSource + sequence
      BY <2>2, <3>2, <3>3, <3>4
    <3> QED BY <3>1, <3>5
  <2> QED BY <2>3, <2>4 DEF WakesAdd
<1>4. WithinLimits'
  BY DEF ForeignInv, WithinLimits, RequestLimit
<1>5. Ended' <=> Ended
  BY DEF Ended
<1> QED BY <1>1, <1>2, <1>3, <1>4, <1>5

(* A failed transport abandons the job, once.                                *)
LEMMA FailTransportAbandons ==
  ASSUME ForeignInv, FailTransport
  PROVE  /\ fatal' = TRUE /\ abandoned' = TRUE /\ parked' \in BOOLEAN
         /\ UNCHANGED <<rendering, delivering, sinkOpen, noticed, status>>
<1>t. parked \in BOOLEAN /\ abandoned \in BOOLEAN
  BY DEF ForeignInv, ForeignTypes, ThreadTypes
<1>1. CASE fatal
  BY <1>1, <1>t DEF FailTransport, ForeignInv, EndKnown, contract, contractVars
<1>2. CASE ~fatal
  BY <1>2 DEF FailTransport, Abandon, CancelJob
<1> QED BY <1>1, <1>2

(* The bookkeeping of the client's event loop.                               *)
LEMMA WakeArrivesKeeps == ForeignInv /\ WakeArrives => ForeignInv'
<1> SUFFICES ASSUME ForeignInv, WakeArrives PROVE ForeignInv'
  OBVIOUS
<1>1. /\ drive = "idle" /\ posted > 0 /\ posted' = posted - 1 /\ received' = received + 1
      /\ drive' = IF finished THEN "idle" ELSE "progress"
      /\ UNCHANGED <<rendering, delivering, sinkOpen, noticed, status, kind, source, result,
                     nextSource, sequence, wakeCount, abandoned, loader, told, deliverer, parked>>
      /\ UNCHANGED <<fatal, known, drained, expected, renderTask, deliverTask, lastSequence,
                     finished, vanished>>
  BY DEF WakeArrives, Loop, Drives, nativeOnly, contract, contractVars, channels, counters
<1>t. /\ RequestTypes /\ CounterTypes /\ ThreadTypes /\ DriveTypes /\ TaskTypes
  BY DEF ForeignInv, ForeignTypes
<1>2. LeavesNative
  <2>1. received' \in Nat /\ posted' \in Nat /\ received' + posted' = received + posted
    BY <1>1, <1>t DEF CounterTypes, DriveTypes
  <2> QED BY <1>1, <1>t, <2>1 DEF LeavesNative, ThreadTypes
<1>3. /\ ContractTypes' /\ CounterTypes' /\ ThreadTypes' /\ WakesAdd' /\ WithinLimits'
      /\ (Ended' <=> Ended)
  BY <1>2, LeavesNativeKeeps
<1>4. RequestTypes' /\ TaskTypes'
  BY <1>1, <1>t DEF RequestTypes, TaskTypes
<1>5. DriveTypes'
  BY <1>1, <1>2, <1>t DEF DriveTypes, LeavesNative
<1>6. Callers' /\ Owned' /\ RendersDone'
  BY <1>1, <1>3 DEF ForeignInv, Callers, Owned, RendersDone, Rendering, Delivering
<1>7. InOrder'
  BY <1>1 DEF ForeignInv, InOrder, Delivering
<1>8. EndKnown'
  <2>1. received' >= received
    BY <1>1, <1>t DEF DriveTypes
  <2>2. finished => received' >= expected
    BY <1>t, <1>2, <2>1 DEF ForeignInv, EndKnown, DriveTypes, LeavesNative
  <2> QED BY <1>1, <1>3, <2>2 DEF ForeignInv, EndKnown, Rendering, Delivering
<1> QED BY <1>3, <1>4, <1>5, <1>6, <1>7, <1>8 DEF ForeignInv, ForeignTypes

LEMMA TimerFiresKeeps == ForeignInv /\ TimerFires => ForeignInv'
<1> SUFFICES ASSUME ForeignInv, TimerFires PROVE ForeignInv'
  OBVIOUS
<1>1. /\ drive = "idle" /\ ~finished /\ drive' = "progress"
      /\ UNCHANGED <<rendering, delivering, sinkOpen, noticed, status, kind, source, result,
                     nextSource, sequence, wakeCount, posted, abandoned, loader, told, deliverer,
                     parked>>
      /\ UNCHANGED <<fatal, known, drained, received, expected, renderTask, deliverTask,
                     lastSequence, finished, vanished>>
  BY DEF TimerFires, Loop, Drives, bridgeVars, contract, contractVars, channels, counters, wakes,
         callers
<1>t. /\ RequestTypes /\ CounterTypes /\ ThreadTypes /\ DriveTypes /\ TaskTypes
  BY DEF ForeignInv, ForeignTypes
<1>2. LeavesNative
  BY <1>1, <1>t DEF LeavesNative, CounterTypes, ThreadTypes, DriveTypes
<1>3. /\ ContractTypes' /\ CounterTypes' /\ ThreadTypes' /\ WakesAdd' /\ WithinLimits'
      /\ (Ended' <=> Ended)
  BY <1>2, LeavesNativeKeeps
<1>4. RequestTypes' /\ TaskTypes'
  BY <1>1, <1>t DEF RequestTypes, TaskTypes
<1>5. DriveTypes'
  BY <1>1, <1>t DEF DriveTypes
<1>6. Callers' /\ Owned' /\ RendersDone'
  BY <1>1, <1>3 DEF ForeignInv, Callers, Owned, RendersDone, Rendering, Delivering
<1>7. InOrder'
  BY <1>1 DEF ForeignInv, InOrder, Delivering
<1>8. EndKnown'
  BY <1>1, <1>3 DEF ForeignInv, EndKnown
<1> QED BY <1>3, <1>4, <1>5, <1>6, <1>7, <1>8 DEF ForeignInv, ForeignTypes

LEMMA PollOutcomeKeeps == ForeignInv /\ PollOutcome => ForeignInv'
<1> SUFFICES ASSUME ForeignInv, PollOutcome PROVE ForeignInv'
  OBVIOUS
<1>1. /\ drive = "progress"
      /\ UNCHANGED <<kind, source, result, nextSource, sequence, wakeCount, posted, loader, told,
                     deliverer>>
      /\ UNCHANGED <<received, renderTask, deliverTask, lastSequence, finished, vanished>>
  BY DEF PollOutcome, channels, counters, wakes
<1>2. \/ /\ fatal \/ known \/ ~Ended
         /\ (IF fatal /\ Ended THEN drained' = TRUE /\ expected' = wakeCount
             ELSE UNCHANGED <<drained, expected>>)
         /\ drive' = IF fatal \/ known THEN "finish" ELSE "source"
         /\ UNCHANGED <<rendering, delivering, sinkOpen, noticed, status, abandoned, parked, fatal,
                        known>>
      \/ /\ ~fatal /\ ~known /\ Ended
         /\ drained' = TRUE /\ known' = TRUE /\ expected' = wakeCount /\ drive' = "finish"
         /\ UNCHANGED <<rendering, delivering, sinkOpen, noticed, status, abandoned, parked,
                        fatal>>
      \/ /\ ~fatal /\ ~known /\ FailTransport
         /\ drained' \in {drained, drained \/ Ended}
         /\ drive' = "idle" /\ UNCHANGED <<known, expected>>
  BY DEF PollOutcome, FrozenCount, contract, contractVars
<1>t. /\ RequestTypes /\ CounterTypes /\ ThreadTypes /\ DriveTypes /\ TaskTypes /\ ~finished
  BY <1>1 DEF ForeignInv, ForeignTypes, EndKnown
<1>3. LeavesNative
  <2>1. /\ UNCHANGED <<rendering, delivering, sinkOpen, noticed, status>>
        /\ abandoned' \in BOOLEAN /\ (abandoned => abandoned') /\ parked' \in BOOLEAN
    BY <1>2, <1>t, FailTransportAbandons DEF ThreadTypes
  <2> QED BY <1>1, <1>t, <2>1 DEF LeavesNative, CounterTypes, DriveTypes
<1>4. /\ ContractTypes' /\ CounterTypes' /\ ThreadTypes' /\ WakesAdd' /\ WithinLimits'
      /\ (Ended' <=> Ended)
  BY <1>3, LeavesNativeKeeps
<1>5. RequestTypes' /\ TaskTypes'
  BY <1>1, <1>t DEF RequestTypes, TaskTypes
<1>6. DriveTypes'
  BY <1>1, <1>2, <1>t, FailTransportAbandons DEF DriveTypes, CounterTypes
<1>7. Callers' /\ Owned' /\ RendersDone' /\ InOrder'
  BY <1>1, <1>3, <1>4
  DEF ForeignInv, Callers, Owned, RendersDone, InOrder, Rendering, Delivering, LeavesNative
<1>8. EndKnown'
  <2>1. CASE UNCHANGED <<abandoned, fatal>>
    BY <1>1, <1>2, <1>4, <1>t, <2>1 DEF ForeignInv, EndKnown, FailTransport
  <2>2. CASE ~fatal /\ ~known /\ FailTransport /\ drive' = "idle" /\ UNCHANGED <<known, expected>>
             /\ drained' \in {drained, drained \/ Ended}
    BY <1>1, <1>4, <1>t, <2>2, FailTransportAbandons DEF ForeignInv, EndKnown
  <2> QED BY <1>2, <2>1, <2>2
<1> QED BY <1>4, <1>5, <1>6, <1>7, <1>8 DEF ForeignInv, ForeignTypes

LEMMA PollSourceKeeps == ForeignInv /\ ~vanished /\ PollSource => ForeignInv'
<1> SUFFICES ASSUME ForeignInv, ~vanished, PollSource PROVE ForeignInv'
  OBVIOUS
<1>1. /\ drive = "source"
      /\ UNCHANGED <<kind, result, nextSource, sequence, wakeCount, posted, loader, told,
                     deliverer>>
      /\ UNCHANGED <<known, drained, received, expected, deliverTask, lastSequence, finished,
                     vanished>>
  BY DEF PollSource, counters, wakes
<1>2. \/ /\ drive' = "result"
         /\ UNCHANGED <<rendering, delivering, sinkOpen, noticed, status, source, abandoned, parked,
                        fatal, renderTask>>
      \/ /\ ~Rendering /\ source.at = "offered" /\ source' = [source EXCEPT !.at = "polled"]
         /\ renderTask' = [at |-> "rendering", token |-> source.token] /\ drive' = "result"
         /\ UNCHANGED <<rendering, delivering, sinkOpen, noticed, status, abandoned, parked, fatal>>
      \/ /\ ~Rendering /\ source.at = "offered" /\ source' = [source EXCEPT !.at = "polled"]
         /\ FailTransport /\ drive' = "idle" /\ UNCHANGED renderTask
  BY DEF PollSource, SourceNext, contract, contractVars
<1>t. /\ RequestTypes /\ CounterTypes /\ ThreadTypes /\ DriveTypes /\ TaskTypes
      /\ ~finished /\ ~fatal /\ ~known /\ ~abandoned
  BY <1>1 DEF ForeignInv, ForeignTypes, EndKnown
<1>3. LeavesNative
  <2>1. /\ UNCHANGED <<rendering, delivering, sinkOpen, noticed, status>>
        /\ abandoned' \in BOOLEAN /\ (abandoned => abandoned') /\ parked' \in BOOLEAN
    BY <1>2, <1>t, FailTransportAbandons DEF ThreadTypes
  <2> QED BY <1>1, <1>t, <2>1 DEF LeavesNative, CounterTypes, DriveTypes
<1>4. /\ ContractTypes' /\ CounterTypes' /\ ThreadTypes' /\ WakesAdd' /\ WithinLimits'
      /\ (Ended' <=> Ended)
  BY <1>3, LeavesNativeKeeps
<1>5. RequestTypes' /\ TaskTypes'
  <2>1. [source EXCEPT !.at = "polled"] \in [at : RequestPositions, token : Nat]
    BY <1>t DEF RequestTypes, RequestPositions
  <2>2. source.token \in Int
    BY <1>t DEF RequestTypes
  <2>3. [at |-> "rendering", token |-> source.token]
           \in [at : {"none", "rendering", "disposing"}, token : Int]
    BY <2>2
  <2> QED BY <1>1, <1>2, <1>t, <2>1, <2>3 DEF RequestTypes, TaskTypes
<1>6. DriveTypes'
  BY <1>1, <1>2, <1>t, FailTransportAbandons DEF DriveTypes
<1>7. source.at # "none" \/ source' = source
  BY <1>2
<1>8. Callers'
  BY <1>1, <1>3, <1>4, <1>7 DEF ForeignInv, Callers, LeavesNative
<1>9. InOrder'
  BY <1>1, <1>3 DEF ForeignInv, InOrder, Delivering, LeavesNative
<1>10. CASE UNCHANGED <<source, abandoned, fatal, renderTask>> /\ drive' = "result"
  <2>1. Owned' /\ RendersDone'
    BY <1>1, <1>3, <1>10
    DEF ForeignInv, Owned, RendersDone, Rendering, Delivering, LeavesNative
  <2>2. EndKnown'
    BY <1>1, <1>4, <1>10, <1>t DEF ForeignInv, EndKnown
  <2> QED BY <1>4, <1>5, <1>6, <1>8, <1>9, <2>1, <2>2 DEF ForeignInv, ForeignTypes
<1>11. CASE /\ source.at = "offered" /\ source' = [source EXCEPT !.at = "polled"]
            /\ renderTask' = [at |-> "rendering", token |-> source.token]
            /\ UNCHANGED <<abandoned, fatal>> /\ drive' = "result"
  <2>1. ~noticed /\ delivering # "notice"
    BY <1>11 DEF ForeignInv, Callers
  <2>2. source'.at = "polled" /\ renderTask'.at = "rendering"
    BY <1>11, <1>t DEF RequestTypes
  <2>3. Owned' /\ RendersDone'
    BY <1>1, <1>3, <1>11, <2>1, <2>2
    DEF ForeignInv, Owned, RendersDone, Delivering, LeavesNative
  <2>4. EndKnown'
    BY <1>1, <1>4, <1>11, <1>t DEF ForeignInv, EndKnown
  <2> QED BY <1>4, <1>5, <1>6, <1>8, <1>9, <2>3, <2>4 DEF ForeignInv, ForeignTypes
<1>12. CASE FailTransport /\ drive' = "idle" /\ UNCHANGED renderTask
  <2>1. fatal' = TRUE /\ abandoned' = TRUE
    BY <1>12, FailTransportAbandons
  <2>2. Owned' /\ RendersDone'
    BY <1>1, <1>3, <1>12, <2>1
    DEF ForeignInv, Owned, RendersDone, Rendering, Delivering, LeavesNative
  <2>3. EndKnown'
    BY <1>1, <1>4, <1>12, <1>t, <2>1 DEF ForeignInv, EndKnown
  <2> QED BY <1>4, <1>5, <1>6, <1>8, <1>9, <2>2, <2>3 DEF ForeignInv, ForeignTypes
<1> QED BY <1>2, <1>10, <1>11, <1>12

LEMMA PollResultKeeps == ForeignInv /\ ~vanished /\ PollResult => ForeignInv'
<1> SUFFICES ASSUME ForeignInv, ~vanished, PollResult PROVE ForeignInv'
  OBVIOUS
<1>1. /\ drive = "result"
      /\ UNCHANGED <<kind, source, nextSource, sequence, wakeCount, posted, loader, told,
                     deliverer>>
      /\ UNCHANGED <<known, drained, received, expected, renderTask, lastSequence, finished,
                     vanished>>
  BY DEF PollResult, counters, wakes
<1>2. \/ /\ drive' = "finish"
         /\ UNCHANGED <<rendering, delivering, sinkOpen, noticed, status, result, abandoned, parked,
                        fatal, deliverTask>>
      \/ /\ ~Delivering /\ result.at = "offered" /\ result' = [result EXCEPT !.at = "polled"]
         /\ \E at \in {"failed", IF delivering = "notice" THEN "await" ELSE "sink"} :
               deliverTask' = [at |-> at, token |-> result.token]
         /\ drive' = "finish"
         /\ UNCHANGED <<rendering, delivering, sinkOpen, noticed, status, abandoned, parked, fatal>>
      \/ /\ ~Delivering /\ result.at = "offered" /\ result' = [result EXCEPT !.at = "polled"]
         /\ FailTransport /\ drive' = "idle" /\ UNCHANGED deliverTask
  BY DEF PollResult, ResultNext, AwaitsRender, contract, contractVars
<1>t. /\ RequestTypes /\ CounterTypes /\ ThreadTypes /\ DriveTypes /\ TaskTypes
      /\ ~finished /\ ~fatal /\ ~known /\ ~abandoned
  BY <1>1 DEF ForeignInv, ForeignTypes, EndKnown
<1>3. LeavesNative
  <2>1. /\ UNCHANGED <<rendering, delivering, sinkOpen, noticed, status>>
        /\ abandoned' \in BOOLEAN /\ (abandoned => abandoned') /\ parked' \in BOOLEAN
    BY <1>2, <1>t, FailTransportAbandons DEF ThreadTypes
  <2> QED BY <1>1, <1>t, <2>1 DEF LeavesNative, CounterTypes, DriveTypes
<1>4. /\ ContractTypes' /\ CounterTypes' /\ ThreadTypes' /\ WakesAdd' /\ WithinLimits'
      /\ (Ended' <=> Ended)
  BY <1>3, LeavesNativeKeeps
<1>5. /\ [result EXCEPT !.at = "polled"] \in [at : RequestPositions, token : Int, ok : BOOLEAN]
      /\ [result EXCEPT !.at = "polled"].at = "polled"
      /\ [result EXCEPT !.at = "polled"].token = result.token
      /\ result.token \in Int
  BY <1>t DEF RequestTypes, RequestPositions
<1>6. RequestTypes' /\ TaskTypes'
  <2>1. \A at \in {"failed", "await", "sink"} :
           [at |-> at, token |-> result.token]
              \in [at : {"none", "await", "sink", "failed"}, token : Int]
    BY <1>5
  <2> QED BY <1>1, <1>2, <1>t, <1>5, <2>1 DEF RequestTypes, TaskTypes
<1>7. DriveTypes'
  BY <1>1, <1>2, <1>t, FailTransportAbandons DEF DriveTypes
<1>8. (result.at # "none" \/ result' = result) /\ result'.token = result.token
  BY <1>2, <1>5
<1>9. Callers'
  BY <1>1, <1>3, <1>4, <1>8 DEF ForeignInv, Callers, LeavesNative
<1>10. CASE /\ deliverTask' = deliverTask /\ result' = result
            /\ fatal' = fatal /\ abandoned' = abandoned
            /\ drive' = "finish"
  <2>1. Owned' /\ RendersDone' /\ InOrder'
    BY <1>1, <1>3, <1>10
    DEF ForeignInv, Owned, RendersDone, InOrder, Rendering, Delivering, LeavesNative
  <2>2. EndKnown'
    BY <1>1, <1>4, <1>10, <1>t DEF ForeignInv, EndKnown
  <2> QED BY <1>4, <1>6, <1>7, <1>9, <2>1, <2>2 DEF ForeignInv, ForeignTypes
<1>11. CASE /\ ~Delivering /\ result.at = "offered" /\ result' = [result EXCEPT !.at = "polled"]
            /\ fatal' = fatal /\ abandoned' = abandoned /\ drive' = "finish"
            /\ \E at \in {"failed", IF delivering = "notice" THEN "await" ELSE "sink"} :
                  deliverTask' = [at |-> at, token |-> result.token]
  <2>1. /\ deliverTask'.token = result.token
        /\ deliverTask'.at # "none" /\ (deliverTask'.at = "sink" => delivering # "notice")
    BY <1>11
  <2>2. Owned' /\ RendersDone'
    BY <1>1, <1>3, <1>5, <1>11, <2>1
    DEF ForeignInv, Owned, RendersDone, Rendering, Delivering, LeavesNative
  <2>3. InOrder'
    <3>1. result.token = sequence - 1 /\ lastSequence < result.token
      BY <1>11, <1>t DEF ForeignInv, InOrder, Callers
    <3>2. result.token < sequence
      BY <3>1, <1>t DEF CounterTypes
    <3> QED BY <1>1, <1>5, <1>11, <2>1, <3>1, <3>2 DEF ForeignInv, InOrder
  <2>4. EndKnown'
    BY <1>1, <1>4, <1>11, <1>t DEF ForeignInv, EndKnown
  <2> QED BY <1>4, <1>6, <1>7, <1>9, <2>2, <2>3, <2>4 DEF ForeignInv, ForeignTypes
<1>12. CASE ~Delivering /\ FailTransport /\ drive' = "idle" /\ UNCHANGED deliverTask
  <2>1. fatal' = TRUE /\ abandoned' = TRUE
    BY <1>12, FailTransportAbandons
  <2>2. Owned' /\ RendersDone' /\ InOrder'
    BY <1>1, <1>3, <1>12, <2>1
    DEF ForeignInv, Owned, RendersDone, InOrder, Rendering, Delivering, LeavesNative
  <2>3. EndKnown'
    BY <1>1, <1>4, <1>12, <1>t, <2>1 DEF ForeignInv, EndKnown
  <2> QED BY <1>4, <1>6, <1>7, <1>9, <2>2, <2>3 DEF ForeignInv, ForeignTypes
<1> QED BY <1>2, <1>10, <1>11, <1>12

LEMMA FinishKeeps == ForeignInv /\ FinishIfDrained => ForeignInv'
<1> SUFFICES ASSUME ForeignInv, FinishIfDrained PROVE ForeignInv'
  OBVIOUS
<1>1. /\ drive = "finish" /\ drive' = "idle" /\ finished' = MayFinish
      /\ abandoned' = (abandoned \/ MayFinish)
      /\ UNCHANGED <<rendering, delivering, sinkOpen, noticed, status, kind, source, result,
                     nextSource, sequence, wakeCount, posted, loader, told, deliverer, parked>>
      /\ UNCHANGED <<fatal, known, drained, received, expected, renderTask, deliverTask,
                     lastSequence, vanished>>
  BY DEF FinishIfDrained, contract, contractVars, channels, counters, wakes, callers
<1>t. /\ RequestTypes /\ CounterTypes /\ ThreadTypes /\ DriveTypes /\ TaskTypes
  BY DEF ForeignInv, ForeignTypes
<1>2. MayFinish \in BOOLEAN
  BY DEF MayFinish
<1>3. LeavesNative
  BY <1>1, <1>2, <1>t DEF LeavesNative, CounterTypes, ThreadTypes, DriveTypes
<1>4. /\ ContractTypes' /\ CounterTypes' /\ ThreadTypes' /\ WakesAdd' /\ WithinLimits'
      /\ (Ended' <=> Ended)
  BY <1>3, LeavesNativeKeeps
<1>5. RequestTypes' /\ TaskTypes'
  BY <1>1, <1>t DEF RequestTypes, TaskTypes
<1>6. DriveTypes'
  BY <1>1, <1>2, <1>t DEF DriveTypes
<1>7. Callers'
  BY <1>1, <1>4 DEF ForeignInv, Callers
<1>8. Owned' /\ RendersDone' /\ InOrder'
  <2>1. abandoned => abandoned'
    BY <1>3 DEF LeavesNative
  <2> QED BY <1>1, <2>1 DEF ForeignInv, Owned, RendersDone, InOrder, Rendering, Delivering
<1>9. EndKnown'
  <2>1. finished' => /\ drained /\ ~Rendering /\ ~Delivering /\ received >= expected
                     /\ expected = wakeCount
    BY <1>1 DEF MayFinish, ForeignInv, EndKnown
  <2>2. (abandoned' <=> abandoned \/ finished')
    BY <1>1
  <2>3. ~finished
    BY <1>1 DEF ForeignInv, EndKnown
  <2> HIDE DEF MayFinish
  <2> QED BY <1>1, <1>4, <2>1, <2>2, <2>3 DEF ForeignInv, EndKnown, Rendering, Delivering
<1> QED BY <1>4, <1>5, <1>6, <1>7, <1>8, <1>9 DEF ForeignInv, ForeignTypes

LEMMA RenderAnswersKeeps == ForeignInv /\ RenderAnswers => ForeignInv'
<1> SUFFICES ASSUME ForeignInv, RenderAnswers PROVE ForeignInv'
  OBVIOUS
<1>1. /\ drive = "idle" /\ renderTask.at = "rendering"
      /\ renderTask' = [renderTask EXCEPT !.at = "disposing"]
      /\ UNCHANGED <<kind, result, nextSource, sequence, wakeCount, posted, loader, told,
                     deliverer>>
      /\ UNCHANGED <<drive, known, drained, received, expected, deliverTask, lastSequence, finished,
                     vanished>>
  BY DEF RenderAnswers, Loop, counters, wakes
<1>2. \/ /\ fatal /\ source' = source
         /\ UNCHANGED <<rendering, delivering, sinkOpen, noticed, status, abandoned, parked, fatal>>
      \/ /\ ~fatal /\ ~abandoned /\ source.at = "polled"
         /\ source' = [source EXCEPT !.at = "replied"]
         /\ UNCHANGED <<rendering, delivering, sinkOpen, noticed, status, abandoned, parked, fatal>>
      \/ FailTransport /\ source' = source
  <2>1. CASE fatal
    <3>1. source' = source /\ UNCHANGED <<contract, abandoned, parked, fatal>>
      BY <2>1 DEF RenderAnswers
    <3>2. UNCHANGED <<rendering, delivering, sinkOpen, noticed, status, abandoned, parked, fatal>>
      BY <3>1 DEF contract, contractVars
    <3> QED BY <2>1, <3>1, <3>2
  <2>2. CASE ~fatal /\ AcceptsReply(renderTask.token)
    BY <2>2 DEF RenderAnswers, AcceptsReply, SourceReply, contract, contractVars
  <2>3. CASE ~fatal /\ ~AcceptsReply(renderTask.token)
    BY <2>3 DEF RenderAnswers
  <2> QED BY <2>1, <2>2, <2>3
<1>t. /\ RequestTypes /\ CounterTypes /\ ThreadTypes /\ DriveTypes /\ TaskTypes /\ ~finished
  BY <1>1 DEF ForeignInv, ForeignTypes, EndKnown, Rendering
<1>3. LeavesNative
  <2>1. /\ UNCHANGED <<rendering, delivering, sinkOpen, noticed, status>>
        /\ abandoned' \in BOOLEAN /\ (abandoned => abandoned') /\ parked' \in BOOLEAN
    BY <1>2, <1>t, FailTransportAbandons DEF ThreadTypes
  <2> QED BY <1>1, <1>t, <2>1 DEF LeavesNative, CounterTypes, DriveTypes
<1>4. /\ ContractTypes' /\ CounterTypes' /\ ThreadTypes' /\ WakesAdd' /\ WithinLimits'
      /\ (Ended' <=> Ended)
  BY <1>3, LeavesNativeKeeps
<1>5. /\ [source EXCEPT !.at = "replied"] \in [at : RequestPositions, token : Nat]
      /\ [source EXCEPT !.at = "replied"].at = "replied"
  BY <1>t DEF RequestTypes, RequestPositions
<1>6. /\ renderTask' \in [at : {"none", "rendering", "disposing"}, token : Int]
      /\ renderTask'.at = "disposing"
  BY <1>1, <1>t DEF TaskTypes
<1>7. RequestTypes' /\ TaskTypes'
  BY <1>1, <1>2, <1>t, <1>5, <1>6 DEF RequestTypes, TaskTypes
<1>8. DriveTypes'
  BY <1>1, <1>2, <1>t, FailTransportAbandons DEF DriveTypes
<1>9. source' = source \/ source.at = "polled"
  BY <1>2
<1>10. Callers'
  BY <1>1, <1>3, <1>4, <1>9 DEF ForeignInv, Callers, LeavesNative
<1>11. Owned'
  <2>1. CASE fatal /\ abandoned' = abandoned
    BY <2>1 DEF ForeignInv, EndKnown, Owned
  <2>2. CASE ~fatal /\ source' = [source EXCEPT !.at = "replied"] /\ abandoned' = abandoned
    BY <1>1, <1>5, <1>6, <2>2 DEF ForeignInv, Owned, Delivering
  <2>3. CASE FailTransport
    BY <2>3, FailTransportAbandons DEF Owned
  <2> QED BY <1>2, <2>1, <2>2, <2>3
<1>12. RendersDone' /\ InOrder'
  BY <1>1, <1>3, <1>6 DEF ForeignInv, RendersDone, InOrder, Rendering, Delivering, LeavesNative
<1>13. EndKnown'
  <2>1. (fatal' => abandoned') /\ (abandoned' => fatal' \/ vanished \/ finished)
    <3>1. CASE UNCHANGED <<abandoned, fatal>>
      BY <1>1, <3>1 DEF ForeignInv, EndKnown
    <3>2. CASE FailTransport
      BY <3>2, FailTransportAbandons
    <3> QED BY <1>2, <3>1, <3>2
  <2>2. fatal => fatal'
    BY <1>2, FailTransportAbandons
  <2> QED BY <1>1, <1>4, <1>t, <2>1, <2>2 DEF ForeignInv, EndKnown
<1> QED BY <1>4, <1>7, <1>8, <1>10, <1>11, <1>12, <1>13 DEF ForeignInv, ForeignTypes

LEMMA RenderDisposedKeeps == ForeignInv /\ RenderDisposed => ForeignInv'
<1> SUFFICES ASSUME ForeignInv, RenderDisposed PROVE ForeignInv'
  OBVIOUS
<1>1. /\ drive = "idle" /\ renderTask.at = "disposing" /\ renderTask' = Idle
      /\ drive' = IF finished THEN "idle" ELSE "progress"
      /\ UNCHANGED <<kind, source, result, nextSource, sequence, wakeCount, posted, loader, told,
                     deliverer>>
      /\ UNCHANGED <<known, drained, received, expected, deliverTask, lastSequence, finished,
                     vanished>>
  BY DEF RenderDisposed, Loop, Drives, channels, counters, wakes
<1>2. \/ UNCHANGED <<rendering, delivering, sinkOpen, noticed, status, abandoned, parked, fatal>>
      \/ FailTransport
  BY DEF RenderDisposed, contract, contractVars
<1>t. /\ RequestTypes /\ CounterTypes /\ ThreadTypes /\ DriveTypes /\ TaskTypes /\ ~finished
  BY <1>1 DEF ForeignInv, ForeignTypes, EndKnown, Rendering
<1>3. LeavesNative
  <2>1. /\ UNCHANGED <<rendering, delivering, sinkOpen, noticed, status>>
        /\ abandoned' \in BOOLEAN /\ (abandoned => abandoned') /\ parked' \in BOOLEAN
    BY <1>2, <1>t, FailTransportAbandons DEF ThreadTypes
  <2> QED BY <1>1, <1>t, <2>1 DEF LeavesNative, CounterTypes, DriveTypes
<1>4. /\ ContractTypes' /\ CounterTypes' /\ ThreadTypes' /\ WakesAdd' /\ WithinLimits'
      /\ (Ended' <=> Ended)
  BY <1>3, LeavesNativeKeeps
<1>5. /\ renderTask' \in [at : {"none", "rendering", "disposing"}, token : Int]
      /\ renderTask'.at = "none"
  BY <1>1 DEF Idle
<1>6. RequestTypes' /\ TaskTypes'
  BY <1>1, <1>t, <1>5 DEF RequestTypes, TaskTypes
<1>7. DriveTypes'
  BY <1>1, <1>2, <1>t, FailTransportAbandons DEF DriveTypes
<1>8. Callers'
  BY <1>1, <1>3, <1>4 DEF ForeignInv, Callers, LeavesNative
<1>9. Owned' /\ RendersDone' /\ InOrder'
  BY <1>1, <1>3, <1>5
  DEF ForeignInv, Owned, RendersDone, InOrder, Rendering, Delivering, LeavesNative
<1>10. EndKnown'
  <2>1. (fatal' => abandoned') /\ (abandoned' => fatal' \/ vanished \/ finished)
    <3>1. CASE UNCHANGED <<abandoned, fatal>>
      BY <1>1, <3>1 DEF ForeignInv, EndKnown
    <3>2. CASE FailTransport
      BY <3>2, FailTransportAbandons
    <3> QED BY <1>2, <3>1, <3>2
  <2>2. fatal => fatal'
    BY <1>2, FailTransportAbandons
  <2> QED BY <1>1, <1>4, <1>t, <2>1, <2>2 DEF ForeignInv, EndKnown
<1> QED BY <1>4, <1>6, <1>7, <1>8, <1>9, <1>10 DEF ForeignInv, ForeignTypes

LEMMA DeliverAwaitedKeeps == ForeignInv /\ DeliverAwaited => ForeignInv'
<1> SUFFICES ASSUME ForeignInv, DeliverAwaited PROVE ForeignInv'
  OBVIOUS
<1>1. /\ drive = "idle" /\ deliverTask.at = "await" /\ ~Rendering
      /\ deliverTask' = [deliverTask EXCEPT !.at = IF fatal THEN "failed" ELSE "sink"]
      /\ UNCHANGED <<rendering, delivering, sinkOpen, noticed, status, kind, source, result,
                     nextSource, sequence, wakeCount, posted, abandoned, loader, told, deliverer,
                     parked>>
      /\ UNCHANGED <<drive, fatal, known, drained, received, expected, renderTask, lastSequence,
                     finished, vanished>>
  BY DEF DeliverAwaited, Loop, bridgeVars, contract, contractVars, channels, counters, wakes,
         callers
<1>t. /\ RequestTypes /\ CounterTypes /\ ThreadTypes /\ DriveTypes /\ TaskTypes /\ ~finished
  BY <1>1 DEF ForeignInv, ForeignTypes, EndKnown, Delivering
<1>2. LeavesNative
  BY <1>1, <1>t DEF LeavesNative, CounterTypes, ThreadTypes, DriveTypes
<1>3. /\ ContractTypes' /\ CounterTypes' /\ ThreadTypes' /\ WakesAdd' /\ WithinLimits'
      /\ (Ended' <=> Ended)
  BY <1>2, LeavesNativeKeeps
<1>4. /\ deliverTask' \in [at : {"none", "await", "sink", "failed"}, token : Int]
      /\ deliverTask'.at \in {"sink", "failed"} /\ deliverTask'.token = deliverTask.token
  BY <1>1, <1>t DEF TaskTypes
<1>5. RequestTypes' /\ TaskTypes' /\ DriveTypes'
  BY <1>1, <1>t, <1>4 DEF RequestTypes, TaskTypes, DriveTypes
<1>6. Callers'
  BY <1>1, <1>3 DEF ForeignInv, Callers
<1>7. Owned' /\ RendersDone' /\ InOrder'
  BY <1>1, <1>4 DEF ForeignInv, Owned, RendersDone, InOrder, Rendering, Delivering
<1>8. EndKnown'
  BY <1>1, <1>3, <1>t DEF ForeignInv, EndKnown
<1> QED BY <1>3, <1>5, <1>6, <1>7, <1>8 DEF ForeignInv, ForeignTypes

LEMMA DeliverAcksKeeps == ForeignInv /\ DeliverAcks => ForeignInv'
<1> SUFFICES ASSUME ForeignInv, DeliverAcks PROVE ForeignInv'
  OBVIOUS
<1>1. /\ drive = "idle" /\ deliverTask.at \in {"sink", "failed"} /\ deliverTask' = Idle
      /\ drive' = IF finished THEN "idle" ELSE "progress"
      /\ UNCHANGED <<kind, source, nextSource, sequence, wakeCount, posted, loader, told,
                     deliverer>>
      /\ UNCHANGED <<known, drained, received, expected, renderTask, finished, vanished>>
  BY DEF DeliverAcks, Loop, Drives, counters, wakes
<1>2. PICK ok \in BOOLEAN :
         /\ deliverTask.at = "failed" => ~ok
         /\ lastSequence' = IF ok THEN deliverTask.token ELSE lastSequence
         /\ IF AcceptsAck(deliverTask.token) \/ fatal
            THEN /\ ResultAck(deliverTask.token, ok)
                 /\ UNCHANGED <<contract, abandoned, fatal>>
            ELSE FailTransport /\ UNCHANGED result
  BY DEF DeliverAcks, Acknowledged
<1>t. /\ RequestTypes /\ CounterTypes /\ ThreadTypes /\ DriveTypes /\ TaskTypes /\ ~finished
  BY <1>1 DEF ForeignInv, ForeignTypes, EndKnown, Delivering
<1>3. \/ /\ ~abandoned /\ result.at = "polled" /\ result.token = deliverTask.token
         /\ result' = [result EXCEPT !.at = "replied", !.ok = ok] /\ parked' \in BOOLEAN
         /\ UNCHANGED <<rendering, delivering, sinkOpen, noticed, status, abandoned, fatal>>
      \/ /\ fatal /\ result' = result /\ parked' \in BOOLEAN
         /\ UNCHANGED <<rendering, delivering, sinkOpen, noticed, status, abandoned, fatal>>
      \/ FailTransport /\ result' = result
  <2>1. CASE AcceptsAck(deliverTask.token)
    BY <1>2, <2>1 DEF AcceptsAck, ResultAck, contract, contractVars
  <2>2. CASE ~AcceptsAck(deliverTask.token) /\ fatal
    BY <1>2, <2>2 DEF ResultAck, contract, contractVars
  <2>3. CASE ~AcceptsAck(deliverTask.token) /\ ~fatal
    BY <1>2, <2>3
  <2> QED BY <2>1, <2>2, <2>3
<1>4. LeavesNative
  <2>1. /\ UNCHANGED <<rendering, delivering, sinkOpen, noticed, status>>
        /\ abandoned' \in BOOLEAN /\ (abandoned => abandoned') /\ parked' \in BOOLEAN
    BY <1>3, <1>t, FailTransportAbandons DEF ThreadTypes
  <2> QED BY <1>1, <1>t, <2>1 DEF LeavesNative, CounterTypes, DriveTypes
<1>5. /\ ContractTypes' /\ CounterTypes' /\ ThreadTypes' /\ WakesAdd' /\ WithinLimits'
      /\ (Ended' <=> Ended)
  BY <1>4, LeavesNativeKeeps
<1>6. /\ [result EXCEPT !.at = "replied", !.ok = ok]
            \in [at : RequestPositions, token : Int, ok : BOOLEAN]
      /\ [result EXCEPT !.at = "replied", !.ok = ok].at = "replied"
      /\ [result EXCEPT !.at = "replied", !.ok = ok].token = result.token
      /\ [result EXCEPT !.at = "replied", !.ok = ok].ok = ok
  BY <1>t DEF RequestTypes, RequestPositions
<1>7. /\ deliverTask' \in [at : {"none", "await", "sink", "failed"}, token : Int]
      /\ deliverTask'.at = "none" /\ deliverTask.token \in Int /\ lastSequence \in Int
  BY <1>1, <1>t DEF Idle, TaskTypes, DriveTypes
<1>8. RequestTypes' /\ TaskTypes'
  BY <1>1, <1>3, <1>t, <1>6, <1>7 DEF RequestTypes, TaskTypes
<1>9. lastSequence' \in Int /\ lastSequence' \in {lastSequence, deliverTask.token}
  BY <1>2, <1>7
<1>10. DriveTypes'
  BY <1>1, <1>3, <1>t, <1>9, FailTransportAbandons DEF DriveTypes
<1>11. result'.token = result.token /\ (result' = result \/ result.at = "polled")
  BY <1>3, <1>6
<1>12. Callers'
  BY <1>1, <1>4, <1>5, <1>11 DEF ForeignInv, Callers, LeavesNative
<1>13. CASE /\ ~abandoned /\ result.at = "polled" /\ result.token = deliverTask.token
            /\ result' = [result EXCEPT !.at = "replied", !.ok = ok]
            /\ UNCHANGED <<abandoned, fatal>>
  <2>1. result'.at = "replied" /\ result'.token = deliverTask.token /\ result'.ok = ok
    BY <1>6, <1>13
  <2>2. Owned'
    BY <1>1, <1>7, <1>13, <2>1 DEF ForeignInv, Owned, Delivering
  <2>3. RendersDone'
    <3>1. deliverTask.at = "sink" \/ ~ok
      BY <1>1, <1>2
    <3>2. delivering = "notice" /\ ok => ~Rendering
      BY <1>13, <3>1 DEF ForeignInv, RendersDone
    <3> QED BY <1>1, <1>4, <1>7, <2>1, <3>2
            DEF ForeignInv, RendersDone, Rendering, LeavesNative
  <2>4. InOrder'
    <3>1. -1 <= lastSequence' /\ lastSequence' < sequence
      BY <1>1, <1>7, <1>9 DEF ForeignInv, InOrder, Delivering
    <3>2. ok => lastSequence' = deliverTask.token
      BY <1>2
    <3> QED BY <1>1, <1>7, <2>1, <3>1, <3>2 DEF InOrder, Delivering
  <2>5. EndKnown'
    BY <1>1, <1>5, <1>7, <1>13, <1>t DEF ForeignInv, EndKnown
  <2> QED BY <1>5, <1>8, <1>10, <1>12, <2>2, <2>3, <2>4, <2>5 DEF ForeignInv, ForeignTypes
<1>14. CASE fatal' /\ abandoned'
  <2>1. Owned'
    BY <1>14 DEF Owned
  <2>2. RendersDone'
    BY <1>1, <1>4, <1>14 DEF ForeignInv, RendersDone, Rendering, LeavesNative
  <2>3. InOrder'
    <3>1. -1 <= lastSequence' /\ lastSequence' < sequence
      BY <1>1, <1>7, <1>9 DEF ForeignInv, InOrder, Delivering
    <3> QED BY <1>1, <1>7, <1>14, <3>1 DEF InOrder, Delivering
  <2>4. EndKnown'
    BY <1>1, <1>5, <1>7, <1>14, <1>t DEF ForeignInv, EndKnown
  <2> QED BY <1>5, <1>8, <1>10, <1>12, <2>1, <2>2, <2>3, <2>4 DEF ForeignInv, ForeignTypes
<1>15. fatal => abandoned
  BY DEF ForeignInv, EndKnown
<1>16. CASE fatal /\ UNCHANGED <<abandoned, fatal>>
  BY <1>14, <1>15, <1>16
<1>17. CASE FailTransport
  BY <1>14, <1>17, FailTransportAbandons
<1> QED BY <1>3, <1>13, <1>16, <1>17

(* The user, and a client that goes away.                                    *)
LEMMA UserCancelsKeeps == ForeignInv /\ UserCancels => ForeignInv'
<1> SUFFICES ASSUME ForeignInv, UserCancels PROVE ForeignInv'
  OBVIOUS
<1>1. /\ UNCHANGED <<rendering, delivering, sinkOpen, noticed, status, kind, source, result,
                     nextSource, sequence, wakeCount, posted, abandoned, loader, told, deliverer,
                     parked>>
      /\ UNCHANGED <<drive, fatal, known, drained, received, expected, renderTask, deliverTask,
                     lastSequence, finished, vanished>>
  BY DEF UserCancels, CancelJob, dartVars, channels, counters, wakes, callers
<1> QED BY <1>1, NothingMoves

LEMMA ClientVanishesKeeps == ForeignInv /\ ClientVanishes => ForeignInv'
<1> SUFFICES ASSUME ForeignInv, ClientVanishes PROVE ForeignInv'
  OBVIOUS
<1>1. /\ ~finished /\ vanished' = TRUE /\ abandoned' = TRUE /\ parked' = FALSE
      /\ UNCHANGED <<rendering, delivering, sinkOpen, noticed, status, kind, source, result,
                     nextSource, sequence, wakeCount, posted, loader, told, deliverer>>
      /\ UNCHANGED <<drive, fatal, known, drained, received, expected, renderTask, deliverTask,
                     lastSequence, finished>>
  BY DEF ClientVanishes, Abandon, CancelJob, channels, counters, wakes
<1>t. /\ RequestTypes /\ CounterTypes /\ ThreadTypes /\ DriveTypes /\ TaskTypes
  BY DEF ForeignInv, ForeignTypes
<1>2. LeavesNative
  BY <1>1, <1>t DEF LeavesNative, CounterTypes, DriveTypes
<1>3. /\ ContractTypes' /\ CounterTypes' /\ ThreadTypes' /\ WakesAdd' /\ WithinLimits'
      /\ (Ended' <=> Ended)
  BY <1>2, LeavesNativeKeeps
<1>4. RequestTypes' /\ TaskTypes' /\ DriveTypes'
  BY <1>1, <1>t DEF RequestTypes, TaskTypes, DriveTypes
<1>5. Callers'
  BY <1>1, <1>3 DEF ForeignInv, Callers
<1>6. Owned' /\ RendersDone' /\ InOrder'
  BY <1>1 DEF ForeignInv, Owned, RendersDone, InOrder, Rendering, Delivering
<1>7. EndKnown'
  BY <1>1, <1>3 DEF ForeignInv, EndKnown
<1> QED BY <1>3, <1>4, <1>5, <1>6, <1>7 DEF ForeignInv, ForeignTypes

-----------------------------------------------------------------------------
(* The specification.                                                        *)

LEMMA ForeignStep == ForeignInv /\ [ClientNext]_clientVars => ForeignInv'
  BY NativeKeeps, PollOutcomeKeeps, PollSourceKeeps, PollResultKeeps, FinishKeeps,
     RenderAnswersKeeps, RenderDisposedKeeps, DeliverAwaitedKeeps, DeliverAcksKeeps,
     WakeArrivesKeeps, TimerFiresKeeps, UserCancelsKeeps, ClientVanishesKeeps, StandsStill
  DEF ClientNext, Polls, Tasks, Over

LEMMA ForeignAlways == ClientSpec => []ForeignInv
  BY ForeignStarts, ForeignStep, PTL DEF ClientSpec

LEMMA TypesFollow == ForeignInv => ClientTypes
<1> SUFFICES ASSUME ForeignInv PROVE ClientTypes
  OBVIOUS
<1>t. /\ RequestTypes /\ CounterTypes /\ ThreadTypes /\ DriveTypes /\ TaskTypes
  BY DEF ForeignInv, ForeignTypes
<1>1. /\ source.at \in RequestPositions /\ result.at \in RequestPositions /\ result.ok \in BOOLEAN
      /\ renderTask.at \in {"none", "rendering", "disposing"}
      /\ deliverTask.at \in {"none", "await", "sink", "failed"}
  BY <1>t DEF RequestTypes, TaskTypes
<1>2. nextSource \in 0 .. MaxRequests /\ sequence \in 0 .. MaxUpdates + 1
  BY <1>t, LimitTypes, BridgeAssumption DEF ForeignInv, WithinLimits, CounterTypes
<1>3. Owed \in Nat /\ Underway \in Nat
  BY DEF Owed, Underway, One
<1>4. received + posted <= wakeCount
  <2>1. \A r, p, u, w \in Nat : r + p + u = w => r + p <= w
    OBVIOUS
  <2> QED BY <1>t, <1>3, <2>1 DEF ForeignInv, WakesAdd, CounterTypes, DriveTypes
<1>5. wakeCount <= 2 * MaxRequests + MaxUpdates + 1
  <2>1. \A w, o, n, q, m, u \in Nat :
           w + o <= 2 * n + q /\ n <= m /\ q <= u + 1 => w <= 2 * m + u + 1
    OBVIOUS
  <2>2. nextSource <= MaxRequests /\ sequence <= MaxUpdates + 1
    BY <1>2, BridgeAssumption
  <2> QED BY <1>t, <1>3, <2>1, <2>2, BridgeAssumption DEF ForeignInv, WakesAdd, CounterTypes
<1>6. posted \in 0 .. wakeCount
  BY <1>t, <1>4 DEF CounterTypes, DriveTypes
<1>7. lastSequence \in -1 .. MaxUpdates
  BY <1>t, <1>2, BridgeAssumption DEF ForeignInv, InOrder, DriveTypes, CounterTypes
<1> QED BY <1>t, <1>1, <1>2, <1>4, <1>5, <1>6, <1>7
        DEF ClientTypes, RequestPositions, ThreadTypes, DriveTypes

LEMMA CleanFollows == ForeignInv => FinishedClean
<1> SUFFICES ASSUME ForeignInv PROVE FinishedClean
  OBVIOUS
<1>t. /\ CounterTypes /\ ThreadTypes /\ DriveTypes /\ TaskTypes
  BY DEF ForeignInv, ForeignTypes
<1>1. WakeOutlivesCalls
  <2> SUFFICES ASSUME finished PROVE /\ Ended /\ loader = "idle" /\ deliverer = "idle"
                                     /\ posted = 0 /\ received = wakeCount
    BY DEF WakeOutlivesCalls
  <2>1. Ended /\ loader = "idle" /\ deliverer = "idle" /\ received >= wakeCount
    BY DEF ForeignInv, EndKnown, Callers
  <2>2. received + posted <= wakeCount
    BY TypesFollow DEF ClientTypes
  <2> QED BY <1>t, <2>1, <2>2 DEF CounterTypes, DriveTypes
<1>2. BoundaryAligned
  BY DEF BoundaryAligned, ForeignInv, RendersDone
<1>3. NoStrayRender
  BY DEF NoStrayRender, ForeignInv, Callers, Owned
<1> QED BY TypesFollow, <1>1, <1>2, <1>3 DEF FinishedClean

(* Whatever the interleaving of the two native threads, the event loop, a    *)
(* failing transport, a cancellation and a client that vanishes: once the    *)
(* bindings close the wake callable every wake call was made and received    *)
(* (podoco-ffi/src/transport.rs, notify and drain_state; analysis_jobs.dart, *)
(* _finishIfDrained), and no render of an ended job is left in the client.   *)
THEOREM WakeOutlivesItsCalls == ClientSpec => []FinishedClean
  BY ForeignAlways, CleanFollows, PTL

(* The sink's own calls alone begin and end a delivery, and only an          *)
(* acknowledgement moves the client's last sequence.                         *)
LEMMA DeliveringMoves ==
  ASSUME ForeignInv, [ClientNext]_clientVars
  PROVE  delivering' = delivering \/ DeliverBegins \/ DeliverReturns
<1>1. CASE Native
  BY <1>1 DEF Native, Loader, LoadBegins, BeginRender, LoadCounts, LoadPosts, LoadTells,
         LoadReturns,
       EndRender, LoadSpins, Deliverer, DeliverCounts, DeliverPosts, DeliverParks, Job, JobCloses,
       CloseSink, JobBreaks, Break, JobEnds, End, bridgeVars, contract, contractVars
<1>2. CASE Polls
  BY <1>2, FailTransportAbandons DEF Polls, PollOutcome, PollSource, PollResult, FinishIfDrained,
         contract, contractVars
<1>3. CASE Tasks
  <2>1. CASE RenderAnswers
    BY <2>1, FailTransportAbandons DEF RenderAnswers, contract, contractVars
  <2>2. CASE RenderDisposed
    BY <2>2, FailTransportAbandons DEF RenderDisposed, contract, contractVars
  <2>3. CASE DeliverAwaited
    BY <2>3 DEF DeliverAwaited, bridgeVars, contract, contractVars
  <2>4. CASE DeliverAcks
    BY <2>4, FailTransportAbandons DEF DeliverAcks, contract, contractVars
  <2> QED BY <1>3, <2>1, <2>2, <2>3, <2>4 DEF Tasks
<1>4. CASE WakeArrives \/ TimerFires \/ UserCancels \/ ClientVanishes
  BY <1>4 DEF WakeArrives, TimerFires, UserCancels, ClientVanishes, Abandon, CancelJob, nativeOnly,
              bridgeVars, contract, contractVars
<1>5. CASE UNCHANGED clientVars
  BY <1>5 DEF clientVars, bridgeVars, contract, contractVars
<1> QED BY <1>1, <1>2, <1>3, <1>4, <1>5 DEF ClientNext, Over

LEMMA LastSequenceMoves ==
  ASSUME ForeignInv, [ClientNext]_clientVars
  PROVE  lastSequence' = lastSequence \/ DeliverAcks
  BY DEF ClientNext, Native, dartVars, Polls, PollOutcome, PollSource, PollResult, FinishIfDrained,
         Tasks, RenderAnswers, RenderDisposed, DeliverAwaited, WakeArrives, TimerFires, UserCancels,
         ClientVanishes, Over, clientVars

LEMMA AcksStep ==
  ASSUME ForeignInv, [ClientNext]_clientVars
  PROVE  /\ delivering # "idle" /\ delivering' = "idle" /\ sinkOpen' =>
              lastSequence = result.token /\ result.token = sequence - 1
         /\ lastSequence' # lastSequence => lastSequence' > lastSequence
<1>1. ASSUME delivering # "idle", delivering' = "idle", sinkOpen'
      PROVE  lastSequence = result.token /\ result.token = sequence - 1
  <2>1. DeliverReturns
    BY <1>1, DeliveringMoves DEF DeliverBegins, BeginContent, BeginNotice
  <2>2. ~SinkRefuses
    BY <1>1 DEF SinkRefuses
  <2>3. ~abandoned /\ result.at = "replied" /\ result.ok
    BY <2>1, <2>2 DEF DeliverReturns
  <2> QED BY <2>3 DEF ForeignInv, InOrder, Callers
<1>2. ASSUME lastSequence' # lastSequence PROVE lastSequence' > lastSequence
  <2>1. DeliverAcks
    BY <1>2, LastSequenceMoves
  <2>2. lastSequence' = deliverTask.token /\ Delivering
    BY <1>2, <2>1 DEF DeliverAcks, Delivering
  <2>3. lastSequence \in Int /\ deliverTask.token \in Int
    BY DEF ForeignInv, ForeignTypes, DriveTypes, TaskTypes
  <2> QED BY <2>2, <2>3 DEF ForeignInv, InOrder
<1> QED BY <1>1, <1>2

(* A delivery the job counts as accepted is the update handed over last, and *)
(* the client's sink completed it; acknowledgements only move forward, so no *)
(* update is counted twice.                                                  *)
THEOREM AcknowledgedInOrder == ClientSpec => AcksHonest
  BY ForeignAlways, AcksStep, PTL DEF ClientSpec, AcksHonest
=============================================================================
