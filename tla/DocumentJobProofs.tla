-------------------------- MODULE DocumentJobProofs --------------------------
(* Theorems about DocumentJob, for every number of pages and formulas and    *)
(* every limit the assumptions of the module admit.                          *)
EXTENDS DocumentJob, TLAPS, SequenceTheorems, WellFoundedInduction

-----------------------------------------------------------------------------
(* The worker's locals: what a step leaves of them.                          *)

SameCourse(v, w) == /\ v.page = w.page /\ v.left = w.left
                    /\ v.all = w.all /\ v.emit = w.emit

LEMMA WithFailure ==
  ASSUME NEW w \in Works, NEW c \in Codes \cup {None}, NEW v, v = [w EXCEPT !.failure = c]
  PROVE  v \in Works /\ v.held = w.held /\ SameCourse(v, w)
  BY DEF Works, SameCourse

LEMMA WithHeld ==
  ASSUME NEW w \in Works, NEW bytes \in 0 .. InputLimit, NEW v, v = [w EXCEPT !.held = bytes]
  PROVE  v \in Works /\ v.held = bytes /\ SameCourse(v, w)
  BY DEF Works, SameCourse

LEMMA WithBroken ==
  ASSUME NEW w \in Works, NEW b \in BOOLEAN, NEW v, v = [w EXCEPT !.broken = b]
  PROVE  v \in Works /\ v.held = w.held /\ SameCourse(v, w)
  BY DEF Works, SameCourse

LEMMA WithSummary ==
  ASSUME NEW w \in Works, NEW s \in Statuses, NEW v, v = [w EXCEPT !.summary = s]
  PROVE  v \in Works /\ v.held = w.held /\ SameCourse(v, w)
  BY DEF Works, SameCourse

LEMMA WithLeft ==
  ASSUME NEW w \in Works, NEW n \in 0 .. MaxFormulas, NEW v, v = [w EXCEPT !.left = n]
  PROVE  v \in Works /\ v.held = w.held /\ v.left = n /\ v.page = w.page /\ v.all = w.all
  BY DEF Works

LEMMA WithPage ==
  ASSUME NEW w \in Works, w.page # NumPages, NEW v, v = [w EXCEPT !.page = @ + 1]
  PROVE  v \in Works /\ v.held = w.held /\ v.left = w.left /\ v.all = w.all
  BY LimitsAssumption DEF Works

LEMMA Emits ==
  ASSUME NEW w \in Works, NEW kind \in Kinds, NEW v, v = Emitting(w, kind)
  PROVE  /\ v \in Works /\ v.held = w.held /\ v.emit = kind
         /\ v.page = w.page /\ v.left = w.left /\ v.all = w.all
<1> DEFINE u == [w EXCEPT !.emit = kind]
           x == [u EXCEPT !.sequence = w.sequence + 1]
<1>1. /\ u \in Works /\ u.held = w.held /\ u.emit = kind /\ u.page = w.page
      /\ u.left = w.left /\ u.all = w.all /\ u.sequence = w.sequence
  BY DEF Works
<1> HIDE DEF u
<1>2. /\ x \in Works /\ x.held = u.held /\ x.emit = u.emit /\ x.page = u.page
      /\ x.left = u.left /\ x.all = u.all
  <2>1. w.sequence + 1 \in Nat BY DEF Works
  <2> QED BY <1>1, <2>1 DEF Works
<1>3. v = x BY DEF Emitting, u
<1> QED BY <1>1, <1>2, <1>3

(* Every way to give up a page ends at "stop" with its raster dropped.       *)
LEMMA Abandons ==
  ASSUME NEW w \in Works, NEW c \in Codes \cup {None},
         NEW v, v = [w EXCEPT !.failure = c, !.held = 0]
  PROVE  v \in Works /\ v.held = 0 /\ SameCourse(v, w)
<1> DEFINE u == [w EXCEPT !.failure = c]
           x == [u EXCEPT !.held = 0]
<1>1. u \in Works /\ SameCourse(u, w) BY WithFailure
<1>2. v = x OBVIOUS
<1> HIDE DEF u
<1>3. 0 \in 0 .. InputLimit BY LimitsAssumption
<1>4. x \in Works /\ x.held = 0 /\ SameCourse(x, u) BY <1>1, <1>3, WithHeld
<1> HIDE DEF x
<1> QED BY <1>1, <1>2, <1>4 DEF SameCourse

LEMMA Stops ==
  ASSUME TypeOK, NEW c \in Codes \cup {None}, StopWith(c)
  PROVE  work' \in Works /\ work'.held = 0 /\ SameCourse(work', work) /\ wpc' = "stop"
  BY Abandons DEF StopWith, TypeOK

(* The codes a worker stops with.                                            *)
LEMMA StopCodes ==
  ASSUME TypeOK
  PROVE  /\ StopReason \in Codes \cup {None} /\ LoadStop \in Codes \cup {None}
         /\ EmitStop \in Codes \cup {None}
  BY DEF TypeOK, Controls, StopReason, LoadStop, EmitStop, Codes

LEMMA EmitFailing ==
  ASSUME TypeOK, NEW c \in Codes, EmitFails(c)
  PROVE  /\ work' \in Works /\ work'.held = 0 /\ SameCourse(work', work)
         /\ control' \in Controls /\ wpc' \in {"stopDelivery", "stop"}
<1> DEFINE code == IF work.failure = None /\ work.emit # "document" THEN c ELSE work.failure
<1>1. code \in Codes \cup {None} BY DEF TypeOK, Works
<1>2. work' = [work EXCEPT !.failure = code, !.held = 0] BY DEF EmitFails
<1>3. control' \in Controls
  <2>1. [control EXCEPT !.deliveryError = c] \in Controls BY DEF TypeOK, Controls
  <2> QED BY <2>1 DEF EmitFails, TypeOK
<1>4. wpc' \in {"stopDelivery", "stop"} BY DEF EmitFails
<1> HIDE DEF code
<1> QED BY <1>1, <1>2, <1>3, <1>4, Abandons DEF TypeOK

-----------------------------------------------------------------------------
(* The queue of updates and the mailbox: what a step leaves of them.         *)

LEMMA WithUpdates ==
  ASSUME NEW r \in ResultQueues, NEW n \in Nat, NEW v, v = [r EXCEPT !.updates = n]
  PROVE  v \in ResultQueues /\ v.updates = n /\ v.queue = r.queue
  BY DEF ResultQueues

LEMMA WithQueue ==
  ASSUME NEW r \in ResultQueues, NEW q \in Seq(Updates), NEW v, v = [r EXCEPT !.queue = q]
  PROVE  v \in ResultQueues /\ v.updates = r.updates /\ v.queue = q
  BY DEF ResultQueues

LEMMA WithDeliveryDone ==
  ASSUME NEW r \in ResultQueues, NEW v, v = [r EXCEPT !.deliveryDone = TRUE]
  PROVE  v \in ResultQueues /\ v.updates = r.updates /\ v.queue = r.queue
  BY DEF ResultQueues

(* What a step of the delivery pump makes of the queue: q is left of it, and *)
(* n updates are charged.                                                    *)
Holding(r, q, n) == [r EXCEPT !.queue = q, !.updates = n]
Ended(r, q, n) == [r EXCEPT !.queue = q, !.updates = n, !.deliveryDone = TRUE]

LEMMA WithBoth ==
  ASSUME NEW r \in ResultQueues, NEW q \in Seq(Updates), NEW n \in Nat
  PROVE  /\ Holding(r, q, n) \in ResultQueues
         /\ Holding(r, q, n).updates = n /\ Holding(r, q, n).queue = q
<1>1. PICK u : u = [r EXCEPT !.queue = q] OBVIOUS
<1>2. PICK x : x = [u EXCEPT !.updates = n] OBVIOUS
<1>3. u \in ResultQueues /\ u.queue = q BY <1>1, WithQueue
<1>4. x \in ResultQueues /\ x.updates = n /\ x.queue = q BY <1>2, <1>3, WithUpdates
<1>5. Holding(r, q, n) = x BY <1>1, <1>2 DEF Holding
<1> QED BY <1>4, <1>5

LEMMA WithEnd ==
  ASSUME NEW r \in ResultQueues, NEW q \in Seq(Updates), NEW n \in Nat
  PROVE  /\ Ended(r, q, n) \in ResultQueues
         /\ Ended(r, q, n).updates = n /\ Ended(r, q, n).queue = q
<1>1. PICK x : x = Holding(r, q, n) OBVIOUS
<1>2. PICK y : y = [x EXCEPT !.deliveryDone = TRUE] OBVIOUS
<1>3. x \in ResultQueues /\ x.updates = n /\ x.queue = q BY <1>1, WithBoth
<1>4. y \in ResultQueues /\ y.queue = q /\ y.updates = n BY <1>2, <1>3, WithDeliveryDone
<1>5. Ended(r, q, n) = y BY <1>1, <1>2 DEF Holding, Ended
<1> QED BY <1>4, <1>5

LEMMA RetainedShort ==
  ASSUME NEW queue \in Seq(Updates)
  PROVE  /\ Retained(queue) \in Seq(Updates)
         /\ Len(Retained(queue)) <= Len(queue)
  BY DEF Retained

LEMMA Backlogged ==
  ASSUME TypeOK
  PROVE  Backlog \in Seq(Updates) /\ Len(Backlog) <= Len(results.queue)
  BY RetainedShort DEF TypeOK, ResultQueues, Backlog

(* A usable raster fits the reservation it was loaded under.                 *)
LEMMA Verdict ==
  ASSUME NEW r \in Replies
  PROVE  /\ LoadVerdict(r) \in Codes \cup {None}
         /\ LoadVerdict(r) = None => r.image.bytes \in 0 .. InputLimit
<1>1. r.code \in Codes \cup {None} /\ r.image.bytes \in 1 .. InputLimit + 1
  <2>1. CASE r \in [image : Images, code : {None}]
    BY <2>1 DEF Images
  <2>2. CASE r \in [image : {[of |-> 0, bytes |-> 1]}, code : SourceCodes]
    BY <2>2, CodesAssumption, LimitsAssumption
  <2> QED BY <2>1, <2>2 DEF Replies
<1> QED
  BY <1>1, LimitsAssumption DEF LoadVerdict, Codes, None

(* An emptied mailbox is a mailbox.                                          *)
LEMMA WithoutReply ==
  ASSUME NEW m \in Mailboxes, NEW v, v = [m EXCEPT !.reply = <<>>]
  PROVE  /\ v \in Mailboxes /\ v.reply = <<>> /\ v.request = m.request
         /\ v.stop = m.stop /\ v.done = m.done
<1>1. PICK r \in Seq(Replies) : r = <<>>
  <2>1. <<>> \in Seq(Replies) OBVIOUS
  <2> QED BY <2>1
<1>2. v = [m EXCEPT !.reply = r] BY <1>1
<1>3. /\ v \in Mailboxes /\ v.reply = r /\ v.request = m.request
      /\ v.stop = m.stop /\ v.done = m.done
  BY <1>2 DEF Mailboxes
<1> QED BY <1>1, <1>3

LEMMA StoppedMailbox ==
  ASSUME NEW m \in Mailboxes,
         NEW v, v = [m EXCEPT !.stop = TRUE, !.request = 0, !.reply = <<>>]
  PROVE  v \in Mailboxes /\ v.reply = <<>> /\ v.request = 0 /\ v.stop
<1>1. PICK u : u = [m EXCEPT !.stop = TRUE] OBVIOUS
<1>2. PICK x : x = [u EXCEPT !.request = 0] OBVIOUS
<1>3. u \in Mailboxes /\ u.stop BY <1>1 DEF Mailboxes
<1>4. x \in Mailboxes /\ x.stop /\ x.request = 0
  BY <1>2, <1>3, LimitsAssumption DEF Mailboxes
<1>5. v = [x EXCEPT !.reply = <<>>] BY <1>1, <1>2
<1> QED BY <1>4, <1>5, WithoutReply

LEMMA OneMoreFailed ==
  ASSUME counts \in Counts
  PROVE  /\ [counts EXCEPT !.failed = @ + 1] \in Counts
         /\ [counts EXCEPT !.finished = @ + 1] \in Counts
  BY DEF Counts

LEMMA FormulaCounted ==
  ASSUME counts \in Counts, NEW bad \in {0, 1}
  PROVE  [counts EXCEPT !.pending = @ - 1, !.badFormulas = @ + bad] \in Counts
<1>1. PICK c : c = [counts EXCEPT !.pending = @ - 1] OBVIOUS
<1>2. c \in Counts /\ c.badFormulas = counts.badFormulas BY <1>1 DEF Counts
<1>3. [c EXCEPT !.badFormulas = c.badFormulas + bad] \in Counts BY <1>2 DEF Counts
<1> QED BY <1>1, <1>2, <1>3

LEMMA Acknowledged ==
  ASSUME TypeOK
  PROVE  [delivered EXCEPT !.acknowledged = @ + 1, !.last = inflight.seq,
                           !.pages = IF inflight.kind = "page" THEN @ + 1 ELSE @,
                           !.formulas = IF inflight.kind = "formula" THEN @ + 1 ELSE @,
                           !.notice = @ \/ Terminal(inflight)] \in Deliveries
<1>1. inflight.seq \in Int
  BY DEF TypeOK, Updates, NoUpdate
<1>2. /\ delivered \in Deliveries /\ delivered.acknowledged + 1 \in Nat
      /\ (IF inflight.kind = "page" THEN delivered.pages + 1 ELSE delivered.pages) \in Nat
      /\ (IF inflight.kind = "formula" THEN delivered.formulas + 1
                                       ELSE delivered.formulas) \in Nat
      /\ (delivered.notice \/ Terminal(inflight)) \in BOOLEAN
  BY DEF TypeOK, Deliveries
<1>3. PICK a \in Nat, l \in Int, p \in Nat, f \in Nat, n \in BOOLEAN :
         /\ a = delivered.acknowledged + 1 /\ l = inflight.seq
         /\ p = (IF inflight.kind = "page" THEN delivered.pages + 1 ELSE delivered.pages)
         /\ f = (IF inflight.kind = "formula" THEN delivered.formulas + 1
                                              ELSE delivered.formulas)
         /\ n = (delivered.notice \/ Terminal(inflight))
  BY <1>1, <1>2
<1>4. \A d \in Deliveries : [d EXCEPT !.acknowledged = a, !.last = l] \in Deliveries
  BY DEF Deliveries
<1>5. \A d \in Deliveries : [d EXCEPT !.pages = p, !.formulas = f] \in Deliveries
  BY DEF Deliveries
<1>6. \A d \in Deliveries : [d EXCEPT !.notice = n] \in Deliveries
  BY DEF Deliveries
<1>7. PICK x \in Deliveries : x = [delivered EXCEPT !.acknowledged = a, !.last = l]
  BY <1>2, <1>4
<1>8. PICK y \in Deliveries : y = [x EXCEPT !.pages = p, !.formulas = f]
  BY <1>5
<1>9. [delivered EXCEPT !.acknowledged = a, !.last = l, !.pages = p, !.formulas = f,
                        !.notice = n] = [y EXCEPT !.notice = n]
  BY <1>7, <1>8
<1> QED BY <1>3, <1>6, <1>9

-----------------------------------------------------------------------------
(* The counter of updates is exact; beside it, what the step of one thread   *)
(* needs to know of another: a job that was not started has no pumps, and a  *)
(* formula is being recognised only while one is left.                       *)
ChargeInv ==
    /\ TypeOK
    /\ UpdatesCharged
    /\ wpc = "queued" => spc = "off" /\ dpc = "off"
    /\ wpc = "recognize" => work.left > 0

LEMMA ChargeInit == Init => ChargeInv
<1> SUFFICES ASSUME Init PROVE ChargeInv
  OBVIOUS
<1>1. control \in Controls /\ render \in Mailboxes
  BY LimitsAssumption DEF Init, Controls, Mailboxes
<1>2. results \in ResultQueues /\ delivered \in Deliveries /\ counts \in Counts
  BY DEF Init, ResultQueues, Deliveries, Counts
<1>3. work \in Works
  BY LimitsAssumption DEF Init, Works, Kinds
<1> QED
  BY <1>1, <1>2, <1>3, LimitsAssumption
  DEF Init, ChargeInv, TypeOK, UpdatesCharged, WorkerPositions

(* The arithmetic of UpdatesCharged.                                         *)
Busy(pc, at) == IF pc = at THEN 1 ELSE 0

LEMMA ChargeSum ==
  ASSUME results \in ResultQueues
  PROVE  /\ UpdatesCharged <=> /\ results.updates = Len(results.queue) + Busy(dpc, "sink")
                                                   + Busy(wpc, "encode")
                               /\ results.updates <= PendingLimit
         /\ Len(results.queue) \in Nat /\ results.updates \in Nat
         /\ Busy(dpc, "sink") \in {0, 1} /\ Busy(wpc, "encode") \in {0, 1}
  BY DEF UpdatesCharged, Busy, ResultQueues

LEMMA ChargeSumNext ==
  ASSUME results' \in ResultQueues,
         results'.updates = Len(results'.queue) + Busy(dpc', "sink") + Busy(wpc', "encode"),
         results'.updates <= PendingLimit
  PROVE  UpdatesCharged'
  BY DEF UpdatesCharged, Busy

(* A step that leaves the update queue and both pumps alone.                 *)
LEMMA QuietStep ==
  ASSUME ChargeInv,
         UNCHANGED <<results, delivered, phase, outcome, spc, spage, dpc, inflight, client>>,
         control' \in Controls, render' \in Mailboxes, inputBytes' \in 0 .. InputLimit,
         counts' \in Counts, work' \in Works, wpc' \in WorkerPositions,
         asleep' \subseteq {"worker", "source", "delivery", "client"},
         (wpc' = "encode") <=> (wpc = "encode"), wpc' = "queued" => wpc = "queued",
         wpc' = "recognize" => work'.left > 0
  PROVE  ChargeInv'
<1>1. TypeOK' BY DEF ChargeInv, TypeOK
<1>2. UpdatesCharged' BY DEF ChargeInv, UpdatesCharged
<1> QED BY <1>1, <1>2 DEF ChargeInv

(* The worker's steps keep the invariant.                                    *)
LEMMA ChargeWorker == ChargeInv /\ Worker => ChargeInv'
<1> SUFFICES ASSUME ChargeInv, Worker PROVE ChargeInv'
  OBVIOUS
<1> USE DEF shared, worker, others, updates, ending, sourcePump, deliveryPump, NotifyAll,
            Sleep, Awake
<1>t. TypeOK /\ work \in Works /\ results \in ResultQueues /\ control \in Controls
  BY DEF ChargeInv, TypeOK
<1>k. /\ render \in Mailboxes /\ inputBytes \in 0 .. InputLimit /\ counts \in Counts
      /\ asleep \subseteq {"worker", "source", "delivery", "client"}
  BY DEF ChargeInv, TypeOK
<1>c. /\ StopReason \in Codes \cup {None} /\ LoadStop \in Codes \cup {None}
      /\ EmitStop \in Codes \cup {None} /\ None \in Codes \cup {None}
  BY <1>t, StopCodes
<1>1. CASE StartJob
  <2>1. work' \in Works
    <3>1. PICK c \in Codes \cup {None}, b \in BOOLEAN :
             work' = [work EXCEPT !.failure = c, !.broken = b]
      BY <1>1 DEF StartJob, Codes
    <3>2. PICK u : u = [work EXCEPT !.failure = c] OBVIOUS
    <3>3. u \in Works BY <1>t, <3>2, WithFailure
    <3>4. work' = [u EXCEPT !.broken = b] BY <3>1, <3>2
    <3> QED BY <3>3, <3>4, WithBroken
  <2>2. control' \in Controls
    BY <1>1, <1>t DEF StartJob, Controls, Codes
  <2> QED
    BY <1>1, <2>1, <2>2 DEF StartJob, ChargeInv, TypeOK, UpdatesCharged, WorkerPositions
<1>2. CASE NextPage
  <2>1. /\ work' \in Works /\ wpc' \in {"stop", "load"}
    <3>1. CASE work.page = NumPages
      BY <1>2, <1>t, <1>c, <3>1, Stops DEF NextPage
    <3>2. CASE work.page # NumPages /\ StopReason # None
      BY <1>2, <1>t, <1>c, <3>2, Stops DEF NextPage
    <3>3. CASE work.page # NumPages /\ StopReason = None
      BY <1>2, <1>t, <3>3, WithPage DEF NextPage
    <3> QED BY <3>1, <3>2, <3>3
  <2> QED
    BY <1>t, <1>k, <1>2, <2>1, QuietStep DEF NextPage, WorkerPositions
<1>3. CASE StopSource
  <2>1. control' \in Controls
    BY <1>3, <1>t DEF StopSource, Controls
  <2>2. render' \in Mailboxes
    BY <1>3, StoppedMailbox DEF StopSource, ChargeInv, TypeOK
  <2> QED
    BY <1>3, <2>1, <2>2 DEF StopSource, ChargeInv, TypeOK, UpdatesCharged, WorkerPositions
<1>4. CASE Reserve
  <2>1. results.updates \in Nat /\ results.updates + 1 \in Nat
    BY <1>t DEF ResultQueues
  <2>2. /\ results' \in ResultQueues /\ results'.updates = results.updates + 1
        /\ results'.queue = results.queue
    BY <1>4, <1>t, <2>1, WithUpdates DEF Reserve
  <2>3. wpc = "reserve" /\ wpc' = "encode" /\ results.updates < PendingLimit
    BY <1>4 DEF Reserve, HasRoom
  <2>5. TypeOK'
    BY <1>4, <2>2 DEF Reserve, ChargeInv, TypeOK, WorkerPositions
  <2>6. UpdatesCharged'
    <3>1. results.queue \in Seq(Updates) /\ Len(results.queue) \in Nat
      BY <1>t DEF ResultQueues
    <3>2. dpc' = dpc BY <1>4 DEF Reserve
    <3>3. /\ results.updates = Len(results.queue) + Busy(dpc, "sink") + 0
          /\ Busy(dpc', "sink") = Busy(dpc, "sink") /\ Busy(wpc', "encode") = 1
          /\ Busy(dpc, "sink") \in {0, 1}
      BY <1>t, <2>3, <3>2, ChargeSum DEF ChargeInv, Busy
    <3>4. results'.updates = Len(results'.queue) + Busy(dpc', "sink") + Busy(wpc', "encode")
      BY <2>1, <2>2, <3>1, <3>3
    <3>5. results'.updates <= PendingLimit
      BY <2>1, <2>2, <2>3, LimitsAssumption
    <3> QED BY <2>2, <3>4, <3>5, ChargeSumNext
  <2> QED BY <2>3, <2>5, <2>6 DEF ChargeInv
<1>5. CASE ReserveStopped
  <2>1. EmitStop \in Codes BY <1>5, <1>c DEF ReserveStopped
  <2>2. work' \in Works /\ control' \in Controls /\ wpc' \in {"stopDelivery", "stop"}
    BY <1>5, <1>t, <2>1, EmitFailing DEF ReserveStopped
  <2> QED
    BY <1>t, <1>k, <1>5, <2>2, QuietStep DEF ReserveStopped, WorkerPositions
<1>6. CASE ReserveWaits
  BY <1>t, <1>k, <1>6, QuietStep DEF ReserveWaits, WorkerPositions
<1>7. CASE Publish
  <2>1. PICK size \in 1 .. UpdateLimit :
           /\ results' = [results EXCEPT !.queue =
                  Append(@, [seq |-> work.sequence - 1, kind |-> work.emit,
                             page |-> work.page, size |-> size])]
           /\ pendingBytes' = pendingBytes - UpdateLimit + size
    BY <1>7 DEF Publish
  <2>2. PICK u : u = [seq |-> work.sequence - 1, kind |-> work.emit, page |-> work.page,
                      size |-> size]
    OBVIOUS
  <2>3. u \in Updates
    BY <1>t, <2>2 DEF Works, Updates
  <2>4. PICK q : q = Append(results.queue, u)
    OBVIOUS
  <2>5. results.queue \in Seq(Updates) /\ q \in Seq(Updates) /\ Len(q) = Len(results.queue) + 1
    BY <1>t, <2>3, <2>4, AppendProperties DEF ResultQueues
  <2>6. /\ results' \in ResultQueues /\ results'.queue = q
        /\ results'.updates = results.updates
    <3>1. results' = [results EXCEPT !.queue = q] BY <2>1, <2>2, <2>4
    <3> QED BY <1>t, <2>5, <3>1, WithQueue
  <2>7. work' \in Works /\ wpc' \in {"formulas", "reserve", "pages", "stop", "stopDelivery"}
    <3>1. \/ work' = work \/ work' = Emitting(work, "page")
      BY <1>7, <1>t DEF Publish, Continue, Works, Kinds
    <3>2. wpc' \in {"formulas", "reserve", "pages", "stop", "stopDelivery"}
      BY <1>7, <1>t DEF Publish, Continue, Works, Kinds
    <3> QED BY <1>t, <3>1, <3>2, Emits DEF Kinds
  <2>9. TypeOK'
    BY <1>7, <2>6, <2>7 DEF Publish, ChargeInv, TypeOK, WorkerPositions
  <2>10. UpdatesCharged'
    <3>1. dpc' = dpc /\ wpc = "encode" BY <1>7 DEF Publish
    <3>2. Len(results.queue) \in Nat BY <2>5
    <3>3. /\ results.updates = Len(results.queue) + Busy(dpc, "sink") + 1
          /\ results.updates <= PendingLimit
          /\ Busy(dpc', "sink") = Busy(dpc, "sink") /\ Busy(wpc', "encode") = 0
          /\ Busy(dpc, "sink") \in {0, 1}
      BY <1>t, <2>7, <3>1, ChargeSum DEF ChargeInv, Busy
    <3>4. results'.updates = Len(results'.queue) + Busy(dpc', "sink") + Busy(wpc', "encode")
      BY <2>5, <2>6, <3>2, <3>3
    <3> QED BY <2>6, <3>3, <3>4, ChargeSumNext
  <2> QED BY <2>7, <2>9, <2>10 DEF ChargeInv
<1>8. CASE PublishRejected
  <2>1. PICK code \in Codes : EmitFails(code)
    BY <1>8, <1>c DEF PublishRejected, Codes
  <2>2. work' \in Works /\ control' \in Controls /\ wpc' \in {"stopDelivery", "stop"}
    BY <1>t, <2>1, EmitFailing
  <2>3. results.updates - 1 \in Nat
    BY <1>8, <1>t DEF PublishRejected, ChargeInv, UpdatesCharged, ResultQueues
  <2>4. /\ results' \in ResultQueues /\ results'.queue = results.queue
        /\ results'.updates = results.updates - 1
    BY <1>8, <1>t, <2>3, WithUpdates DEF PublishRejected
  <2>6. TypeOK'
    BY <1>8, <2>2, <2>4 DEF PublishRejected, ChargeInv, TypeOK, WorkerPositions
  <2>7. UpdatesCharged'
    <3>1. dpc' = dpc /\ wpc = "encode" BY <1>8 DEF PublishRejected
    <3>2. Len(results.queue) \in Nat BY <1>t DEF ResultQueues
    <3>3. /\ results.updates = Len(results.queue) + Busy(dpc, "sink") + 1
          /\ results.updates <= PendingLimit
          /\ Busy(dpc', "sink") = Busy(dpc, "sink") /\ Busy(wpc', "encode") = 0
          /\ Busy(dpc, "sink") \in {0, 1}
      BY <1>t, <2>2, <3>1, ChargeSum DEF ChargeInv, Busy
    <3>4. results'.updates = Len(results'.queue) + Busy(dpc', "sink") + Busy(wpc', "encode")
      BY <2>3, <2>4, <3>2, <3>3
    <3>5. results'.updates <= PendingLimit
      BY <2>3, <2>4, <3>3, LimitsAssumption
    <3> QED BY <2>4, <3>4, <3>5, ChargeSumNext
  <2> QED BY <2>2, <2>6, <2>7 DEF ChargeInv
<1>9. CASE RequestPage
  <2>1. work' \in Works /\ wpc' \in {"stop", "await"}
    BY <1>9, <1>t, <1>c, Stops DEF RequestPage
  <2>2. render' \in Mailboxes /\ inputBytes' \in 0 .. InputLimit
    <3>1. \/ render' = render /\ inputBytes' = inputBytes
          \/ render' = [render EXCEPT !.request = work.page] /\ inputBytes' = InputLimit
      BY <1>9 DEF RequestPage
    <3>2. InputLimit \in 0 .. InputLimit BY LimitsAssumption
    <3>3. [render EXCEPT !.request = work.page] \in Mailboxes BY <1>t, <1>k DEF Mailboxes, Works
    <3> QED BY <1>k, <3>1, <3>2, <3>3
  <2> QED
    BY <1>t, <1>k, <1>9, <2>1, <2>2, QuietStep DEF RequestPage, WorkerPositions
<1>10. CASE AwaitSleeps
  BY <1>t, <1>k, <1>10, QuietStep DEF AwaitSleeps, WorkerPositions
<1>11. CASE AwaitEnded
  <2>1. PICK code \in Codes \cup {None} : StopWith(code)
    BY <1>11, <1>c DEF AwaitEnded, Codes
  <2>2. work' \in Works /\ wpc' = "stop"
    BY <1>t, <2>1, Stops
  <2> QED
    BY <1>t, <1>k, <1>11, <2>2, QuietStep DEF AwaitEnded, WorkerPositions
<1>12. CASE TakeReply
  <2>1. PICK reply \in Replies : reply = Head(render.reply)
    BY <1>12 DEF TakeReply, ChargeInv, TypeOK, Mailboxes
  <2>2. PICK verdict \in Codes \cup {None} : verdict = LoadVerdict(reply)
    BY <2>1, Verdict
  <2>3. render' \in Mailboxes
    BY <1>12, WithoutReply DEF TakeReply, ChargeInv, TypeOK
  <2>4. /\ work' \in Works /\ wpc' \in {"loaded", "stop", "reserve"}
        /\ inputBytes' \in 0 .. InputLimit /\ counts' \in Counts
    <3>1. CASE verdict = None
      <4>1. reply.image.bytes \in 0 .. InputLimit
        BY <2>2, <3>1, Verdict
      <4>2. /\ work' = [work EXCEPT !.held = reply.image.bytes]
            /\ wpc' = "loaded" /\ inputBytes' = reply.image.bytes /\ counts' = counts
        BY <1>12, <2>1, <2>2, <3>1 DEF TakeReply, FatalLoad, None
      <4> QED
        BY <1>t, <4>1, <4>2, WithHeld DEF ChargeInv, TypeOK
    <3>2. CASE verdict # None /\ verdict \in FatalLoad
      <4>1. StopWith(verdict) /\ UNCHANGED <<inputBytes, counts>>
        BY <1>12, <2>1, <2>2, <3>2 DEF TakeReply
      <4> QED
        BY <1>t, <4>1, Stops DEF ChargeInv, TypeOK
    <3>3. CASE verdict # None /\ verdict \notin FatalLoad
      <4>1. /\ work' = Emitting(work, "pageFailed") /\ wpc' = "reserve"
            /\ inputBytes' = 0 /\ counts' = [counts EXCEPT !.failed = @ + 1]
        BY <1>12, <2>1, <2>2, <3>3 DEF TakeReply
      <4>2. work' \in Works
        BY <1>t, <4>1, Emits DEF Kinds
      <4>3. counts' \in Counts
        BY <4>1, OneMoreFailed DEF ChargeInv, TypeOK
      <4> QED
        BY <4>1, <4>2, <4>3, LimitsAssumption
    <3> QED BY <3>1, <3>2, <3>3
  <2> QED
    BY <1>t, <1>k, <1>12, <2>3, <2>4, QuietStep DEF TakeReply, WorkerPositions
<1>13. CASE CheckBeforeLayout
  <2>1. work' \in Works /\ wpc' \in {"stop", "layout"}
    BY <1>13, <1>t, <1>c, Stops DEF CheckBeforeLayout
  <2> QED
    BY <1>t, <1>k, <1>13, <2>1, QuietStep DEF CheckBeforeLayout, WorkerPositions
<1>14. CASE LayoutSucceeds
  <2>1. work' \in Works /\ wpc' \in {"reserve", "finishPage"} /\ counts' \in Counts
    <3>1. PICK n \in 0 .. MaxFormulas :
             IF work.all
             THEN /\ counts' = [counts EXCEPT !.pending = @ + n]
                  /\ work' = Emitting([work EXCEPT !.left = n], "layout")
                  /\ wpc' = "reserve"
             ELSE wpc' = "finishPage" /\ UNCHANGED <<counts, work>>
      BY <1>14 DEF LayoutSucceeds
    <3>2. [counts EXCEPT !.pending = @ + n] \in Counts
      BY LimitsAssumption DEF ChargeInv, TypeOK, Counts
    <3>3. PICK u : u = [work EXCEPT !.left = n] OBVIOUS
    <3>4. u \in Works BY <1>t, <3>3, WithLeft
    <3>5. CASE work.all
      <4>1. work' = Emitting(u, "layout") /\ wpc' = "reserve" /\ counts' \in Counts
        BY <3>1, <3>2, <3>3, <3>5
      <4> QED BY <3>4, <4>1, Emits DEF Kinds
    <3>6. CASE ~work.all
      BY <1>t, <3>1, <3>6 DEF ChargeInv, TypeOK
    <3> QED BY <3>5, <3>6
  <2> QED
    BY <1>t, <1>k, <1>14, <2>1, QuietStep DEF LayoutSucceeds, WorkerPositions
<1>15. CASE LayoutFails
  <2>1. work' \in Works
    <3>1. PICK b \in BOOLEAN, c \in Codes \cup {None} :
             work' = Emitting([work EXCEPT !.held = 0, !.broken = b, !.failure = c],
                              "pageFailed")
      <4>1. work.broken \in BOOLEAN BY <1>t DEF Works
      <4> QED BY <1>15, <4>1 DEF LayoutFails, Codes
    <3>2. PICK u : u = [work EXCEPT !.held = 0] OBVIOUS
    <3>3. PICK v : v = [u EXCEPT !.broken = b] OBVIOUS
    <3>4. PICK w : w = [v EXCEPT !.failure = c] OBVIOUS
    <3>5. 0 \in 0 .. InputLimit BY LimitsAssumption
    <3>6. u \in Works BY <1>t, <3>2, <3>5, WithHeld
    <3>7. v \in Works BY <3>3, <3>6, WithBroken
    <3>8. w \in Works BY <3>4, <3>7, WithFailure
    <3>9. work' = Emitting(w, "pageFailed") BY <3>1, <3>2, <3>3, <3>4
    <3> QED BY <3>8, <3>9, Emits DEF Kinds
  <2>2. counts' \in Counts
    BY <1>15, OneMoreFailed DEF LayoutFails, ChargeInv, TypeOK
  <2>3. 0 \in 0 .. InputLimit BY LimitsAssumption
  <2> QED
    BY <1>t, <1>k, <1>15, <2>1, <2>2, <2>3, QuietStep DEF LayoutFails, WorkerPositions
<1>16. CASE PipelineBreaks
  <2>1. work' \in Works
    <3>1. PICK b \in BOOLEAN, c \in Codes \cup {None} :
             work' = [work EXCEPT !.broken = b, !.held = 0, !.failure = c]
      <4>1. work.broken \in BOOLEAN BY <1>t DEF Works
      <4> QED BY <1>16, <4>1 DEF PipelineBreaks, Codes
    <3>2. PICK u : u = [work EXCEPT !.broken = b] OBVIOUS
    <3>3. PICK v : v = [u EXCEPT !.held = 0] OBVIOUS
    <3>4. 0 \in 0 .. InputLimit BY LimitsAssumption
    <3>5. u \in Works BY <1>t, <3>2, WithBroken
    <3>6. v \in Works BY <3>3, <3>4, <3>5, WithHeld
    <3>7. work' = [v EXCEPT !.failure = c] BY <3>1, <3>2, <3>3
    <3> QED BY <3>6, <3>7, WithFailure
  <2> QED
    BY <1>t, <1>k, <1>16, <2>1, QuietStep DEF PipelineBreaks, WorkerPositions
<1>17. CASE NextFormula
  <2>1. /\ work' \in Works /\ wpc' \in {"finishPage", "stop", "recognize"}
        /\ wpc' = "recognize" => work'.left > 0
    <3>1. CASE work.left = 0
      BY <1>17, <1>t, <3>1 DEF NextFormula
    <3>2. CASE work.left # 0 /\ StopReason # None
      BY <1>17, <1>t, <1>c, <3>2, Stops DEF NextFormula
    <3>3. CASE work.left # 0 /\ StopReason = None
      <4>1. work.left > 0 BY <1>t, <3>3, LimitsAssumption DEF Works
      <4> QED BY <1>17, <1>t, <3>3, <4>1 DEF NextFormula
    <3> QED BY <3>1, <3>2, <3>3
  <2> QED
    BY <1>t, <1>k, <1>17, <2>1, QuietStep DEF NextFormula, WorkerPositions
<1>18. CASE FormulaFinishes
  <2>1. work.left - 1 \in 0 .. MaxFormulas
    BY <1>18, <1>t, LimitsAssumption DEF FormulaFinishes, ChargeInv, Works
  <2>2. PICK u : u = [work EXCEPT !.left = work.left - 1] OBVIOUS
  <2>3. u \in Works BY <1>t, <2>1, <2>2, WithLeft
  <2>4. work' = Emitting(u, "formula") BY <1>18, <2>2 DEF FormulaFinishes
  <2>5. work' \in Works BY <2>3, <2>4, Emits DEF Kinds
  <2>6. counts' \in Counts
    BY <1>18, FormulaCounted DEF FormulaFinishes, ChargeInv, TypeOK
  <2> QED
    BY <1>t, <1>k, <1>18, <2>5, <2>6, QuietStep DEF FormulaFinishes, WorkerPositions
<1>19. CASE FormulaAborts
  <2>1. work' \in Works /\ wpc' = "stop"
    <3>1. CASE StopWith("Cancelled")
      BY <1>t, <3>1, Stops DEF Codes
    <3>2. CASE work' = [work EXCEPT !.failure = "Backend", !.broken = TRUE, !.held = 0]
      <4>1. PICK u : u = [work EXCEPT !.failure = "Backend"] OBVIOUS
      <4>2. PICK v : v = [u EXCEPT !.broken = TRUE] OBVIOUS
      <4>3. 0 \in 0 .. InputLimit BY LimitsAssumption
      <4>4. u \in Works BY <1>t, <4>1, WithFailure DEF Codes
      <4>5. v \in Works BY <4>2, <4>4, WithBroken
      <4>6. work' = [v EXCEPT !.held = 0] BY <3>2, <4>1, <4>2
      <4>7. work' \in Works BY <4>3, <4>5, <4>6, WithHeld
      <4> QED BY <1>19, <4>7 DEF FormulaAborts, StopWith
    <3> QED BY <1>19, <3>1, <3>2 DEF FormulaAborts
  <2> QED
    BY <1>t, <1>k, <1>19, <2>1, QuietStep DEF FormulaAborts, WorkerPositions
<1>20. CASE FinishPage
  <2>1. PICK u : u = [work EXCEPT !.held = 0] OBVIOUS
  <2>2. 0 \in 0 .. InputLimit BY LimitsAssumption
  <2>3. u \in Works BY <1>t, <2>1, <2>2, WithHeld
  <2>4. PICK kind \in Kinds : work' = Emitting(u, kind)
    BY <1>20, <2>1 DEF FinishPage, Kinds
  <2>5. work' \in Works BY <2>3, <2>4, Emits
  <2>6. counts' \in Counts
    BY <1>20, OneMoreFailed DEF FinishPage, ChargeInv, TypeOK
  <2> QED
    BY <1>20, <2>2, <2>5, <2>6
    DEF FinishPage, ChargeInv, TypeOK, UpdatesCharged, WorkerPositions
<1>21. CASE Summarize
  <2>1. Summary \in Statuses BY DEF Summary, Statuses
  <2>2. PICK w : w = [work EXCEPT !.summary = Summary] OBVIOUS
  <2>3. w \in Works BY <1>t, <2>1, <2>2, WithSummary
  <2>4. /\ work' = w \/ work' = Emitting(w, "document")
        /\ wpc' \in {"reserve", "stopDelivery"}
    BY <1>21, <2>2 DEF Summarize
  <2>5. work' \in Works BY <2>3, <2>4, Emits DEF Kinds
  <2>6. render' \in Mailboxes /\ 0 \in 0 .. InputLimit
    BY <1>21, WithoutReply, LimitsAssumption DEF Summarize, ChargeInv, TypeOK
  <2> QED
    BY <1>21, <2>4, <2>5, <2>6
    DEF Summarize, ChargeInv, TypeOK, UpdatesCharged, WorkerPositions
<1>22. CASE StopDelivery
  <2>1. /\ results' \in ResultQueues /\ results'.queue = results.queue
        /\ results'.updates = results.updates
    BY <1>22, <1>t DEF StopDelivery, ResultQueues
  <2> QED
    BY <1>22, <2>1 DEF StopDelivery, ChargeInv, TypeOK, UpdatesCharged, WorkerPositions
<1>23. CASE Finish
  <2>1. PICK q \in Seq(Updates), n \in Nat : q = <<>> /\ n = 0
    <3>1. <<>> \in Seq(Updates) OBVIOUS
    <3> QED BY <3>1
  <2>2. results' \in ResultQueues /\ results'.queue = q /\ results'.updates = n
    <3>1. results' = [results EXCEPT !.queue = q, !.updates = n] BY <1>23, <2>1 DEF Finish
    <3>2. PICK u : u = [results EXCEPT !.queue = q] OBVIOUS
    <3>3. u \in ResultQueues /\ u.queue = q BY <1>t, <3>2, WithQueue
    <3>4. results' = [u EXCEPT !.updates = n] BY <3>1, <3>2
    <3> QED BY <3>3, <3>4, WithUpdates
  <2>3. outcome' \in Statuses \cup {None}
    BY <1>23, <1>t DEF Finish, Works, Statuses
  <2> QED
    BY <1>23, <2>1, <2>2, <2>3, LimitsAssumption
    DEF Finish, ChargeInv, TypeOK, UpdatesCharged, WorkerPositions
<1> QED
  BY <1>1, <1>2, <1>3, <1>4, <1>5, <1>6, <1>7, <1>8, <1>9, <1>10, <1>11, <1>12, <1>13,
     <1>14, <1>15, <1>16, <1>17, <1>18, <1>19, <1>20, <1>21, <1>22, <1>23 DEF Worker

(* A step of the delivery pump leaves the queue q and holds k updates in the *)
(* sink, no more in all than before.                                         *)
LEMMA DeliveryCharge ==
  ASSUME NEW q, NEW k \in {0, 1}, NEW before \in Nat, NEW after \in Nat,
         Len(q) + k = after, after <= before, before + Busy(wpc, "encode") <= PendingLimit,
         PendingLimit \in Nat, wpc' = wpc, Busy(dpc', "sink") = k,
         results' \in ResultQueues, results'.queue = q,
         results'.updates = after + Busy(wpc, "encode")
  PROVE  UpdatesCharged'
<1>1. Busy(wpc', "encode") = Busy(wpc, "encode") /\ Busy(wpc, "encode") \in {0, 1}
  BY DEF Busy
<1>2. results'.updates = Len(results'.queue) + Busy(dpc', "sink") + Busy(wpc', "encode")
  BY <1>1
<1>3. results'.updates <= PendingLimit
  BY <1>1
<1> QED BY <1>2, <1>3, ChargeSumNext

(* The pumps, the client and a stuttering step keep the invariant.           *)
LEMMA ChargeOthers ==
  ChargeInv /\ (Source \/ Delivery \/ Client \/ Cancel \/ UNCHANGED vars) => ChargeInv'
<1> SUFFICES ASSUME ChargeInv, Source \/ Delivery \/ Client \/ Cancel \/ UNCHANGED vars
             PROVE  ChargeInv'
  OBVIOUS
<1> USE DEF shared, worker, others, updates, ending, sourcePump, deliveryPump, NotifyAll,
            Sleep, Awake
<1>t. TypeOK /\ results \in ResultQueues /\ control \in Controls /\ render \in Mailboxes
  BY DEF ChargeInv, TypeOK
<1>k. /\ inputBytes \in 0 .. InputLimit /\ counts \in Counts /\ work \in Works
      /\ wpc \in WorkerPositions /\ asleep \subseteq {"worker", "source", "delivery", "client"}
      /\ wpc = "recognize" => work.left > 0
  BY DEF ChargeInv, TypeOK
<1>r. results \in ResultQueues
  BY <1>t
<1>q. results.queue \in Seq(Updates) /\ results.updates \in Nat
  BY <1>t DEF ResultQueues
<1>p. PendingLimit \in Nat
  BY LimitsAssumption
<1>s. PICK L \in Nat, k \in {0, 1}, e \in {0, 1} :
         /\ L = Len(results.queue) /\ k = Busy(dpc, "sink") /\ e = Busy(wpc, "encode")
         /\ results.updates = L + k + e /\ L + k + e <= PendingLimit
  BY <1>t, ChargeSum DEF ChargeInv
<1>n. L \in Nat /\ k \in Nat /\ e \in Nat
  BY <1>s
<1>b. PICK B \in Nat : B = Len(Backlog) /\ B <= L /\ Backlog \in Seq(Updates)
  BY <1>t, <1>s, Backlogged
<1>e. PICK empty \in Seq(Updates) : empty = <<>> /\ Len(empty) = 0
  <2>1. <<>> \in Seq(Updates) /\ Len(<<>>) = 0 OBVIOUS
  <2> QED BY <2>1
<1>1. CASE SourceSleeps
  BY <1>1 DEF SourceSleeps, ChargeInv, TypeOK, UpdatesCharged
<1>2. CASE SourceTakes
  <2>1. 0 \in 0 .. NumPages BY LimitsAssumption
  <2>2. render' = [render EXCEPT !.request = 0] BY <1>2 DEF SourceTakes
  <2>3. render' \in Mailboxes BY <1>t, <2>1, <2>2 DEF Mailboxes
  <2>4. spage' \in 0 .. NumPages BY <1>2, <1>t DEF SourceTakes, Mailboxes
  <2> QED BY <1>2, <2>3, <2>4 DEF SourceTakes, ChargeInv, TypeOK, UpdatesCharged
<1>3. CASE SourceHalts
  <2>1. spage' \in 0 .. NumPages BY <1>3, LimitsAssumption DEF SourceHalts
  <2>2. render' = [render EXCEPT !.done = TRUE] BY <1>3 DEF SourceHalts
  <2>3. render' \in Mailboxes BY <1>t, <2>2 DEF Mailboxes
  <2> QED BY <1>3, <2>1, <2>3 DEF SourceHalts, ChargeInv, TypeOK, UpdatesCharged
<1>4. CASE SourceReplies
  <2>1. PICK reply \in Replies : render' = [render EXCEPT !.reply = <<reply>>]
    BY <1>4 DEF SourceReplies
  <2>2. PICK r \in Seq(Replies) : r = <<reply>>
    <3>1. <<reply>> \in Seq(Replies) OBVIOUS
    <3> QED BY <3>1
  <2>3. render' = [render EXCEPT !.reply = r] BY <2>1, <2>2
  <2>4. render' \in Mailboxes BY <1>t, <2>3 DEF Mailboxes
  <2>5. spage' \in 0 .. NumPages BY <1>4, LimitsAssumption DEF SourceReplies
  <2> QED BY <1>4, <2>4, <2>5 DEF SourceReplies, ChargeInv, TypeOK, UpdatesCharged
<1>5. CASE DeliveryWaits
  <2>1. /\ B = 0 /\ dpc # "sink" /\ dpc' = "wait" /\ wpc' = wpc
        /\ results' = [results EXCEPT !.queue = <<>>, !.updates = @ - (L - B)]
    BY <1>5, <1>s, <1>b DEF DeliveryWaits, Discard
  <2>2. k = 0 /\ Busy(dpc', "sink") = 0 BY <1>s, <2>1 DEF Busy
  <2>3. results.updates - (L - B) = e BY <1>s, <2>1, <2>2
  <2>4. results' = Holding(results, empty, e) BY <1>e, <2>1, <2>3 DEF Holding
  <2>5. results' \in ResultQueues /\ results'.queue = empty /\ results'.updates = e
    BY <1>r, <1>n, <2>4, WithBoth
  <2>6. TypeOK'
    BY <1>5, <2>5 DEF DeliveryWaits, ChargeInv, TypeOK
  <2>7. UpdatesCharged'
    BY <1>p, <1>s, <1>e, <2>1, <2>2, <2>5, DeliveryCharge
  <2> QED BY <1>5, <2>6, <2>7 DEF DeliveryWaits, ChargeInv
<1>6. CASE DeliveryEnds
  <2>1. /\ dpc # "sink" /\ dpc' = "done" /\ wpc' = wpc
        /\ results' = [results EXCEPT !.queue = <<>>, !.updates = @ - L, !.deliveryDone = TRUE]
    BY <1>6, <1>s DEF DeliveryEnds
  <2>2. k = 0 /\ Busy(dpc', "sink") = 0 BY <1>s, <2>1 DEF Busy
  <2>3. results.updates - L = e BY <1>s, <2>2
  <2>4. results' = Ended(results, empty, e)
    BY <1>e, <2>1, <2>3 DEF Ended
  <2>5. results' \in ResultQueues /\ results'.queue = empty /\ results'.updates = e
    BY <1>r, <1>n, <2>4, WithEnd
  <2>6. TypeOK'
    BY <1>6, <2>5 DEF DeliveryEnds, ChargeInv, TypeOK
  <2>7. UpdatesCharged'
    BY <1>p, <1>s, <1>e, <2>1, <2>2, <2>5, DeliveryCharge
  <2> QED BY <1>6, <2>6, <2>7 DEF DeliveryEnds, ChargeInv
<1>7. CASE DeliveryCalls
  <2>1. /\ dpc # "sink" /\ dpc' = "sink" /\ wpc' = wpc /\ Backlog # <<>>
        /\ results' = [results EXCEPT !.queue = Tail(Backlog), !.updates = @ - (L - B)]
    BY <1>7, <1>s, <1>b DEF DeliveryCalls, Discard
  <2>2. k = 0 /\ Busy(dpc', "sink") = 1 BY <1>s, <2>1 DEF Busy
  <2>3. PICK q \in Seq(Updates) : q = Tail(Backlog) /\ Len(q) = B - 1 /\ B > 0
    <3>1. Tail(Backlog) \in Seq(Updates) /\ Len(Tail(Backlog)) = B - 1 /\ B > 0
      BY <1>b, <2>1
    <3> QED BY <3>1
  <2>4. PICK m \in Nat : m = B + e /\ results.updates - (L - B) = m
    <3>1. B + e \in Nat /\ results.updates - (L - B) = B + e BY <1>s, <2>2
    <3> QED BY <3>1
  <2>5. results' = Holding(results, q, m) BY <2>1, <2>3, <2>4 DEF Holding
  <2>6. results' \in ResultQueues /\ results'.queue = q /\ results'.updates = m
    <3>1. /\ Holding(results, q, m) \in ResultQueues
          /\ Holding(results, q, m).updates = m /\ Holding(results, q, m).queue = q
      BY <1>r, WithBoth
    <3> QED BY <2>5, <3>1
  <2>7. inflight' \in Updates
    BY <1>7, <1>b, <2>1 DEF DeliveryCalls
  <2>8. TypeOK'
    BY <1>7, <2>6, <2>7 DEF DeliveryCalls, ChargeInv, TypeOK
  <2>9. UpdatesCharged'
    <3>1. Len(q) + 1 = B /\ B <= L /\ L + e <= PendingLimit BY <1>s, <1>b, <2>2, <2>3
    <3> QED BY <1>p, <1>s, <2>4, <2>1, <2>2, <2>6, <3>1, DeliveryCharge
  <2> QED BY <1>7, <2>8, <2>9 DEF DeliveryCalls, ChargeInv
<1>8. CASE DeliveryDrops
  <2>1. /\ dpc = "wait" /\ dpc' = "head" /\ wpc' = wpc /\ results.queue # <<>>
        /\ results' = [results EXCEPT !.queue = Tail(@), !.updates = @ - 1]
    BY <1>8 DEF DeliveryDrops
  <2>2. k = 0 /\ Busy(dpc', "sink") = 0 BY <1>s, <2>1 DEF Busy
  <2>3. PICK q \in Seq(Updates) : q = Tail(results.queue) /\ Len(q) = L - 1 /\ L > 0
    <3>1. /\ Tail(results.queue) \in Seq(Updates)
          /\ Len(Tail(results.queue)) = L - 1 /\ L > 0
      BY <1>q, <1>s, <2>1
    <3> QED BY <3>1
  <2>4. PICK m \in Nat : m = L - 1 + e /\ results.updates - 1 = m /\ L - 1 \in Nat
    <3>1. L - 1 + e \in Nat /\ results.updates - 1 = L - 1 + e /\ L - 1 \in Nat
      BY <1>s, <2>2, <2>3
    <3> QED BY <3>1
  <2>5. results' = Holding(results, q, m) BY <2>1, <2>3, <2>4 DEF Holding
  <2>6. results' \in ResultQueues /\ results'.queue = q /\ results'.updates = m
    <3>1. /\ Holding(results, q, m) \in ResultQueues
          /\ Holding(results, q, m).updates = m /\ Holding(results, q, m).queue = q
      BY <1>r, WithBoth
    <3> QED BY <2>5, <3>1
  <2>7. TypeOK'
    BY <1>8, <2>6 DEF DeliveryDrops, ChargeInv, TypeOK
  <2>8. UpdatesCharged'
    <3>1. Len(q) + 0 = L - 1 /\ L - 1 <= L /\ L + e <= PendingLimit BY <1>s, <2>2, <2>3
    <3> QED BY <1>p, <1>s, <2>1, <2>2, <2>4, <2>6, <3>1, DeliveryCharge
  <2> QED BY <1>8, <2>7, <2>8 DEF DeliveryDrops, ChargeInv
<1>9. CASE SinkAcknowledges
  <2>1. /\ dpc = "sink" /\ dpc' = "head" /\ wpc' = wpc
        /\ results' = [results EXCEPT !.updates = @ - 1]
    BY <1>9 DEF SinkAcknowledges
  <2>2. k = 1 /\ Busy(dpc', "sink") = 0 BY <1>s, <2>1 DEF Busy
  <2>3. results.updates - 1 = L + e /\ L + e \in Nat BY <1>s, <2>2
  <2>4. results' = [results EXCEPT !.updates = L + e] BY <2>1, <2>3
  <2>5. /\ results' \in ResultQueues /\ results'.queue = results.queue
        /\ results'.updates = L + e
    BY <1>t, <2>3, <2>4, WithUpdates
  <2>6. delivered' \in Deliveries
    BY <1>9, Acknowledged DEF SinkAcknowledges, ChargeInv
  <2>7. TypeOK'
    BY <1>9, <2>5, <2>6 DEF SinkAcknowledges, ChargeInv, TypeOK
  <2>8. UpdatesCharged'
    <3>1. /\ Len(results.queue) + 0 = L /\ L <= L + 1 /\ L + 1 \in Nat
          /\ L + 1 + e <= PendingLimit
      BY <1>s, <2>2
    <3> QED BY <1>p, <1>s, <2>1, <2>2, <2>5, <3>1, DeliveryCharge
  <2> QED BY <1>9, <2>7, <2>8 DEF SinkAcknowledges, ChargeInv
<1>10. CASE SinkFails
  <2>1. /\ dpc = "sink" /\ dpc' = "done" /\ wpc' = wpc
        /\ results' = [results EXCEPT !.queue = <<>>, !.updates = @ - 1 - L,
                                      !.deliveryDone = TRUE]
    BY <1>10, <1>s DEF SinkFails
  <2>2. k = 1 /\ Busy(dpc', "sink") = 0 BY <1>s, <2>1 DEF Busy
  <2>3. results.updates - 1 - L = e BY <1>s, <2>2
  <2>4. results' = Ended(results, empty, e)
    BY <1>e, <2>1, <2>3 DEF Ended
  <2>5. results' \in ResultQueues /\ results'.queue = empty /\ results'.updates = e
    BY <1>r, <1>n, <2>4, WithEnd
  <2>6. control' \in Controls
    BY <1>10, <1>t DEF SinkFails, Controls, Codes
  <2>7. TypeOK'
    BY <1>10, <2>5, <2>6 DEF SinkFails, ChargeInv, TypeOK
  <2>8. UpdatesCharged'
    <3>1. results'.updates = Busy(wpc, "encode") /\ e <= PendingLimit
      BY <1>s, <1>p, <2>2, <2>5
    <3>2. Busy(wpc', "encode") = Busy(wpc, "encode") BY <2>1
    <3>3. results'.updates = Len(results'.queue) + Busy(dpc', "sink") + Busy(wpc', "encode")
      BY <1>s, <1>e, <2>2, <2>5, <3>1, <3>2
    <3>4. results'.updates <= PendingLimit
      BY <1>s, <2>5, <3>1
    <3> QED BY <2>5, <3>3, <3>4, ChargeSumNext
  <2> QED BY <1>10, <2>7, <2>8 DEF SinkFails, ChargeInv
<1>11. CASE Client
  BY <1>11 DEF Client, ClientWaits, ClientReturns, ChargeInv, TypeOK, UpdatesCharged
<1>12. CASE Cancel
  <2>1. control' \in Controls
    BY <1>12, <1>t DEF Cancel, Controls
  <2> QED BY <1>t, <1>k, <1>12, <2>1, QuietStep DEF Cancel
<1>13. CASE UNCHANGED vars
  BY <1>t, <1>k, <1>13, QuietStep DEF vars
<1> QED
  BY <1>1, <1>2, <1>3, <1>4, <1>5, <1>6, <1>7, <1>8, <1>9, <1>10, <1>11, <1>12, <1>13
  DEF Source, Delivery

(* Every reachable state satisfies the inductive invariant: the shape of the *)
(* state, the accounting of the update queue, and the two facts it rests on. *)
THEOREM ChargeInvariant == Spec => []ChargeInv
<1>1. Init => ChargeInv BY ChargeInit
<1>2. ChargeInv /\ [Next]_vars => ChargeInv'
  BY ChargeWorker, ChargeOthers DEF Next, Done
<1> QED BY <1>1, <1>2, PTL DEF Spec

(* Whatever the renderer, the sink and the model answer, and whoever fails,  *)
(* the worker and both pumps leave every field of State in its range: no     *)
(* counter runs below zero and no raster reservation exceeds its limit.      *)
THEOREM TypeCorrect == Spec => []TypeOK
<1>1. ChargeInv => TypeOK BY DEF ChargeInv
<1> QED BY <1>1, ChargeInvariant, PTL

(* For every limit and every number of pages: emit, the delivery pump and    *)
(* every error path of either keep pending_updates equal to the updates that *)
(* exist, and never above limits.pending_updates().                          *)
THEOREM UpdatesAlwaysCharged == Spec => []UpdatesCharged
<1>1. ChargeInv => UpdatesCharged BY DEF ChargeInv
<1> QED BY <1>1, ChargeInvariant, PTL

-----------------------------------------------------------------------------
(* The rasters of a document job: the mailbox between the worker and the     *)
(* source pump, the reservation of their pixels, and what a cancellation     *)
(* stops.                                                                    *)

(* Outside load and the shutdown that may follow it the mailbox is empty and *)
(* the pump idle; while it is not, the whole raster budget is charged.  The  *)
(* worker joins the pump only after telling it to stop.                      *)
MailFree == render.request = 0 /\ spc # "rendering" /\ render.reply = <<>>
MailInv ==
    /\ RenderOnce
    /\ MailFree \/ wpc \in {"await", "stop", "joinSource"}
    /\ MailFree \/ inputBytes = InputLimit
    /\ wpc = "joinSource" => render.stop

(* The positions at which the worker may own the page's raster.              *)
HoldsRaster ==
    \/ wpc \in {"loaded", "layout", "formulas", "recognize", "finishPage"}
    \/ /\ wpc \in {"reserve", "encode"}
       /\ work.emit = "formula" \/ (work.emit = "layout" /\ work.all)
HeldInv ==
    /\ HoldsRaster \/ work.held = 0
    /\ work.held <= inputBytes

RasterInv == MailInv /\ HeldInv

LEMMA RasterInit == Init => RasterInv
<1> SUFFICES ASSUME Init PROVE RasterInv
  OBVIOUS
<1>1. MailInv
  BY DEF Init, MailInv, MailFree, RenderOnce
<1>2. HeldInv
  BY DEF Init, HeldInv
<1> QED BY <1>1, <1>2 DEF RasterInv

-----------------------------------------------------------------------------
(* The mailbox.                                                              *)

(* A step far from load: whatever it does to the worker, the mailbox is      *)
(* empty before and after.                                                   *)
LEMMA FarFromMail ==
  ASSUME MailInv, wpc \notin {"await", "stop", "joinSource"}, wpc' # "joinSource",
         render' = render, spc' # "rendering"
  PROVE  MailInv'
<1>1. MailFree BY DEF MailInv
<1>2. MailFree' BY <1>1 DEF MailFree
<1> QED BY <1>2 DEF MailInv, MailFree, RenderOnce

(* A step that keeps page, mailbox and reservation, and the worker at hand.  *)
LEMMA NearMail ==
  ASSUME MailInv, render' = render, spc' = spc, spage' = spage, inputBytes' = inputBytes,
         work'.page = work.page, wpc' = wpc \/ (wpc = "await" /\ wpc' = "stop")
  PROVE  MailInv'
  BY DEF MailInv, MailFree, RenderOnce

LEMMA MailWorker == ChargeInv /\ MailInv /\ Worker => MailInv'
<1> SUFFICES ASSUME ChargeInv, MailInv, Worker PROVE MailInv'
  OBVIOUS
<1> USE DEF shared, others, sourcePump, Awake
<1>t. TypeOK /\ render \in Mailboxes /\ work \in Works
  BY DEF ChargeInv, TypeOK
<1>1. CASE StartJob
  BY <1>1, FarFromMail DEF StartJob
<1>2. CASE NextPage
  BY <1>2, FarFromMail, <1>t DEF NextPage, StopWith, MailInv, MailFree
<1>3. CASE Reserve \/ ReserveStopped \/ ReserveWaits \/ Publish \/ PublishRejected
  <2>1. /\ wpc \in {"reserve", "encode"} /\ render' = render /\ spc' = spc
    BY <1>3 DEF Reserve, ReserveStopped, ReserveWaits, Publish, PublishRejected
  <2>2. wpc' # "joinSource"
    <3>1. CASE Reserve \/ ReserveWaits
      BY <3>1 DEF Reserve, ReserveWaits, worker
    <3>2. CASE ReserveStopped \/ PublishRejected
      <4>1. PICK code : EmitFails(code)
        BY <3>2 DEF ReserveStopped, PublishRejected
      <4> QED BY <4>1 DEF EmitFails
    <3>3. CASE Publish
      BY <3>3, <1>t DEF Publish, Continue, Works, Kinds
    <3> QED BY <1>3, <3>1, <3>2, <3>3
  <2> QED BY <2>1, <2>2, FarFromMail DEF MailInv, MailFree
<1>4. CASE CheckBeforeLayout \/ LayoutSucceeds \/ LayoutFails \/ PipelineBreaks
  <2>1. /\ wpc \in {"loaded", "layout", "recognize"} /\ render' = render /\ spc' = spc
        /\ wpc' # "joinSource"
    BY <1>4 DEF CheckBeforeLayout, LayoutSucceeds, LayoutFails, PipelineBreaks, StopWith
  <2> QED BY <2>1, FarFromMail DEF MailInv, MailFree
<1>5. CASE NextFormula \/ FormulaFinishes \/ FormulaAborts \/ FinishPage
  <2>1. /\ wpc \in {"formulas", "recognize", "finishPage"} /\ render' = render /\ spc' = spc
        /\ wpc' # "joinSource"
    BY <1>5 DEF NextFormula, FormulaFinishes, FormulaAborts, FinishPage, StopWith
  <2> QED BY <2>1, FarFromMail DEF MailInv, MailFree
<1>6. CASE StopDelivery \/ Finish
  <2>1. /\ wpc \in {"stopDelivery", "joinDelivery"} /\ render' = render /\ spc' = spc
        /\ wpc' # "joinSource"
    BY <1>6 DEF StopDelivery, Finish
  <2> QED BY <2>1, FarFromMail DEF MailInv, MailFree
<1>7. CASE AwaitSleeps
  BY <1>7, NearMail DEF AwaitSleeps, worker
<1>8. CASE AwaitEnded
  <2>1. PICK c \in Codes \cup {None} : StopWith(c)
    BY <1>8, <1>t, StopCodes DEF AwaitEnded, Codes
  <2>2. work'.page = work.page /\ wpc' = "stop" /\ wpc = "await"
    BY <1>8, <1>t, <2>1, Stops DEF SameCourse, AwaitEnded
  <2> QED BY <1>8, <2>2, NearMail DEF AwaitEnded
<1>9. CASE StopSource
  <2>1. render' = [render EXCEPT !.stop = TRUE, !.request = 0, !.reply = <<>>]
    BY <1>9 DEF StopSource
  <2>2. render'.stop /\ render'.request = 0 /\ render'.reply = <<>>
    BY <1>t, <2>1, StoppedMailbox
  <2>3. /\ wpc' = "joinSource" /\ work' = work /\ spc' = spc /\ spage' = spage
        /\ inputBytes' = inputBytes
    BY <1>9 DEF StopSource
  <2> QED BY <2>2, <2>3 DEF MailInv, MailFree, RenderOnce
<1>10. CASE RequestPage
  <2>1. MailFree /\ wpc = "load" BY <1>10 DEF RequestPage, MailInv
  <2>2. CASE Stopped
    BY <1>10, <2>1, <2>2, FarFromMail DEF RequestPage, StopWith, MailFree
  <2>3. CASE ~Stopped
    <3>1. /\ render' = [render EXCEPT !.request = work.page] /\ inputBytes' = InputLimit
          /\ wpc' = "await" /\ work' = work /\ spc' = spc
      BY <1>10, <2>3 DEF RequestPage
    <3>2. render'.request = work.page /\ render'.reply = render.reply
      BY <1>t, <3>1 DEF Mailboxes
    <3> QED BY <2>1, <3>1, <3>2 DEF MailInv, MailFree, RenderOnce
  <2> QED BY <2>2, <2>3
<1>11. CASE TakeReply
  <2>1. /\ wpc = "await" /\ render.reply # <<>> /\ spc' = spc
        /\ render' = [render EXCEPT !.reply = <<>>] /\ wpc' # "joinSource"
    BY <1>11 DEF TakeReply, StopWith
  <2>2. render'.request = render.request /\ render'.reply = <<>>
    BY <1>t, <2>1, WithoutReply
  <2>3. MailFree' BY <2>1, <2>2 DEF MailInv, MailFree, RenderOnce
  <2> QED BY <2>1, <2>3 DEF MailInv, MailFree, RenderOnce
<1>12. CASE Summarize
  <2>1. /\ wpc = "joinSource" /\ spc # "rendering" /\ spc' = spc
        /\ render' = [render EXCEPT !.reply = <<>>] /\ wpc' # "joinSource"
    BY <1>12 DEF Summarize, SourceJoined
  <2>2. render'.request = render.request /\ render'.reply = <<>>
    BY <1>t, <2>1, WithoutReply
  <2>3. MailFree' BY <2>1, <2>2 DEF MailInv, MailFree, RenderOnce
  <2> QED BY <2>1, <2>3 DEF MailInv, MailFree, RenderOnce
<1> QED
  BY <1>1, <1>2, <1>3, <1>4, <1>5, <1>6, <1>7, <1>8, <1>9, <1>10, <1>11, <1>12 DEF Worker

LEMMA MailOthers ==
  ChargeInv /\ MailInv /\ (Source \/ Delivery \/ Client \/ Cancel \/ UNCHANGED vars) => MailInv'
<1> SUFFICES ASSUME ChargeInv, MailInv,
                    Source \/ Delivery \/ Client \/ Cancel \/ UNCHANGED vars
             PROVE  MailInv'
  OBVIOUS
<1> USE DEF shared, worker, others, sourcePump, deliveryPump
<1>t. render \in Mailboxes
  BY DEF ChargeInv, TypeOK
<1>1. CASE SourceSleeps
  BY <1>1, NearMail DEF SourceSleeps
<1>2. CASE SourceTakes
  <2>1. /\ render' = [render EXCEPT !.request = 0] /\ render.request # 0
        /\ spc' = "rendering" /\ spage' = render.request
        /\ work' = work /\ wpc' = wpc /\ inputBytes' = inputBytes
    BY <1>2 DEF SourceTakes
  <2>2. /\ render'.request = 0 /\ render'.reply = render.reply /\ render'.stop = render.stop
    BY <1>t, <2>1 DEF Mailboxes
  <2> QED BY <2>1, <2>2 DEF MailInv, MailFree, RenderOnce
<1>3. CASE SourceHalts
  <2>1. /\ render' = [render EXCEPT !.done = TRUE] /\ spc' = "done"
        /\ work' = work /\ wpc' = wpc /\ inputBytes' = inputBytes
    BY <1>3 DEF SourceHalts
  <2>2. /\ render'.request = render.request /\ render'.reply = render.reply
        /\ render'.stop = render.stop
    BY <1>t, <2>1 DEF Mailboxes
  <2> QED BY <2>1, <2>2 DEF MailInv, MailFree, RenderOnce
<1>4. CASE SourceReplies
  <2>1. PICK reply : render' = [render EXCEPT !.reply = <<reply>>]
    BY <1>4 DEF SourceReplies
  <2>2. /\ spc = "rendering" /\ spc' = "idle" /\ ~render.stop
        /\ work' = work /\ wpc' = wpc /\ inputBytes' = inputBytes
    BY <1>4 DEF SourceReplies, Halting
  <2>3. render'.request = render.request /\ render'.stop = render.stop
    BY <1>t, <2>1 DEF Mailboxes
  <2> QED BY <2>2, <2>3 DEF MailInv, MailFree, RenderOnce
<1>5. CASE Delivery \/ Client \/ Cancel \/ UNCHANGED vars
  BY <1>5, NearMail
  DEF Delivery, DeliveryWaits, DeliveryEnds, DeliveryCalls, DeliveryDrops, SinkAcknowledges,
      SinkFails, Client, ClientWaits, ClientReturns, Cancel, vars
<1> QED
  BY <1>1, <1>2, <1>3, <1>4, <1>5 DEF Source

-----------------------------------------------------------------------------
(* The worker's raster.                                                      *)

(* A step after which the worker owns no raster.                             *)
LEMMA HeldGone == ASSUME work'.held = 0, inputBytes' \in 0 .. InputLimit PROVE HeldInv'
  BY LimitsAssumption DEF HeldInv

(* A step that changes neither the raster nor its charge, at a position that *)
(* may own one if the position before it could.                              *)
LEMMA HeldKept ==
  ASSUME HeldInv, work'.held = work.held, inputBytes' = inputBytes,
         HoldsRaster => HoldsRaster'
  PROVE  HeldInv'
  BY DEF HeldInv

LEMMA HeldWorker == ChargeInv /\ HeldInv /\ Worker => HeldInv'
<1> SUFFICES ASSUME ChargeInv, HeldInv, Worker PROVE HeldInv'
  OBVIOUS
<1> USE DEF shared, others
<1>t. TypeOK /\ work \in Works /\ inputBytes \in 0 .. InputLimit
  BY DEF ChargeInv, TypeOK
<1>z. 0 \in 0 .. InputLimit /\ InputLimit \in 0 .. InputLimit
  BY LimitsAssumption
<1>c. /\ StopReason \in Codes \cup {None} /\ LoadStop \in Codes \cup {None}
      /\ EmitStop \in Codes \cup {None} /\ None \in Codes \cup {None}
      /\ "WorkerFailed" \in Codes
  BY <1>t, StopCodes DEF Codes
<1>s. ASSUME NEW c \in Codes \cup {None}, StopWith(c), inputBytes' = inputBytes
      PROVE  HeldInv'
  BY <1>t, <1>s, Stops, HeldGone
<1>f. ASSUME NEW c \in Codes, EmitFails(c), inputBytes' = inputBytes
      PROVE  HeldInv'
  BY <1>t, <1>f, EmitFailing, HeldGone
<1>0. CASE wpc = "queued" \/ wpc = "pages" \/ wpc = "stop" \/ wpc = "load" \/ wpc = "await"
           \/ wpc = "joinSource" \/ wpc = "stopDelivery" \/ wpc = "joinDelivery"
  <2>h. work.held = 0 BY <1>0 DEF HeldInv, HoldsRaster
  <2>1. CASE StartJob
    <3>1. PICK c \in Codes \cup {None}, b \in BOOLEAN :
             work' = [work EXCEPT !.failure = c, !.broken = b]
      BY <2>1 DEF StartJob, Codes
    <3>2. PICK u : u = [work EXCEPT !.failure = c] OBVIOUS
    <3>3. u \in Works /\ u.held = 0 BY <1>t, <2>h, <3>2, WithFailure
    <3>4. work' = [u EXCEPT !.broken = b] BY <3>1, <3>2
    <3>5. work'.held = 0 BY <3>3, <3>4, WithBroken
    <3> QED BY <1>t, <2>1, <3>5, HeldGone DEF StartJob
  <2>2. CASE NextPage
    <3>1. inputBytes' = inputBytes BY <2>2 DEF NextPage
    <3>2. CASE work.page = NumPages \/ StopReason # None
      BY <1>c, <1>s, <2>2, <3>1, <3>2 DEF NextPage
    <3>3. CASE work.page # NumPages /\ StopReason = None
      <4>1. work' = [work EXCEPT !.page = @ + 1] BY <2>2, <3>3 DEF NextPage
      <4>2. work'.held = 0 BY <1>t, <2>h, <3>3, <4>1, WithPage
      <4> QED BY <1>t, <3>1, <4>2, HeldGone
    <3> QED BY <3>2, <3>3
  <2>3. CASE StopSource \/ StopDelivery \/ AwaitSleeps \/ Finish
    <3>1. work' = work /\ inputBytes' \in 0 .. InputLimit
      BY <1>t, <1>z, <2>3 DEF StopSource, StopDelivery, AwaitSleeps, Finish, worker
    <3> QED BY <2>h, <3>1, HeldGone
  <2>4. CASE RequestPage
    <3>1. CASE Stopped
      BY <1>c, <1>s, <2>4, <3>1 DEF RequestPage
    <3>2. CASE ~Stopped
      <4>1. work' = work /\ inputBytes' = InputLimit BY <2>4, <3>2 DEF RequestPage
      <4> QED BY <1>z, <2>h, <4>1, HeldGone
    <3> QED BY <3>1, <3>2
  <2>5. CASE AwaitEnded
    <3>1. PICK c \in Codes \cup {None} : StopWith(c)
      BY <1>c, <2>5 DEF AwaitEnded
    <3> QED BY <1>s, <2>5, <3>1 DEF AwaitEnded
  <2>6. CASE TakeReply
    <3>1. PICK reply \in Replies : reply = Head(render.reply)
      BY <2>6 DEF TakeReply, ChargeInv, TypeOK, Mailboxes
    <3>2. PICK verdict \in Codes \cup {None} : verdict = LoadVerdict(reply)
      BY <3>1, Verdict
    <3>3. CASE verdict = None
      <4>1. reply.image.bytes \in 0 .. InputLimit
        BY <3>2, <3>3, Verdict
      <4>2. /\ work' = [work EXCEPT !.held = reply.image.bytes]
            /\ wpc' = "loaded" /\ inputBytes' = reply.image.bytes
        BY <2>6, <3>1, <3>2, <3>3 DEF TakeReply, FatalLoad, None
      <4>3. work'.held = reply.image.bytes
        BY <1>t, <4>1, <4>2, WithHeld
      <4> QED BY <4>1, <4>2, <4>3 DEF HeldInv, HoldsRaster
    <3>4. CASE verdict # None /\ verdict \in FatalLoad
      <4>1. StopWith(verdict) /\ inputBytes' = inputBytes
        BY <2>6, <3>1, <3>2, <3>4 DEF TakeReply
      <4> QED BY <1>s, <4>1
    <3>5. CASE verdict # None /\ verdict \notin FatalLoad
      <4>1. work' = Emitting(work, "pageFailed") /\ inputBytes' = 0
        BY <2>6, <3>1, <3>2, <3>5 DEF TakeReply
      <4>2. work'.held = 0
        BY <1>t, <2>h, <4>1, Emits DEF Kinds
      <4> QED BY <1>z, <4>1, <4>2, HeldGone
    <3> QED BY <3>3, <3>4, <3>5
  <2>7. CASE Summarize
    <3>1. PICK w : w = [work EXCEPT !.summary = Summary] OBVIOUS
    <3>2. Summary \in Statuses BY DEF Summary, Statuses
    <3>3. w \in Works /\ w.held = 0 BY <1>t, <2>h, <3>1, <3>2, WithSummary
    <3>4. work' = Emitting(w, "document") \/ work' = w
      BY <2>7, <3>1 DEF Summarize
    <3>5. work'.held = 0 BY <3>3, <3>4, Emits DEF Kinds
    <3>6. inputBytes' = 0 BY <2>7 DEF Summarize
    <3> QED BY <1>z, <3>5, <3>6, HeldGone
  <2> QED
    BY <1>0, <2>1, <2>2, <2>3, <2>4, <2>5, <2>6, <2>7
    DEF Worker, Reserve, ReserveStopped, ReserveWaits, Publish, PublishRejected,
        CheckBeforeLayout, LayoutSucceeds, LayoutFails, PipelineBreaks, NextFormula,
        FormulaFinishes, FormulaAborts, FinishPage
<1>1. CASE Reserve \/ ReserveWaits
  <2>1. /\ wpc = "reserve" /\ wpc' \in {"reserve", "encode"} /\ work' = work
        /\ inputBytes' = inputBytes
    BY <1>1 DEF Reserve, ReserveWaits, worker
  <2> QED BY <2>1, HeldKept DEF HoldsRaster
<1>2. CASE ReserveStopped \/ PublishRejected
  <2>1. PICK c \in Codes : EmitFails(c)
    BY <1>2, <1>c DEF ReserveStopped, PublishRejected, Codes
  <2>2. inputBytes' = inputBytes BY <1>2 DEF ReserveStopped, PublishRejected
  <2> QED BY <1>f, <2>1, <2>2
<1>3. CASE Publish
  <2>1. wpc = "encode" /\ inputBytes' = inputBytes BY <1>3 DEF Publish
  <2>2. CASE HoldsRaster
    <3>1. wpc' = "formulas" /\ work' = work
      BY <1>3, <2>1, <2>2 DEF Publish, Continue, HoldsRaster
    <3> QED BY <2>1, <3>1, HeldKept DEF HoldsRaster
  <2>3. CASE ~HoldsRaster
    <3>1. work' = work \/ work' = Emitting(work, "page")
      BY <1>3, <1>t DEF Publish, Continue, Works, Kinds
    <3>2. work'.held = work.held
      BY <1>t, <3>1, Emits DEF Kinds
    <3> QED BY <2>1, <2>3, <3>2, HeldKept
  <2> QED BY <2>2, <2>3
<1>4. CASE CheckBeforeLayout
  <2>1. wpc = "loaded" /\ inputBytes' = inputBytes BY <1>4 DEF CheckBeforeLayout
  <2>2. CASE StopReason # None
    BY <1>4, <1>c, <1>s, <2>1, <2>2 DEF CheckBeforeLayout
  <2>3. CASE StopReason = None
    <3>1. wpc' = "layout" /\ work' = work BY <1>4, <2>3 DEF CheckBeforeLayout
    <3> QED BY <2>1, <3>1, HeldKept DEF HoldsRaster
  <2> QED BY <2>2, <2>3
<1>5. CASE LayoutSucceeds
  <2>1. wpc = "layout" /\ inputBytes' = inputBytes BY <1>5 DEF LayoutSucceeds
  <2>2. CASE work.all
    <3>1. PICK n \in 0 .. MaxFormulas :
             work' = Emitting([work EXCEPT !.left = n], "layout") /\ wpc' = "reserve"
      BY <1>5, <2>2 DEF LayoutSucceeds
    <3>2. PICK u : u = [work EXCEPT !.left = n] OBVIOUS
    <3>3. u \in Works /\ u.held = work.held /\ u.all = work.all BY <1>t, <3>2, WithLeft
    <3>4. work' = Emitting(u, "layout") BY <3>1, <3>2
    <3>5. work'.held = work.held /\ work'.emit = "layout" /\ work'.all
      BY <2>2, <3>3, <3>4, Emits DEF Kinds
    <3> QED BY <2>1, <3>1, <3>5, HeldKept DEF HoldsRaster
  <2>3. CASE ~work.all
    <3>1. wpc' = "finishPage" /\ work' = work BY <1>5, <2>3 DEF LayoutSucceeds
    <3> QED BY <2>1, <3>1, HeldKept DEF HoldsRaster
  <2> QED BY <2>2, <2>3
<1>6. CASE LayoutFails
  <2>1. PICK b \in BOOLEAN, c \in Codes \cup {None} :
           work' = Emitting([work EXCEPT !.held = 0, !.broken = b, !.failure = c], "pageFailed")
    <3>1. work.broken \in BOOLEAN BY <1>t DEF Works
    <3> QED BY <1>6, <3>1 DEF LayoutFails, Codes
  <2>2. PICK u : u = [work EXCEPT !.held = 0] OBVIOUS
  <2>3. PICK v : v = [u EXCEPT !.broken = b] OBVIOUS
  <2>4. PICK w : w = [v EXCEPT !.failure = c] OBVIOUS
  <2>5. u \in Works /\ u.held = 0 BY <1>t, <1>z, <2>2, WithHeld
  <2>6. v \in Works /\ v.held = 0 BY <2>3, <2>5, WithBroken
  <2>7. w \in Works /\ w.held = 0 BY <2>4, <2>6, WithFailure
  <2>8. work' = Emitting(w, "pageFailed") BY <2>1, <2>2, <2>3, <2>4
  <2>9. work'.held = 0 BY <2>7, <2>8, Emits DEF Kinds
  <2>10. inputBytes' = 0 BY <1>6 DEF LayoutFails
  <2> QED BY <1>z, <2>9, <2>10, HeldGone
<1>7. CASE PipelineBreaks
  <2>1. PICK b \in BOOLEAN, c \in Codes \cup {None} :
           work' = [work EXCEPT !.broken = b, !.held = 0, !.failure = c]
    <3>1. work.broken \in BOOLEAN BY <1>t DEF Works
    <3> QED BY <1>7, <3>1 DEF PipelineBreaks, Codes
  <2>2. work'.held = 0 BY <1>t, <2>1 DEF Works
  <2>3. inputBytes' = inputBytes BY <1>7 DEF PipelineBreaks
  <2> QED BY <1>t, <2>2, <2>3, HeldGone
<1>8. CASE NextFormula
  <2>1. wpc = "formulas" /\ inputBytes' = inputBytes BY <1>8 DEF NextFormula
  <2>2. CASE work.left # 0 /\ StopReason # None
    BY <1>8, <1>c, <1>s, <2>1, <2>2 DEF NextFormula
  <2>3. CASE work.left = 0 \/ StopReason = None
    <3>1. wpc' \in {"finishPage", "recognize"} /\ work' = work
      BY <1>8, <2>3 DEF NextFormula
    <3> QED BY <2>1, <3>1, HeldKept DEF HoldsRaster
  <2> QED BY <2>2, <2>3
<1>9. CASE FormulaFinishes
  <2>1. /\ work' = Emitting([work EXCEPT !.left = @ - 1], "formula") /\ wpc' = "reserve"
        /\ wpc = "recognize" /\ inputBytes' = inputBytes
    BY <1>9 DEF FormulaFinishes
  <2>2. PICK n : n = work.left - 1 OBVIOUS
  <2>3. n \in 0 .. MaxFormulas
    BY <1>t, <2>1, <2>2, LimitsAssumption DEF ChargeInv, Works
  <2>4. PICK u : u = [work EXCEPT !.left = n] OBVIOUS
  <2>5. u \in Works /\ u.held = work.held BY <1>t, <2>3, <2>4, WithLeft
  <2>6. work' = Emitting(u, "formula") BY <2>1, <2>2, <2>4
  <2>7. work'.held = work.held /\ work'.emit = "formula" BY <2>5, <2>6, Emits DEF Kinds
  <2> QED BY <2>1, <2>7, HeldKept DEF HoldsRaster
<1>10. CASE FormulaAborts
  <2>1. inputBytes' = inputBytes BY <1>10 DEF FormulaAborts
  <2>2. CASE StopWith("Cancelled")
    BY <1>s, <2>1, <2>2 DEF Codes
  <2>3. CASE ~StopWith("Cancelled")
    <3>1. work' = [work EXCEPT !.failure = "Backend", !.broken = TRUE, !.held = 0]
      BY <1>10, <2>3 DEF FormulaAborts
    <3>2. work'.held = 0 BY <1>t, <3>1 DEF Works
    <3> QED BY <1>t, <2>1, <3>2, HeldGone
  <2> QED BY <2>2, <2>3
<1>11. CASE FinishPage
  <2>1. PICK kind \in Kinds : work' = Emitting([work EXCEPT !.held = 0], kind)
    BY <1>11 DEF FinishPage, Kinds
  <2>2. PICK u : u = [work EXCEPT !.held = 0] OBVIOUS
  <2>3. u \in Works /\ u.held = 0 BY <1>t, <1>z, <2>2, WithHeld
  <2>4. work' = Emitting(u, kind) BY <2>1, <2>2
  <2>5. work'.held = 0 BY <2>3, <2>4, Emits
  <2>6. inputBytes' = 0 BY <1>11 DEF FinishPage
  <2> QED BY <1>z, <2>5, <2>6, HeldGone
<1> QED
  BY <1>0, <1>1, <1>2, <1>3, <1>4, <1>5, <1>6, <1>7, <1>8, <1>9, <1>10, <1>11
  DEF Worker, StartJob, NextPage, StopSource, RequestPage, AwaitSleeps, AwaitEnded,
      TakeReply, Summarize, StopDelivery, Finish

LEMMA HeldOthers ==
  HeldInv /\ (Source \/ Delivery \/ Client \/ Cancel \/ UNCHANGED vars) => HeldInv'
<1> SUFFICES ASSUME HeldInv, Source \/ Delivery \/ Client \/ Cancel \/ UNCHANGED vars
             PROVE  HeldInv'
  OBVIOUS
<1>1. wpc' = wpc /\ work' = work /\ inputBytes' = inputBytes
  BY DEF shared, worker, others, Source, SourceSleeps, SourceTakes, SourceHalts,
         SourceReplies, Delivery, DeliveryWaits, DeliveryEnds, DeliveryCalls, DeliveryDrops,
         SinkAcknowledges, SinkFails, Client, ClientWaits, ClientReturns, Cancel, vars
<1> QED BY <1>1, HeldKept DEF HoldsRaster

-----------------------------------------------------------------------------
(* Every reachable state satisfies the inductive invariant of the rasters.   *)
THEOREM RasterInvariant == Spec => []RasterInv
<1>1. Init => RasterInv BY RasterInit
<1>2. ChargeInv /\ RasterInv /\ [Next]_vars => RasterInv'
  BY MailWorker, MailOthers, HeldWorker, HeldOthers DEF RasterInv, Next, Done
<1> QED BY <1>1, <1>2, ChargeInvariant, PTL DEF Spec

(* For every number of pages, load and source_loop keep request, rendering   *)
(* and reply one token, tied to the page the worker is at: no page is        *)
(* rendered twice and no late answer is taken for another page's.            *)
THEOREM RenderedOnce == Spec => []RenderOnce
<1>1. RasterInv => RenderOnce BY DEF RasterInv, MailInv
<1> QED BY <1>1, RasterInvariant, PTL

(* Whatever fails, whenever the job is cancelled: a raster that the renderer *)
(* may be producing, that waits in the mailbox or that the worker uses is    *)
(* charged to progress.input_bytes until it is dropped.                      *)
THEOREM RasterAlwaysCharged == Spec => []RasterCharged
<1>1. RasterInv => RasterCharged
  BY DEF RasterInv, MailInv, MailFree, HeldInv, RasterCharged
<1> QED BY <1>1, RasterInvariant, PTL

(* The mailbox between worker and source, for every number of pages: its     *)
(* rasters stay charged and its answers keep to the page they were asked for.*)
THEOREM MailboxAlwaysExact == Spec => []MailboxExact
<1> QED BY RenderedOnce, RasterAlwaysCharged, PTL DEF MailboxExact

-----------------------------------------------------------------------------
(* A cancelled job starts nothing: source_loop takes no request, and         *)
(* delivery_loop hands the sink nothing but the terminal notice.             *)
THEOREM CancelAlwaysStops == Spec => CancelStops
<1> DEFINE Starts == control.cancelled =>
              /\ spc' = "rendering" => spc = "rendering"
              /\ dpc' = "sink" /\ dpc # "sink" => Terminal(inflight')
<1>1. [Next]_vars => Starts
  <2> SUFFICES ASSUME Next \/ UNCHANGED vars, control.cancelled
               PROVE  /\ spc' = "rendering" => spc = "rendering"
                      /\ dpc' = "sink" /\ dpc # "sink" => Terminal(inflight')
    OBVIOUS
  <2> USE DEF others, sourcePump, deliveryPump
  <2>1. CASE Worker
    <3>1. CASE StartJob
      BY <3>1 DEF StartJob
    <3>2. CASE ~StartJob
      BY <2>1, <3>2
      DEF Worker, NextPage, StopSource, Reserve, ReserveStopped, ReserveWaits, Publish,
          PublishRejected, RequestPage, AwaitSleeps, AwaitEnded, TakeReply,
          CheckBeforeLayout, LayoutSucceeds, LayoutFails, PipelineBreaks, NextFormula,
          FormulaFinishes, FormulaAborts, FinishPage, Summarize, StopDelivery, Finish
    <3> QED BY <3>1, <3>2
  <2>2. CASE Source
    BY <2>2 DEF Source, SourceSleeps, SourceTakes, SourceHalts, SourceReplies, Halting
  <2>3. CASE Delivery
    <3>1. CASE DeliveryCalls
      BY <3>1 DEF DeliveryCalls, MayDeliver
    <3>2. CASE ~DeliveryCalls
      BY <2>3, <3>2
      DEF Delivery, DeliveryWaits, DeliveryEnds, DeliveryDrops, SinkAcknowledges, SinkFails
    <3> QED BY <3>1, <3>2
  <2>4. CASE Client \/ Cancel \/ Done \/ UNCHANGED vars
    BY <2>4 DEF Client, ClientWaits, ClientReturns, Cancel, Done, vars
  <2> QED BY <2>1, <2>2, <2>3, <2>4 DEF Next
<1>2. Spec => [][Starts]_vars
  BY <1>1, PTL DEF Spec
<1> QED BY <1>2 DEF CancelStops

-----------------------------------------------------------------------------
(* A recursive function over a queue is computed by the running totals of    *)
(* its updates, so the least-number principle says what a queue's bytes are. *)

(* Every non-empty set of naturals has a least member.                       *)
Smaller == {pair \in Nat \X Nat : pair[1] < pair[2]}

LEMMA LeastNumber ==
  ASSUME NEW T \in SUBSET Nat, T # {}
  PROVE  \E m \in T : \A n \in T : m <= n
<1>1. IsWellFoundedOn(Smaller, Nat)
  BY NatLessThanWellFounded DEF OpToRel, Smaller
<1>2. PICK m \in T : \A n \in T : ~(<<n, m>> \in Smaller)
  <2>1. T \subseteq Nat
    OBVIOUS
  <2>2. \E m \in T : \A n \in T : ~(<<n, m>> \in Smaller)
    BY <1>1, <2>1, WFMin
  <2> QED BY <2>2
<1>3. ASSUME NEW n \in T PROVE m <= n
  <2>1. ~(n < m)
    BY <1>2, <1>3 DEF Smaller
  <2> QED BY <2>1
<1> QED BY <1>3

(* A running total of a queue's bytes.                                       *)
Totals(f, queue) ==
    f = [n \in 0 .. Len(queue) |-> IF n = 0 THEN 0 ELSE f[n - 1] + queue[n].size]

LEMMA TotalsAgree ==
  ASSUME NEW queue \in Seq(Updates), NEW f, NEW g, Totals(f, queue), Totals(g, queue)
  PROVE  f[Len(queue)] = g[Len(queue)]
<1>l. Len(queue) \in Nat
  OBVIOUS
<1> DEFINE T == {n \in 0 .. Len(queue) : f[n] # g[n]}
<1>1. SUFFICES ASSUME T # {} PROVE FALSE
  BY <1>l
<1>2. T \in SUBSET Nat
  BY <1>l
<1>3. PICK m \in T : \A n \in T : m <= n
  BY <1>1, <1>2, LeastNumber
<1>4. m # 0
  BY <1>3, <1>l DEF Totals
<1>5. m - 1 \in 0 .. Len(queue) /\ m - 1 \notin T
  BY <1>3, <1>4, <1>l
<1>6. f[m - 1] = g[m - 1]
  BY <1>5
<1>7. f[m] = f[m - 1] + queue[m].size /\ g[m] = g[m - 1] + queue[m].size
  BY <1>3, <1>4, <1>l DEF Totals
<1> QED BY <1>3, <1>6, <1>7

LEMMA TotalsExist ==
  ASSUME NEW queue \in Seq(Updates)
  PROVE  \E f \in [0 .. Len(queue) -> Nat] : Totals(f, queue)
<1>l. Len(queue) \in Nat /\ \A n \in 1 .. Len(queue) : queue[n].size \in Nat
  <2>1. \A n \in 1 .. Len(queue) : queue[n] \in Updates
    BY ElementOfSeq
  <2> QED BY <2>1, LimitsAssumption DEF Updates
<1> DEFINE Upto(f, n) == f[0] = 0 /\ \A i \in 1 .. n : f[i] = f[i - 1] + queue[i].size
           T == {n \in 0 .. Len(queue) : ~ \E f \in [0 .. n -> Nat] : Upto(f, n)}
<1>1. T = {}
  <2>1. SUFFICES ASSUME T # {} PROVE FALSE
    OBVIOUS
  <2>2. T \in SUBSET Nat
    BY <1>l
  <2>3. PICK m \in T : \A n \in T : m <= n
    BY <2>1, <2>2, LeastNumber
  <2>4. m # 0
    <3>1. [i \in 0 .. 0 |-> 0] \in [0 .. 0 -> Nat] /\ Upto([i \in 0 .. 0 |-> 0], 0)
      OBVIOUS
    <3> QED BY <2>3, <3>1
  <2>5. m - 1 \in 0 .. Len(queue) /\ m - 1 \notin T /\ m \in 1 .. Len(queue)
    <3>1. m \in 0 .. Len(queue)
      BY <2>3
    <3>2. m - 1 \in Nat /\ ~(m <= m - 1) /\ m - 1 \in 0 .. Len(queue) /\ m \in 1 .. Len(queue)
      BY <3>1, <2>4, <1>l
    <3> HIDE DEF T
    <3> QED BY <2>3, <3>2
  <2>6. PICK f \in [0 .. m - 1 -> Nat] : Upto(f, m - 1)
    BY <2>5
  <2> DEFINE g == [i \in 0 .. m |-> IF i = m THEN f[m - 1] + queue[m].size ELSE f[i]]
  <2>7. g \in [0 .. m -> Nat]
    BY <1>l, <2>5, <2>6
  <2>8. Upto(g, m)
    BY <1>l, <2>5, <2>6
  <2> QED BY <2>3, <2>7, <2>8
<1>2. PICK f \in [0 .. Len(queue) -> Nat] : Upto(f, Len(queue))
  BY <1>1, <1>l
<1>3. Totals(f, queue)
  BY <1>2, <1>l DEF Totals
<1> QED BY <1>3

LEMMA BytesTotal ==
  ASSUME NEW queue \in Seq(Updates), NEW f, Totals(f, queue)
  PROVE  Bytes(queue) = f[Len(queue)]
<1> DEFINE g == CHOOSE h : h = [n \in 0 .. Len(queue) |->
                                  IF n = 0 THEN 0 ELSE h[n - 1] + queue[n].size]
<1>1. Totals(g, queue)
  BY TotalsExist DEF Totals
<1>2. Bytes(queue) = g[Len(queue)]
  BY DEF Bytes
<1> HIDE DEF g
<1> QED BY <1>1, <1>2, TotalsAgree

LEMMA SizesNat ==
  ASSUME NEW queue \in Seq(Updates), NEW n \in 1 .. Len(queue)
  PROVE  queue[n].size \in Nat
<1>1. queue[n] \in Updates
  BY ElementOfSeq
<1> QED BY <1>1, LimitsAssumption DEF Updates

(* What the pumps do to a queue changes its bytes by the update they move.   *)
LEMMA BytesEmpty == Bytes(<<>>) = 0
<1>1. PICK q \in Seq(Updates) : q = <<>>
  <2>1. <<>> \in Seq(Updates)
    OBVIOUS
  <2> QED BY <2>1
<1>2. PICK f \in [0 .. Len(q) -> Nat] : Totals(f, q)
  BY TotalsExist
<1>3. f[0] = 0 /\ Len(q) = 0
  BY <1>1, <1>2 DEF Totals
<1> QED BY <1>1, <1>2, <1>3, BytesTotal

LEMMA BytesNat ==
  ASSUME NEW queue \in Seq(Updates)
  PROVE  Bytes(queue) \in Nat
<1>1. PICK f \in [0 .. Len(queue) -> Nat] : Totals(f, queue)
  BY TotalsExist
<1>2. Bytes(queue) = f[Len(queue)]
  BY <1>1, BytesTotal
<1>3. Len(queue) \in 0 .. Len(queue)
  OBVIOUS
<1> QED BY <1>2, <1>3

LEMMA BytesAppend ==
  ASSUME NEW queue \in Seq(Updates), NEW u \in Updates
  PROVE  Bytes(Append(queue, u)) = Bytes(queue) + u.size
<1> DEFINE L == Len(queue)
<1>1. PICK f \in [0 .. L -> Nat] : Totals(f, queue)
  BY TotalsExist
<1>2. PICK q \in Seq(Updates) :
         /\ q = Append(queue, u) /\ Len(q) = L + 1
         /\ q[L + 1] = u /\ \A i \in 1 .. L : q[i] = queue[i]
  BY AppendProperties
<1>3. L \in Nat
  OBVIOUS
<1>4. PICK g : g = [n \in 0 .. L + 1 |-> IF n = L + 1 THEN f[L] + u.size ELSE f[n]]
  OBVIOUS
<1> HIDE DEF L
<1>5. Totals(g, q)
  <2>1. \A n \in 0 .. L + 1 : g[n] = IF n = 0 THEN 0 ELSE g[n - 1] + q[n].size
    <3>1. g[0] = 0 /\ g[L + 1] = f[L] + u.size /\ g[L] = f[L]
      BY <1>1, <1>3, <1>4 DEF Totals, L
    <3>2. ASSUME NEW n \in 1 .. L PROVE g[n] = g[n - 1] + q[n].size
      BY <1>1, <1>2, <1>3, <1>4, <3>2 DEF Totals, L
    <3> QED BY <1>2, <1>3, <3>1, <3>2
  <2>2. Len(q) = L + 1 /\ DOMAIN g = 0 .. L + 1 /\ g = [n \in 0 .. L + 1 |-> g[n]]
    BY <1>2, <1>4
  <2> QED BY <2>1, <2>2 DEF Totals
<1>6. Bytes(q) = g[L + 1] /\ Bytes(queue) = f[L]
  BY <1>1, <1>2, <1>5, BytesTotal DEF L
<1>7. g[L + 1] = f[L] + u.size
  BY <1>3, <1>4
<1> QED BY <1>2, <1>6, <1>7

LEMMA BytesTail ==
  ASSUME NEW queue \in Seq(Updates), queue # <<>>
  PROVE  Bytes(queue) = Head(queue).size + Bytes(Tail(queue))
<1> DEFINE L == Len(queue)
           u == Head(queue)
<1>1. PICK q \in Seq(Updates) :
         q = Tail(queue) /\ Len(q) = L - 1 /\ \A i \in 1 .. L - 1 : q[i] = queue[i + 1]
  <2>1. /\ Tail(queue) \in Seq(Updates) /\ Len(Tail(queue)) = L - 1
        /\ \A i \in 1 .. Len(Tail(queue)) : Tail(queue)[i] = queue[i + 1]
    BY HeadTailProperties
  <2> QED BY <2>1
<1>2. L \in Nat \ {0} /\ u = queue[1] /\ u.size \in Nat
  <2>1. L \in Nat \ {0} /\ u = queue[1]
    BY EmptySeq
  <2> QED BY <2>1, SizesNat
<1>3. PICK f \in [0 .. L - 1 -> Nat] : Totals(f, q)
  BY <1>1, TotalsExist
<1> HIDE DEF L, u
<1>4. PICK g : g = [n \in 0 .. L |-> IF n = 0 THEN 0 ELSE f[n - 1] + u.size]
  OBVIOUS
<1>5. Totals(g, queue)
  <2>1. \A n \in 0 .. L : g[n] = IF n = 0 THEN 0 ELSE g[n - 1] + queue[n].size
    <3>1. g[0] = 0 /\ g[1] = g[0] + queue[1].size
      BY <1>1, <1>2, <1>3, <1>4 DEF Totals
    <3>2. ASSUME NEW n \in 2 .. L PROVE g[n] = g[n - 1] + queue[n].size
      <4>1. f[n - 1] = f[n - 2] + q[n - 1].size /\ q[n - 1] = queue[n]
        <5>1. n - 1 \in 1 .. L - 1 /\ n - 1 # 0 /\ n - 1 - 1 = n - 2 /\ n - 1 + 1 = n
          BY <1>2, <3>2
        <5> QED BY <1>1, <1>3, <5>1 DEF Totals
      <4>2. g[n] = f[n - 1] + u.size /\ g[n - 1] = f[n - 2] + u.size
        BY <1>2, <1>4, <3>2
      <4>3. f[n - 2] \in Nat /\ q[n - 1].size \in Nat
        BY <1>1, <1>2, <1>3, <3>2, SizesNat
      <4> DEFINE a == f[n - 2]
                 b == queue[n].size
                 c == u.size
      <4>4. g[n] = a + b + c /\ g[n - 1] = a + c
        BY <4>1, <4>2
      <4>5. a \in Nat /\ b \in Nat /\ c \in Nat
        BY <1>2, <4>1, <4>3
      <4> HIDE DEF a, b, c
      <4>6. a + b + c = a + c + b
        BY <4>5
      <4>7. g[n] = g[n - 1] + b
        BY <4>4, <4>6
      <4> QED BY <4>7 DEF b
    <3> QED BY <1>2, <3>1, <3>2
  <2>2. Len(queue) = L /\ g = [n \in 0 .. L |-> g[n]]
    BY <1>4 DEF L
  <2> QED BY <2>1, <2>2 DEF Totals
<1>6. Bytes(queue) = g[L] /\ Bytes(q) = f[L - 1]
  BY <1>1, <1>3, <1>5, BytesTotal DEF L
<1>7. g[L] = f[L - 1] + u.size /\ f[L - 1] \in Nat
  BY <1>2, <1>3, <1>4
<1> QED BY <1>1, <1>2, <1>6, <1>7 DEF u

-----------------------------------------------------------------------------
(* Why the updates, the outcome and the contract of a job are right: the     *)
(* invariants.                                                               *)

(* The bytes charged, and the update in the sink.                            *)
ByteInv ==
    /\ BytesCharged
    /\ inflight # NoUpdate <=> dpc = "sink"

-----------------------------------------------------------------------------
(* The worker's course: what its position says of its locals.                *)

(* emit is under way; it emits the terminal notice.                          *)
Sending == wpc \in {"reserve", "encode"}
Closing == Sending /\ work.emit = "document"
Ending == {"stopDelivery", "joinDelivery", "finished"}
Paging == {"queued", "pages", "load", "await", "loaded", "layout", "formulas", "recognize",
           "finishPage"}
Leaving == {"stop", "joinSource"} \cup Ending

(* Where the worker is on a page, and where among its formulas.              *)
PageEnds == work.emit \in {"page", "pageFailed"} \/ (work.emit = "layout" /\ ~work.all)
OnPage == wpc \in Paging \ {"queued", "pages"} \/ (Sending /\ ~Closing /\ ~PageEnds)
InFormulas == wpc \in {"formulas", "recognize"}
              \/ (Sending /\ work.all /\ work.emit \in {"layout", "formula"})

(* A job fails for a reason it keeps.                                        *)
Failures ==
    /\ wpc \in Paging \/ (Sending /\ work.emit \notin {"document", "pageFailed"})
         => work.failure = None
    /\ Sending /\ work.emit = "pageFailed" => work.failure \in {None, "Backend"}
    /\ work.broken => work.failure \notin {None, "Cancelled"}
    /\ control.deliveryError \in {None, "Delivery", "LimitExceeded"}
    /\ control.abort => control.deliveryError # None \/ wpc = "joinSource" \/ Closing
                        \/ wpc \in Ending
    /\ work.failure = "Cancelled" /\ "Cancelled" \notin SourceCodes =>
         control.cancelled \/ control.deliveryError # None

(* Every page and formula is counted as it ends.                             *)
Progress ==
    /\ wpc \in {"formulas", "recognize"} \/ (Sending /\ work.emit = "formula") => work.all
    /\ wpc \in Paging \/ (Sending /\ ~Closing) =>
         /\ counts.finished + counts.failed = work.page - (IF OnPage THEN 1 ELSE 0)
         /\ counts.pending = IF InFormulas THEN work.left ELSE 0
    /\ (wpc \in Leaving \/ Closing) /\ work.failure = None =>
         counts.finished + counts.failed = NumPages /\ counts.pending = 0

(* What the summary says is what the job came to.                            *)
Summed ==
    /\ wpc \in Ending \/ Closing => work.summary # None
    /\ work.summary \in {"Completed", "Partial"} =>
         work.failure = None /\ (wpc \in Ending \/ Closing)
    /\ work.summary = "Completed" => counts.failed + counts.badFormulas = 0
    /\ work.summary = "Partial" => counts.failed + counts.badFormulas > 0
    /\ work.summary = "Cancelled" => control.cancelled \/ work.failure = "Cancelled"

(* The pumps.                                                                *)
Pumps ==
    /\ results.deliveryDone <=> dpc = "done"
    /\ results.processingDone => wpc \in {"joinDelivery", "finished"}
    /\ wpc = "joinDelivery" => results.processingDone
    /\ wpc = "queued" <=> phase = "Queued"
    /\ dpc = "off" /\ wpc # "queued" => control.deliveryError # None
    /\ dpc = "done" => results.processingDone
                        \/ (control.deliveryError # None /\ control.abort)
    /\ wpc \in Ending \/ Closing => spc \in {"off", "done"}
    /\ wpc = "finished" => dpc \in {"off", "done"}
    /\ wpc \in {"load", "await"} \/ render.request # 0 => dpc # "off"
    /\ outcome = None <=> wpc # "finished"

CourseInv == Failures /\ Progress /\ Summed /\ Pumps

-----------------------------------------------------------------------------
(* The updates on their way.                                                 *)

(* An update the worker has numbered and not queued yet; a page among them.  *)
Due == IF Sending THEN 1 ELSE 0
PageDue == IF Sending /\ (work.emit = "page" \/ (work.emit = "layout" /\ ~work.all))
           THEN 1 ELSE 0
OnTime == ~Stopped /\ (work.failure = None \/ (Sending /\ ~Closing))
PagesOf(u) == IF u.kind = "page" THEN 1 ELSE 0

(* The terminal notice is on its way or delivered.                           *)
Noticed == delivered.notice \/ \E i \in DOMAIN Outstanding : Terminal(Outstanding[i])

(* Every update of an undisturbed job is acknowledged, or outstanding and    *)
(* numbered in turn, or about to be reserved.                                *)
Numbered ==
    /\ work.sequence = delivered.last + 1 + Len(Outstanding) + Due
    /\ delivered.acknowledged = delivered.last + 1
    /\ \A i \in DOMAIN Outstanding : Outstanding[i].seq = delivered.last + i

(* f[i] pages are delivered when the sink has taken i more updates.          *)
Counting(f, out) ==
    /\ f \in [0 .. Len(out) -> Nat] /\ f[0] = delivered.pages
    /\ f[Len(out)] = counts.finished - PageDue
    /\ \A i \in DOMAIN out : f[i] = f[i - 1] + PagesOf(out[i])
Counted == \E f : Counting(f, Outstanding)

(* The notice is emitted last, by a worker that then only joins its pump.    *)
LineInv ==
    /\ DeliveryOrder
    /\ dpc \in {"off", "done"} => Outstanding = <<>>
    /\ Noticed => wpc \in Ending
    /\ wpc \in {"stopDelivery", "joinDelivery"} /\ control.deliveryError = None => Noticed
    /\ OnTime => Numbered /\ Counted

(* An outcome is given out with nothing left running or charged.             *)
FinalInv == wpc = "finished" => Quiescent /\ ("Cancelled" \notin SourceCodes => OutcomeHonest)

-----------------------------------------------------------------------------
(* What a worker's step changes, field by field.                             *)

SamePumps == /\ results'.deliveryDone = results.deliveryDone
             /\ results'.processingDone = results.processingDone
             /\ spc' = spc /\ dpc' = dpc /\ inflight' = inflight
             /\ phase' = phase /\ outcome' = outcome

OneFailed == /\ counts'.failed = counts.failed + 1 /\ counts'.finished = counts.finished
             /\ counts'.pending = counts.pending /\ counts'.badFormulas = counts.badFormulas

FailsWith(code) ==
    /\ work'.failure = IF work.failure = None /\ work.emit # "document" THEN code
                       ELSE work.failure
    /\ control'.deliveryError = IF work.emit = "document" THEN code ELSE control.deliveryError
    /\ wpc' = IF work.emit = "document" THEN "stopDelivery" ELSE "stop"

LEMMA SeenStartJob ==
  ASSUME TypeOK, StartJob
  PROVE  /\ wpc = "queued"
         /\ work'.emit = work.emit /\ work'.page = work.page /\ work'.left = work.left
         /\ work'.all = work.all /\ work'.summary = work.summary
         /\ work'.sequence = work.sequence
         /\ counts' = counts
         /\ render'.request = render.request
         /\ work'.failure \in {None, "Delivery", "WorkerFailed", "Backend"}
         /\ work'.broken => work'.failure # None
         /\ wpc' = IF work'.failure = None THEN "pages" ELSE "stop"
         /\ dpc' \in {"off", "head"} /\ spc' \in {"off", "idle"}
         /\ dpc' = "off" => control'.deliveryError = "Delivery"
         /\ control'.deliveryError \in {control.deliveryError, "Delivery"}
         /\ control'.cancelled = control.cancelled /\ control'.abort = control.abort
         /\ results' = results /\ phase' = "Running" /\ outcome' = outcome
  BY DEF StartJob, TypeOK, Works, shared, updates, ending, worker, others, sourcePump,
         deliveryPump, Controls, None

LEMMA SeenNextPage ==
  ASSUME TypeOK, NextPage
  PROVE  /\ wpc = "pages"
         /\ work'.broken = work.broken /\ work'.emit = work.emit /\ work'.left = work.left
         /\ work'.all = work.all /\ work'.summary = work.summary
         /\ work'.sequence = work.sequence
         /\ control' = control
         /\ counts' = counts
         /\ SamePumps
         /\ render'.request = render.request
         /\ \/ /\ wpc' = "stop" /\ work.page = NumPages /\ work'.page = work.page
               /\ work'.failure = None
            \/ /\ wpc' = "stop" /\ work'.page = work.page /\ work'.failure = StopReason
               /\ StopReason # None
            \/ /\ wpc' = "load" /\ work'.page = work.page + 1 /\ work'.failure = work.failure
               /\ StopReason = None
  BY DEF NextPage, TypeOK, Works, shared, updates, ending, worker, others, sourcePump,
         deliveryPump, StopWith, SamePumps, None

LEMMA SeenStopSource ==
  ASSUME TypeOK, StopSource
  PROVE  /\ wpc = "stop" /\ wpc' = "joinSource"
         /\ work'.failure = work.failure /\ work'.broken = work.broken
         /\ work'.emit = work.emit /\ work'.page = work.page /\ work'.left = work.left
         /\ work'.all = work.all /\ work'.summary = work.summary
         /\ work'.sequence = work.sequence
         /\ control'.cancelled = control.cancelled
         /\ control'.deliveryError = control.deliveryError
         /\ control.abort => control'.abort
         /\ counts' = counts
         /\ SamePumps
         /\ render'.request = 0
  BY DEF StopSource, TypeOK, Works, shared, updates, ending, worker, others, sourcePump,
         deliveryPump, Controls, Mailboxes, SamePumps

LEMMA SeenReserve ==
  ASSUME TypeOK, Reserve
  PROVE  /\ wpc = "reserve" /\ wpc' = "encode"
         /\ work' = work
         /\ control' = control
         /\ counts' = counts
         /\ SamePumps
         /\ render'.request = render.request
  BY DEF Reserve, TypeOK, Works, shared, updates, ending, worker, others, sourcePump,
         deliveryPump, ResultQueues, SamePumps

LEMMA SeenReserveStopped ==
  ASSUME TypeOK, ReserveStopped
  PROVE  /\ wpc = "reserve"
         /\ work'.broken = work.broken /\ work'.emit = work.emit /\ work'.page = work.page
         /\ work'.left = work.left /\ work'.all = work.all /\ work'.summary = work.summary
         /\ work'.sequence = work.sequence
         /\ control'.cancelled = control.cancelled /\ control'.abort = control.abort
         /\ counts' = counts
         /\ SamePumps
         /\ render'.request = render.request
         /\ EmitStop # None
         /\ FailsWith(EmitStop)
  BY DEF ReserveStopped, TypeOK, Works, shared, updates, ending, worker, others, sourcePump,
         deliveryPump, EmitFails, FailsWith, Controls, SamePumps

LEMMA SeenReserveWaits ==
  ASSUME TypeOK, ReserveWaits
  PROVE  /\ wpc = "reserve" /\ wpc' = "reserve"
         /\ work' = work
         /\ control' = control
         /\ counts' = counts
         /\ SamePumps
         /\ render'.request = render.request
  BY DEF ReserveWaits, TypeOK, Works, shared, updates, ending, worker, others, sourcePump,
         deliveryPump, SamePumps

LEMMA SeenPublish ==
  ASSUME TypeOK, Publish
  PROVE  /\ wpc = "encode"
         /\ work'.failure = work.failure /\ work'.broken = work.broken
         /\ work'.page = work.page /\ work'.left = work.left /\ work'.all = work.all
         /\ work'.summary = work.summary
         /\ control' = control
         /\ counts' = counts
         /\ SamePumps
         /\ render'.request = render.request
         /\ \/ /\ wpc' = "formulas" /\ work.emit \in {"layout", "formula"}
               /\ (work.emit = "layout" => work.all)
               /\ work'.emit = work.emit /\ work'.sequence = work.sequence
            \/ /\ wpc' = "reserve" /\ work.emit = "layout" /\ ~work.all
               /\ work'.emit = "page" /\ work'.sequence = work.sequence + 1
            \/ /\ wpc' = "pages" /\ work.emit \in {"page", "pageFailed"}
               /\ (work.emit = "pageFailed" => work.failure = None)
               /\ work'.emit = work.emit /\ work'.sequence = work.sequence
            \/ /\ wpc' = "stop" /\ work.emit = "pageFailed" /\ work.failure # None
               /\ work'.emit = work.emit /\ work'.sequence = work.sequence
            \/ /\ wpc' = "stopDelivery" /\ work.emit = "document"
               /\ work'.emit = work.emit /\ work'.sequence = work.sequence
  BY ZenonT(40) DEF Publish, TypeOK, Works, shared, updates, ending, worker, others, sourcePump,
         deliveryPump, Continue, Emitting, Kinds, ResultQueues, SamePumps

LEMMA SeenPublishRejected ==
  ASSUME TypeOK, PublishRejected
  PROVE  /\ wpc = "encode"
         /\ work'.broken = work.broken /\ work'.emit = work.emit /\ work'.page = work.page
         /\ work'.left = work.left /\ work'.all = work.all /\ work'.summary = work.summary
         /\ work'.sequence = work.sequence
         /\ control'.cancelled = control.cancelled /\ control'.abort = control.abort
         /\ counts' = counts
         /\ SamePumps
         /\ render'.request = render.request
         /\ \E code \in {"LimitExceeded", EmitStop} \ {None} : FailsWith(code)
<1> USE DEF PublishRejected, TypeOK, Works, shared, updates, ending, worker, others, sourcePump,
            deliveryPump, EmitFails, Controls, ResultQueues
<1>1. /\ wpc = "encode"
      /\ work'.broken = work.broken /\ work'.emit = work.emit /\ work'.page = work.page
      /\ work'.left = work.left /\ work'.all = work.all /\ work'.summary = work.summary
      /\ work'.sequence = work.sequence
      /\ control'.cancelled = control.cancelled /\ control'.abort = control.abort
      /\ counts' = counts /\ render'.request = render.request
  OBVIOUS
<1>2. SamePumps
  BY DEF SamePumps
<1>3. \E code \in {"LimitExceeded", EmitStop} \ {None} : FailsWith(code)
  BY DEF FailsWith, None
<1> QED BY <1>1, <1>2, <1>3

LEMMA SeenRequestPage ==
  ASSUME TypeOK, RequestPage
  PROVE  /\ wpc = "load"
         /\ work'.broken = work.broken /\ work'.emit = work.emit /\ work'.page = work.page
         /\ work'.left = work.left /\ work'.all = work.all /\ work'.summary = work.summary
         /\ work'.sequence = work.sequence
         /\ control' = control
         /\ counts' = counts
         /\ SamePumps
         /\ \/ /\ wpc' = "stop" /\ work'.failure = LoadStop /\ Stopped /\ render' = render
            \/ /\ wpc' = "await" /\ work'.failure = work.failure
  BY DEF RequestPage, TypeOK, Works, shared, updates, ending, worker, others, sourcePump,
         deliveryPump, StopWith, SamePumps

LEMMA SeenAwaitSleeps ==
  ASSUME TypeOK, AwaitSleeps
  PROVE  /\ wpc = "await" /\ wpc' = "await"
         /\ work' = work
         /\ control' = control
         /\ counts' = counts
         /\ SamePumps
         /\ render'.request = render.request
  BY DEF AwaitSleeps, TypeOK, Works, shared, updates, ending, worker, others, sourcePump,
         deliveryPump, SamePumps

LEMMA SeenAwaitEnded ==
  ASSUME TypeOK, AwaitEnded
  PROVE  /\ wpc = "await" /\ wpc' = "stop"
         /\ work'.broken = work.broken /\ work'.emit = work.emit /\ work'.page = work.page
         /\ work'.left = work.left /\ work'.all = work.all /\ work'.summary = work.summary
         /\ work'.sequence = work.sequence
         /\ control' = control
         /\ counts' = counts
         /\ SamePumps
         /\ render'.request = render.request
         /\ work'.failure = IF Stopped THEN LoadStop ELSE "WorkerFailed"
  BY DEF AwaitEnded, TypeOK, Works, shared, updates, ending, worker, others, sourcePump,
         deliveryPump, StopWith, SamePumps

LEMMA SeenTakeReply ==
  ASSUME TypeOK, TakeReply
  PROVE  /\ wpc = "await"
         /\ work'.broken = work.broken /\ work'.page = work.page /\ work'.left = work.left
         /\ work'.all = work.all /\ work'.summary = work.summary
         /\ control' = control
         /\ SamePumps
         /\ render'.request = render.request
         /\ \/ /\ wpc' = "loaded" /\ work'.failure = work.failure /\ work'.emit = work.emit
               /\ work'.sequence = work.sequence /\ counts' = counts
            \/ /\ wpc' = "stop"
               /\ work'.failure \in {"SourceChanged", "WorkerFailed", "Delivery", "Cancelled"}
               /\ (work'.failure = "Cancelled" => "Cancelled" \in SourceCodes)
               /\ work'.emit = work.emit /\ work'.sequence = work.sequence /\ counts' = counts
            \/ /\ wpc' = "reserve" /\ work'.failure = work.failure /\ work'.emit = "pageFailed"
               /\ work'.sequence = work.sequence + 1 /\ OneFailed
<1> DEFINE reply == Head(render.reply)
           verdict == LoadVerdict(reply)
<1>1. /\ reply \in Replies /\ work \in Works /\ render \in Mailboxes /\ counts \in Counts
      /\ wpc = "await" /\ render' = [render EXCEPT !.reply = <<>>]
  BY DEF TypeOK, Mailboxes, TakeReply
<1>2. /\ control' = control /\ SamePumps /\ render'.request = render.request
  BY <1>1 DEF TakeReply, TypeOK, updates, ending, others, sourcePump, deliveryPump, Mailboxes,
              SamePumps
<1>3. verdict = "Cancelled" => "Cancelled" \in SourceCodes
  BY <1>1 DEF LoadVerdict, Replies, None
<1>4. CASE verdict = None
  BY <1>1, <1>2, <1>4 DEF TakeReply, Works, None, FatalLoad
<1>5. CASE verdict # None /\ verdict \in FatalLoad
  BY <1>1, <1>2, <1>3, <1>5 DEF TakeReply, Works, StopWith, FatalLoad
<1>6. CASE verdict # None /\ verdict \notin FatalLoad
  BY <1>1, <1>2, <1>6 DEF TakeReply, Works, Counts, Emitting, OneFailed
<1> QED BY <1>4, <1>5, <1>6

LEMMA SeenCheckBeforeLayout ==
  ASSUME TypeOK, CheckBeforeLayout
  PROVE  /\ wpc = "loaded"
         /\ work'.broken = work.broken /\ work'.emit = work.emit /\ work'.page = work.page
         /\ work'.left = work.left /\ work'.all = work.all /\ work'.summary = work.summary
         /\ work'.sequence = work.sequence
         /\ control' = control
         /\ counts' = counts
         /\ SamePumps
         /\ render'.request = render.request
         /\ \/ wpc' = "stop" /\ work'.failure = StopReason /\ StopReason # None
            \/ wpc' = "layout" /\ work'.failure = work.failure
  BY DEF CheckBeforeLayout, TypeOK, Works, shared, updates, ending, worker, others,
         sourcePump, deliveryPump, StopWith, SamePumps

LEMMA SeenLayoutSucceeds ==
  ASSUME TypeOK, LayoutSucceeds
  PROVE  /\ wpc = "layout"
         /\ work'.failure = work.failure /\ work'.broken = work.broken
         /\ work'.page = work.page /\ work'.all = work.all /\ work'.summary = work.summary
         /\ control' = control
         /\ SamePumps
         /\ render'.request = render.request
         /\ \/ /\ wpc' = "reserve" /\ work.all /\ work'.emit = "layout"
               /\ work'.sequence = work.sequence + 1
               /\ work'.left \in Nat /\ counts'.pending = counts.pending + work'.left
               /\ counts'.finished = counts.finished
               /\ counts'.failed = counts.failed /\ counts'.badFormulas = counts.badFormulas
            \/ /\ wpc' = "finishPage" /\ ~work.all /\ work' = work /\ counts' = counts
<1>1. work \in Works /\ counts \in Counts /\ wpc = "layout"
  BY DEF TypeOK, LayoutSucceeds
<1>2. /\ control' = control /\ SamePumps /\ render'.request = render.request
  BY DEF LayoutSucceeds, TypeOK, updates, ending, others, sourcePump, deliveryPump, SamePumps
<1>3. CASE ~work.all
  BY <1>1, <1>2, <1>3 DEF LayoutSucceeds, Works
<1>4. CASE work.all
  <2>1. PICK n \in 0 .. MaxFormulas :
           /\ counts' = [counts EXCEPT !.pending = @ + n] /\ wpc' = "reserve"
           /\ work' = Emitting([work EXCEPT !.left = n], "layout")
    BY <1>4 DEF LayoutSucceeds
  <2>2. work'.left = n /\ work'.emit = "layout" /\ work'.sequence = work.sequence + 1
    BY <1>1, <2>1 DEF Works, Emitting
  <2>3. /\ work'.failure = work.failure /\ work'.broken = work.broken
        /\ work'.page = work.page /\ work'.all = work.all /\ work'.summary = work.summary
    BY <1>1, <2>1 DEF Works, Emitting
  <2>4. /\ counts'.pending = counts.pending + n /\ counts'.finished = counts.finished
        /\ counts'.failed = counts.failed /\ counts'.badFormulas = counts.badFormulas
    BY <1>1, <2>1 DEF Counts
  <2>5. n \in Nat
    OBVIOUS
  <2> QED BY <1>1, <1>2, <1>4, <2>1, <2>2, <2>3, <2>4, <2>5
<1> QED BY <1>3, <1>4

LEMMA SeenLayoutFails ==
  ASSUME TypeOK, LayoutFails
  PROVE  /\ wpc = "layout" /\ wpc' = "reserve"
         /\ work'.emit = "pageFailed" /\ work'.page = work.page /\ work'.left = work.left
         /\ work'.all = work.all /\ work'.summary = work.summary
         /\ work'.sequence = work.sequence + 1
         /\ control' = control
         /\ OneFailed
         /\ SamePumps
         /\ render'.request = render.request
         /\ work'.failure \in {None, "Backend"}
         /\ (work'.broken => work.broken \/ work'.failure = "Backend")
  BY DEF LayoutFails, TypeOK, Works, shared, updates, ending, worker, others, sourcePump,
         deliveryPump, Emitting, Counts, OneFailed, SamePumps

LEMMA SeenPipelineBreaks ==
  ASSUME TypeOK, PipelineBreaks
  PROVE  /\ wpc' = "stop"
         /\ work'.emit = work.emit /\ work'.page = work.page /\ work'.left = work.left
         /\ work'.all = work.all /\ work'.summary = work.summary
         /\ work'.sequence = work.sequence
         /\ control' = control
         /\ counts' = counts
         /\ SamePumps
         /\ render'.request = render.request
         /\ wpc \in {"layout", "recognize"}
         /\ work'.failure \in {"WorkerFailed", "InvalidResult"}
  BY DEF PipelineBreaks, TypeOK, Works, shared, updates, ending, worker, others, sourcePump,
         deliveryPump, SamePumps

LEMMA SeenNextFormula ==
  ASSUME TypeOK, NextFormula
  PROVE  /\ wpc = "formulas"
         /\ work'.broken = work.broken /\ work'.emit = work.emit /\ work'.page = work.page
         /\ work'.left = work.left /\ work'.all = work.all /\ work'.summary = work.summary
         /\ work'.sequence = work.sequence
         /\ control' = control
         /\ counts' = counts
         /\ SamePumps
         /\ render'.request = render.request
         /\ \/ wpc' = "finishPage" /\ work.left = 0 /\ work'.failure = work.failure
            \/ wpc' = "stop" /\ work'.failure = StopReason /\ StopReason # None
            \/ wpc' = "recognize" /\ work'.failure = work.failure
  BY DEF NextFormula, TypeOK, Works, shared, updates, ending, worker, others, sourcePump,
         deliveryPump, StopWith, SamePumps

LEMMA SeenFormulaFinishes ==
  ASSUME TypeOK, FormulaFinishes
  PROVE  /\ wpc = "recognize" /\ wpc' = "reserve"
         /\ work'.failure = work.failure /\ work'.broken = work.broken
         /\ work'.emit = "formula" /\ work'.page = work.page /\ work'.left = work.left - 1
         /\ work'.all = work.all /\ work'.summary = work.summary
         /\ work'.sequence = work.sequence + 1
         /\ control' = control
         /\ SamePumps
         /\ render'.request = render.request
         /\ counts'.pending = counts.pending - 1 /\ counts'.finished = counts.finished
         /\ counts'.failed = counts.failed
  BY DEF FormulaFinishes, TypeOK, Works, shared, updates, ending, worker, others, sourcePump,
         deliveryPump, Emitting, Counts, SamePumps

LEMMA SeenFormulaAborts ==
  ASSUME TypeOK, FormulaAborts
  PROVE  /\ wpc = "recognize" /\ wpc' = "stop"
         /\ work'.emit = work.emit /\ work'.page = work.page /\ work'.left = work.left
         /\ work'.all = work.all /\ work'.summary = work.summary
         /\ work'.sequence = work.sequence
         /\ control' = control
         /\ counts' = counts
         /\ SamePumps
         /\ render'.request = render.request
         /\ \/ /\ work'.failure = "Cancelled" /\ work'.broken = work.broken
               /\ (control.cancelled \/ control.abort)
            \/ work'.failure = "Backend" /\ work'.broken
  BY DEF FormulaAborts, TypeOK, Works, shared, updates, ending, worker, others, sourcePump,
         deliveryPump, StopWith, SamePumps

LEMMA SeenFinishPage ==
  ASSUME TypeOK, FinishPage
  PROVE  /\ wpc = "finishPage" /\ wpc' = "reserve"
         /\ work'.failure = work.failure /\ work'.broken = work.broken
         /\ work'.emit = (IF work.all THEN "page" ELSE "layout") /\ work'.page = work.page
         /\ work'.left = work.left /\ work'.all = work.all /\ work'.summary = work.summary
         /\ work'.sequence = work.sequence + 1
         /\ control' = control
         /\ SamePumps
         /\ render'.request = render.request
         /\ counts'.finished = counts.finished + 1 /\ counts'.failed = counts.failed
         /\ counts'.pending = counts.pending /\ counts'.badFormulas = counts.badFormulas
  BY DEF FinishPage, TypeOK, Works, shared, updates, ending, worker, others, sourcePump,
         deliveryPump, Emitting, Counts, SamePumps

LEMMA SeenSummarize ==
  ASSUME TypeOK, Summarize
  PROVE  /\ wpc = "joinSource"
         /\ work'.failure = work.failure /\ work'.broken = work.broken
         /\ work'.page = work.page /\ work'.left = work.left /\ work'.all = work.all
         /\ work'.summary = Summary
         /\ control' = control
         /\ counts' = counts
         /\ render'.request = render.request
         /\ spc \in {"off", "done"} /\ spc' = spc /\ dpc' = dpc /\ results' = results
         /\ outcome' = outcome /\ phase' = "Finishing" /\ inflight' = inflight
         /\ \/ /\ wpc' = "reserve" /\ work'.emit = "document"
               /\ work'.sequence = work.sequence + 1 /\ control.deliveryError = None
            \/ /\ wpc' = "stopDelivery" /\ work'.emit = work.emit
               /\ work'.sequence = work.sequence /\ control.deliveryError # None
  BY DEF Summarize, TypeOK, Works, shared, updates, ending, worker, others, sourcePump,
         deliveryPump, Emitting, SourceJoined, Mailboxes

LEMMA SeenStopDelivery ==
  ASSUME TypeOK, StopDelivery
  PROVE  /\ wpc = "stopDelivery" /\ wpc' = "joinDelivery"
         /\ work' = work
         /\ control' = control
         /\ counts' = counts
         /\ render'.request = render.request
         /\ results'.processingDone /\ results'.deliveryDone = results.deliveryDone
         /\ results'.queue = results.queue
         /\ spc' = spc /\ dpc' = dpc /\ inflight' = inflight
         /\ outcome' = outcome /\ phase' = phase
  BY DEF StopDelivery, TypeOK, Works, shared, updates, ending, worker, others, sourcePump,
         deliveryPump, ResultQueues

LEMMA SeenFinish ==
  ASSUME TypeOK, Finish
  PROVE  /\ wpc = "joinDelivery" /\ wpc' = "finished"
         /\ work' = work
         /\ control' = control
         /\ counts' = counts
         /\ render'.request = render.request
         /\ results'.processingDone = results.processingDone
         /\ results'.deliveryDone = results.deliveryDone
         /\ dpc \in {"off", "done"}
         /\ spc' = spc /\ dpc' = dpc /\ phase' = "Finished"
         /\ outcome' = IF OutcomeError # None THEN "Failed"
                       ELSE IF control.cancelled THEN "Cancelled" ELSE work.summary
  BY DEF Finish, TypeOK, Works, shared, updates, ending, worker, others, sourcePump,
         deliveryPump, ResultQueues

-----------------------------------------------------------------------------
(* The worker's course is kept.                                              *)

(* The values the course depends on.                                         *)
LEMMA CourseTypes ==
  ASSUME TypeOK
  PROVE  /\ counts.finished \in Nat /\ counts.failed \in Nat /\ counts.pending \in Int
         /\ counts.badFormulas \in Nat
         /\ work.page \in 0 .. NumPages /\ work.left \in 0 .. MaxFormulas
         /\ work.all \in BOOLEAN
         /\ work.emit \in Kinds /\ work.failure \in Codes \cup {None}
         /\ work.broken \in BOOLEAN
         /\ work.summary \in Statuses \cup {None} /\ wpc \in WorkerPositions
         /\ control.cancelled \in BOOLEAN /\ control.abort \in BOOLEAN
         /\ control.deliveryError \in Codes \cup {None}
         /\ results.processingDone \in BOOLEAN /\ results.deliveryDone \in BOOLEAN
         /\ NumPages \in Nat /\ MaxFormulas \in Nat
  BY LimitsAssumption DEF TypeOK, Counts, Works, Controls, ResultQueues

(* Whatever the worker does next.                                            *)
LEMMA CourseWorker == ChargeInv /\ CourseInv /\ Worker => CourseInv'
<1> SUFFICES ASSUME ChargeInv, CourseInv, Worker PROVE CourseInv'
  OBVIOUS
<1>t. /\ TypeOK /\ (wpc = "queued" => spc = "off" /\ dpc = "off")
      /\ (wpc = "recognize" => work.left > 0)
  BY DEF ChargeInv
<1>h. Failures /\ Progress /\ Summed /\ Pumps
  BY DEF CourseInv
<1>c. /\ counts.finished \in Nat /\ counts.failed \in Nat /\ counts.pending \in Int
      /\ counts.badFormulas \in Nat
      /\ work.page \in 0 .. NumPages /\ work.left \in 0 .. MaxFormulas /\ work.all \in BOOLEAN
      /\ work.emit \in Kinds /\ work.failure \in Codes \cup {None} /\ work.broken \in BOOLEAN
      /\ wpc \in WorkerPositions /\ NumPages \in Nat /\ MaxFormulas \in Nat
  BY <1>t, CourseTypes
<1> USE <1>t, <1>h, <1>c
    DEF None, Paging, Sending, Closing, Ending, Leaving, CourseInv, Failures,
      Progress, Summed, Pumps, PageEnds, OnPage, InFormulas, SamePumps, FailsWith, OneFailed,
      StopReason, EmitStop, LoadStop, Stopped, Kinds, WorkerPositions, Statuses, Summary,
         OutcomeError
<1>1. CASE StartJob
  BY <1>1, SeenStartJob
<1>2. CASE NextPage
  BY <1>2, SeenNextPage
<1>3. CASE StopSource
  BY <1>3, SeenStopSource
<1>4. CASE Reserve
  BY <1>4, SeenReserve
<1>5. CASE ReserveStopped
  BY <1>5, SeenReserveStopped
<1>6. CASE ReserveWaits
  BY <1>6, SeenReserveWaits
<1>7. CASE Publish
  BY <1>7, SeenPublish
<1>8. CASE PublishRejected
  BY <1>8, SeenPublishRejected
<1>9. CASE RequestPage
  BY <1>9, SeenRequestPage
<1>10. CASE AwaitSleeps
  BY <1>10, SeenAwaitSleeps
<1>11. CASE AwaitEnded
  BY <1>11, SeenAwaitEnded
<1>12. CASE TakeReply
  BY <1>12, SeenTakeReply
<1>13. CASE CheckBeforeLayout
  BY <1>13, SeenCheckBeforeLayout
<1>14. CASE LayoutSucceeds
  BY <1>14, SeenLayoutSucceeds
<1>15. CASE LayoutFails
  BY <1>15, SeenLayoutFails
<1>16. CASE PipelineBreaks
  BY <1>16, SeenPipelineBreaks
<1>17. CASE NextFormula
  BY <1>17, SeenNextFormula
<1>18. CASE FormulaFinishes
  BY <1>18, SeenFormulaFinishes
<1>19. CASE FormulaAborts
  BY <1>19, SeenFormulaAborts
<1>20. CASE FinishPage
  BY <1>20, SeenFinishPage
<1>21. CASE Summarize
  BY <1>21, SeenSummarize
<1>22. CASE StopDelivery
  BY <1>22, SeenStopDelivery
<1>23. CASE Finish
  BY <1>23, SeenFinish
<1> QED BY <1>1, <1>2, <1>3, <1>4, <1>5, <1>6, <1>7, <1>8, <1>9, <1>10, <1>11, <1>12, <1>13,
      <1>14, <1>15, <1>16, <1>17, <1>18, <1>19, <1>20, <1>21, <1>22, <1>23 DEF Worker

(* Whatever the pumps and the client do meanwhile.                           *)
LEMMA CourseOthers ==
  ChargeInv /\ CourseInv /\ (Source \/ Delivery \/ Client \/ Cancel \/ UNCHANGED vars)
    => CourseInv'
<1> SUFFICES ASSUME ChargeInv, CourseInv,
                    Source \/ Delivery \/ Client \/ Cancel \/ UNCHANGED vars
             PROVE  CourseInv'
  OBVIOUS
<1>t. TypeOK
  BY DEF ChargeInv
<1>h. Failures /\ Progress /\ Summed /\ Pumps
  BY DEF CourseInv
<1>w. /\ wpc' = wpc /\ work' = work /\ counts' = counts /\ outcome' = outcome /\ phase' = phase
      /\ render' = render \/ render'.request = render.request \/ render'.request = 0
  BY <1>t DEF Source, SourceSleeps, SourceTakes, SourceHalts, SourceReplies,
     Delivery, DeliveryWaits, DeliveryEnds, DeliveryCalls, DeliveryDrops, SinkAcknowledges,
     SinkFails, Client, ClientWaits, ClientReturns, Cancel, vars, shared, worker, ending,
     TypeOK, Mailboxes
<1>f. /\ control'.cancelled = control.cancelled \/ control'.cancelled
      /\ control'.deliveryError = control.deliveryError
         \/ control'.deliveryError = "Delivery"
      /\ (control'.abort /\ control'.deliveryError = "Delivery") \/ control'.abort = control.abort
  <2>1. CASE Source \/ Client \/ UNCHANGED vars
    BY <2>1 DEF Source, SourceSleeps, SourceTakes, SourceHalts, SourceReplies, Client,
       ClientWaits, ClientReturns, vars, shared
  <2>2. CASE Delivery
    BY <1>t, <2>2 DEF Delivery, DeliveryWaits, DeliveryEnds, DeliveryCalls, DeliveryDrops,
       SinkAcknowledges, SinkFails, TypeOK, Controls
  <2>3. CASE Cancel
    BY <1>t, <2>3 DEF Cancel, TypeOK, Controls
  <2> QED BY <2>1, <2>2, <2>3
<1>p. /\ spc' = spc \/ (spc \in {"idle", "rendering"} /\ spc' \in {"idle", "rendering", "done"})
      /\ results'.processingDone = results.processingDone
      /\ \/ dpc' = dpc /\ dpc \notin {"head", "wait", "sink"}
            /\ results'.deliveryDone = results.deliveryDone
         \/ dpc' = dpc /\ results' = results
         \/ dpc \notin {"off", "done"} /\ dpc' \notin {"off", "done"}
            /\ results'.deliveryDone = results.deliveryDone
         \/ /\ dpc' = "done" /\ results'.deliveryDone
            /\ (control'.deliveryError # None /\ control'.abort) \/ results.processingDone
  <2>1. CASE Source
    BY <2>1 DEF Source, SourceSleeps, SourceTakes, SourceHalts, SourceReplies, shared, updates,
       others, sourcePump, deliveryPump
  <2>2. CASE Delivery
    BY <1>t, <2>2 DEF Delivery, DeliveryWaits, DeliveryEnds, DeliveryCalls, DeliveryDrops,
       SinkAcknowledges, SinkFails, Discard, TypeOK, ResultQueues, Controls, None, others,
          sourcePump
  <2>3. CASE Client \/ Cancel \/ UNCHANGED vars
    BY <2>3 DEF Client, ClientWaits, ClientReturns, Cancel, vars, shared, updates,
       others, sourcePump, deliveryPump
  <2> QED BY <2>1, <2>2, <2>3
<1> USE DEF None, Paging, Sending, Closing, Ending, Leaving
<1>1. Failures'
  BY <1>h, <1>w, <1>f DEF Failures
<1>2. Progress'
  BY <1>h, <1>w DEF Progress, PageEnds, OnPage, InFormulas
<1>3. Summed'
  BY <1>h, <1>w, <1>f DEF Summed
<1>4. Pumps'
  BY <1>h, <1>w, <1>f, <1>p DEF Pumps
<1> QED BY <1>1, <1>2, <1>3, <1>4 DEF CourseInv

LEMMA CourseInit == Init => CourseInv
<1> SUFFICES ASSUME Init PROVE CourseInv
  OBVIOUS
<1>1. PICK all \in Scopes :
         work = [all |-> all, page |-> 0, left |-> 0, held |-> 0, sequence |-> 0,
                 emit |-> "document", failure |-> None, broken |-> FALSE, summary |-> None]
  BY DEF Init
<1> QED BY <1>1 DEF Init, CourseInv, Failures, Progress, Summed, Pumps, None, Paging, Sending,
           Closing, Ending, Leaving, OnPage, PageEnds, InFormulas, Statuses

(* A cancelled backlog is no longer than it was.                             *)
LEMMA BytesRetained ==
  ASSUME NEW queue \in Seq(Updates)
  PROVE  Bytes(Retained(queue)) \in Nat /\ Bytes(Retained(queue)) <= Bytes(queue)
<1>1. CASE Retained(queue) = <<>>
  BY <1>1, BytesEmpty, BytesNat
<1>2. CASE Retained(queue) # <<>>
  <2>1. queue # <<>> /\ Retained(queue) = <<queue[Len(queue)]>>
    BY <1>2 DEF Retained
  <2>2. Len(queue) \in Nat \ {0} /\ queue[Len(queue)] \in Updates
    <3>1. Len(queue) \in Nat \ {0}
      BY <2>1, EmptySeq
    <3> QED BY <3>1, ElementOfSeq
  <2>3. PICK f \in [0 .. Len(queue) -> Nat] : Totals(f, queue)
    BY TotalsExist
  <2>4. /\ f[Len(queue)] = f[Len(queue) - 1] + queue[Len(queue)].size
        /\ f[Len(queue) - 1] \in Nat /\ f[Len(queue)] \in Nat /\ queue[Len(queue)].size \in Nat
    <3> DEFINE L == Len(queue)
    <3>1. L \in 1 .. L /\ L \in 0 .. L /\ L - 1 \in 0 .. L /\ L # 0
      BY <2>2
    <3>2. queue[L].size \in Nat
      BY <3>1, SizesNat
    <3> QED BY <2>3, <3>1, <3>2 DEF Totals
  <2>5. Bytes(queue) = f[Len(queue)]
    BY <2>3, BytesTotal
  <2>6. Bytes(Append(<<>>, queue[Len(queue)])) = 0 + queue[Len(queue)].size
    <3>1. PICK e \in Seq(Updates) : e = <<>>
      <4>1. <<>> \in Seq(Updates)
        OBVIOUS
      <4> QED BY <4>1
    <3> QED BY <2>2, <3>1, BytesAppend, BytesEmpty
  <2>7. Append(<<>>, queue[Len(queue)]) = <<queue[Len(queue)]>>
    OBVIOUS
  <2> QED BY <2>1, <2>4, <2>5, <2>6, <2>7
<1> QED BY <1>1, <1>2

Encoded == IF wpc = "encode" THEN UpdateLimit ELSE 0

LEMMA ByteTypes ==
  ASSUME TypeOK
  PROVE  /\ results.queue \in Seq(Updates) /\ Bytes(results.queue) \in Nat
         /\ inflight.size \in Nat /\ (inflight.size = 0 <=> inflight = NoUpdate)
         /\ UpdateLimit \in Nat /\ ResultLimit \in Nat
<1>1. results.queue \in Seq(Updates) /\ inflight \in Updates \cup {NoUpdate}
  BY DEF TypeOK, ResultQueues
<1>2. Bytes(results.queue) \in Nat
  BY <1>1, BytesNat
<1>3. UpdateLimit \in Nat /\ ResultLimit \in Nat
  BY LimitsAssumption
<1>4. \A u \in Updates : u.size \in Nat /\ u.size # 0
  BY <1>3 DEF Updates
<1>5. NoUpdate.size = 0
  BY DEF NoUpdate
<1> QED BY <1>1, <1>2, <1>3, <1>4, <1>5

LEMMA UpdateReal ==
  ASSUME NEW u \in Updates
  PROVE  u.size \in Nat /\ u.size # 0 /\ u # NoUpdate
  BY LimitsAssumption DEF Updates, NoUpdate

LEMMA ByteQuiet ==
  ASSUME ByteInv, results'.queue = results.queue, pendingBytes' = pendingBytes,
         inflight' = inflight, dpc' = dpc \/ (dpc # "sink" /\ dpc' # "sink"),
         wpc' = "encode" <=> wpc = "encode"
  PROVE  ByteInv'
  BY DEF ByteInv, BytesCharged, NoUpdate

LEMMA ByteWorker == ChargeInv /\ ByteInv /\ Worker => ByteInv'
<1> SUFFICES ASSUME ChargeInv, ByteInv, Worker PROVE ByteInv'
  OBVIOUS
<1> USE DEF shared, updates, ending, worker, others, sourcePump, deliveryPump
<1>t. TypeOK /\ (wpc = "queued" => dpc = "off")
  BY DEF ChargeInv
<1>b. /\ results.queue \in Seq(Updates) /\ Bytes(results.queue) \in Nat
      /\ inflight.size \in Nat /\ (inflight.size = 0 <=> inflight = NoUpdate)
      /\ UpdateLimit \in Nat /\ ResultLimit \in Nat
  BY <1>t, ByteTypes
<1>e. /\ pendingBytes = Bytes(results.queue) + inflight.size + Encoded
      /\ pendingBytes <= ResultLimit /\ (inflight # NoUpdate <=> dpc = "sink")
  BY DEF ByteInv, BytesCharged, Encoded
<1>1. CASE Reserve
  <2>1. /\ wpc = "reserve" /\ wpc' = "encode" /\ results'.queue = results.queue
        /\ pendingBytes' = pendingBytes + UpdateLimit /\ inflight' = inflight /\ dpc' = dpc
        /\ UpdateLimit <= ResultLimit - pendingBytes
    BY <1>1, <1>t DEF Reserve, TypeOK, ResultQueues, HasRoom
  <2> QED BY <1>b, <1>e, <2>1 DEF ByteInv, BytesCharged, Encoded, NoUpdate
<1>2. CASE Publish
  <2>1. PICK size \in 1 .. UpdateLimit :
          /\ results' = [results EXCEPT !.queue =
                 Append(@, [seq |-> work.sequence - 1, kind |-> work.emit,
                            page |-> work.page, size |-> size])]
          /\ pendingBytes' = pendingBytes - UpdateLimit + size
    BY <1>2 DEF Publish
  <2> DEFINE u == [seq |-> work.sequence - 1, kind |-> work.emit, page |-> work.page,
                  size |-> size]
  <2>2. u \in Updates /\ u.size = size /\ size \in Nat
    BY <1>t, <1>b, <2>1 DEF TypeOK, Works, Updates
  <2>3. results'.queue = Append(results.queue, u)
    BY <1>t, <2>1 DEF TypeOK, ResultQueues
  <2>4. Bytes(results'.queue) = Bytes(results.queue) + size
    <3> HIDE DEF u
    <3> QED BY <1>b, <2>2, <2>3, BytesAppend
  <2>5. wpc = "encode" /\ wpc' # "encode" /\ inflight' = inflight /\ dpc' = dpc
    BY <1>2, <1>t DEF Publish, Continue, TypeOK, Works, Kinds
  <2>6. size <= UpdateLimit
    BY <1>b
  <2> QED BY <1>b, <1>e, <2>1, <2>2, <2>4, <2>5, <2>6
      DEF ByteInv, BytesCharged, Encoded, NoUpdate
<1>3. CASE PublishRejected
  <2>1. /\ wpc = "encode" /\ wpc' # "encode" /\ results'.queue = results.queue
        /\ pendingBytes' = pendingBytes - UpdateLimit /\ inflight' = inflight /\ dpc' = dpc
    BY <1>3, <1>t DEF PublishRejected, EmitFails, TypeOK, ResultQueues
  <2> QED BY <1>b, <1>e, <2>1 DEF ByteInv, BytesCharged, Encoded, NoUpdate
<1>4. CASE Finish
  <2>1. /\ wpc' # "encode" /\ results'.queue = <<>> /\ pendingBytes' = 0
        /\ inflight' = inflight /\ dpc' = dpc /\ dpc # "sink"
    BY <1>4, <1>t DEF Finish, TypeOK, ResultQueues
  <2> QED BY <1>b, <1>e, <2>1, BytesEmpty DEF ByteInv, BytesCharged, Encoded, NoUpdate
<1>5. CASE StartJob
  BY <1>5, <1>t, ByteQuiet DEF StartJob
<1>6. CASE StopDelivery
  <2>1. results'.queue = results.queue
    BY <1>6, <1>t DEF StopDelivery, TypeOK, ResultQueues
  <2> QED BY <1>6, <2>1, ByteQuiet DEF StopDelivery
<1>7. CASE NextPage \/ StopSource \/ ReserveStopped \/ ReserveWaits \/ RequestPage \/ AwaitSleeps
           \/ AwaitEnded \/ TakeReply \/ CheckBeforeLayout
  BY <1>7, ByteQuiet DEF NextPage, StopSource, ReserveStopped, ReserveWaits, RequestPage,
     AwaitSleeps, AwaitEnded, TakeReply, CheckBeforeLayout, EmitFails, StopWith
<1>8. CASE LayoutSucceeds \/ LayoutFails \/ PipelineBreaks \/ NextFormula \/ FormulaFinishes
           \/ FormulaAborts \/ FinishPage \/ Summarize
  BY <1>8, ByteQuiet DEF LayoutSucceeds, LayoutFails, PipelineBreaks, NextFormula,
     FormulaFinishes, FormulaAborts, FinishPage, Summarize, StopWith
<1> QED BY <1>1, <1>2, <1>3, <1>4, <1>5, <1>6, <1>7, <1>8 DEF Worker

(* Releasing what left the queue and the sink keeps the sum exact.           *)
LEMMA Released ==
  ASSUME NEW p, NEW q, NEW r \in Nat, NEW b \in Nat, NEW c \in Nat, NEW i \in Nat,
         NEW j \in Nat, NEW e \in Nat, NEW freed \in Nat,
         p = b + i + e, p <= r, q = p - freed, b + i = c + j + freed
  PROVE  q = c + j + e /\ q <= r
  OBVIOUS

(* Handing the first of the k bytes kept to the sink keeps the sum exact.     *)
LEMMA Moved ==
  ASSUME NEW p, NEW q, NEW r \in Nat, NEW b \in Nat, NEW k \in Nat, NEW t \in Nat,
         NEW h \in Nat, NEW e \in Nat, k <= b,
         p = b + 0 + e, p <= r, q = p - (b - k), k = h + t
  PROVE  q = t + h + e /\ q <= r
  OBVIOUS

LEMMA ByteDelivery == ChargeInv /\ ByteInv /\ Delivery => ByteInv'
<1> SUFFICES ASSUME ChargeInv, ByteInv, Delivery PROVE ByteInv'
  OBVIOUS
<1> USE DEF shared, updates, ending, worker, others, sourcePump, deliveryPump
<1>t. TypeOK
  BY DEF ChargeInv
<1>b. /\ results.queue \in Seq(Updates) /\ Bytes(results.queue) \in Nat
      /\ inflight.size \in Nat /\ (inflight.size = 0 <=> inflight = NoUpdate)
      /\ UpdateLimit \in Nat /\ ResultLimit \in Nat
  BY <1>t, ByteTypes
<1>e. /\ pendingBytes = Bytes(results.queue) + inflight.size + Encoded
      /\ pendingBytes <= ResultLimit /\ (inflight # NoUpdate <=> dpc = "sink")
      /\ Encoded \in Nat /\ pendingBytes \in Int
  BY <1>b DEF ByteInv, BytesCharged, Encoded
<1>l. /\ Backlog \in Seq(Updates) /\ Bytes(Backlog) \in Nat
      /\ Bytes(Backlog) <= Bytes(results.queue)
  <2>1. Backlog \in Seq(Updates)
    BY <1>t, Backlogged
  <2> QED BY <1>b, <2>1, BytesNat, BytesRetained DEF Backlog
<1>w. wpc' = wpc
  BY DEF Delivery, DeliveryWaits, DeliveryEnds, DeliveryCalls, DeliveryDrops, SinkAcknowledges,
         SinkFails
<1>1. CASE DeliveryWaits
  <2>1. /\ results'.queue = <<>> /\ Backlog = <<>> /\ inflight' = inflight
        /\ pendingBytes' = pendingBytes - (Bytes(results.queue) - Bytes(Backlog))
        /\ dpc \in {"head", "wait"} /\ dpc' = "wait"
    BY <1>1, <1>t DEF DeliveryWaits, Discard, TypeOK, ResultQueues
  <2>2. Bytes(Backlog) = 0 /\ Bytes(results'.queue) = 0
    BY <2>1, BytesEmpty
  <2>3. pendingBytes' = inflight.size + Encoded /\ pendingBytes' <= ResultLimit
    <3>1. pendingBytes' = pendingBytes - Bytes(results.queue)
      BY <1>b, <2>1, <2>2
    <3>2. Bytes(results.queue) + inflight.size = 0 + inflight.size + Bytes(results.queue)
      BY <1>b
    <3>3. pendingBytes' = 0 + inflight.size + Encoded /\ pendingBytes' <= ResultLimit
      BY <1>b, <1>e, <3>1, <3>2, Released
    <3> QED BY <1>b, <1>e, <3>3
  <2> QED BY <1>b, <1>e, <1>w, <2>1, <2>2, <2>3 DEF ByteInv, BytesCharged, Encoded
<1>2. CASE DeliveryEnds
  <2>1. /\ results'.queue = <<>> /\ inflight' = inflight
        /\ pendingBytes' = pendingBytes - Bytes(results.queue)
        /\ dpc \in {"head", "wait"} /\ dpc' = "done"
    BY <1>2, <1>t DEF DeliveryEnds, TypeOK, ResultQueues
  <2>2. Bytes(results.queue) + inflight.size = 0 + inflight.size + Bytes(results.queue)
    BY <1>b
  <2>3. pendingBytes' = 0 + inflight.size + Encoded /\ pendingBytes' <= ResultLimit
    BY <1>b, <1>e, <2>1, <2>2, Released
  <2>4. Bytes(results'.queue) = 0
    BY <2>1, BytesEmpty
  <2> QED BY <1>e, <1>w, <2>1, <2>3, <2>4 DEF ByteInv, BytesCharged, Encoded
<1>3. CASE DeliveryCalls
  <2>1. /\ results'.queue = Tail(Backlog) /\ Backlog # <<>> /\ inflight' = Head(Backlog)
        /\ pendingBytes' = pendingBytes - (Bytes(results.queue) - Bytes(Backlog))
        /\ dpc \in {"head", "wait"} /\ dpc' = "sink"
    BY <1>3, <1>t DEF DeliveryCalls, Discard, TypeOK, ResultQueues
  <2>2. /\ Bytes(Backlog) = Head(Backlog).size + Bytes(Tail(Backlog))
        /\ Head(Backlog) \in Updates /\ Tail(Backlog) \in Seq(Updates)
    <3>1. Head(Backlog) \in Updates /\ Tail(Backlog) \in Seq(Updates)
      BY <1>l, <2>1, HeadTailProperties
    <3> QED BY <1>l, <2>1, <3>1, BytesTail
  <2>3. Bytes(Tail(Backlog)) \in Nat /\ Head(Backlog).size \in Nat /\ Head(Backlog) # NoUpdate
    BY <1>b, <2>2, BytesNat, UpdateReal
  <2>4. inflight = NoUpdate /\ inflight.size = 0
    BY <1>b, <1>e, <2>1
  <2>5. /\ pendingBytes' = Bytes(Tail(Backlog)) + Head(Backlog).size + Encoded
        /\ pendingBytes' <= ResultLimit
    <3>1. pendingBytes = Bytes(results.queue) + 0 + Encoded /\ pendingBytes <= ResultLimit
      BY <1>e, <2>4
    <3>2. pendingBytes' = pendingBytes - (Bytes(results.queue) - Bytes(Backlog))
      BY <2>1
    <3>3. Bytes(Backlog) = Head(Backlog).size + Bytes(Tail(Backlog))
      BY <2>2
    <3>4. /\ Bytes(results.queue) \in Nat /\ Bytes(Backlog) \in Nat /\ Encoded \in Nat
          /\ Bytes(Backlog) <= Bytes(results.queue) /\ ResultLimit \in Nat
      BY <1>b, <1>e, <1>l
    <3> QED BY <2>3, <3>1, <3>2, <3>3, <3>4, Moved
  <2> QED BY <1>w, <2>1, <2>3, <2>5 DEF ByteInv, BytesCharged, Encoded
<1>4. CASE DeliveryDrops
  <2>1. /\ results'.queue = Tail(results.queue) /\ results.queue # <<>> /\ inflight' = inflight
        /\ pendingBytes' = pendingBytes - Head(results.queue).size
        /\ dpc = "wait" /\ dpc' = "head"
    BY <1>4, <1>t DEF DeliveryDrops, TypeOK, ResultQueues
  <2>2. Tail(results.queue) \in Seq(Updates) /\ Head(results.queue) \in Updates
    BY <1>b, <2>1, HeadTailProperties
  <2>3. Bytes(results.queue) = Head(results.queue).size + Bytes(Tail(results.queue))
    BY <1>b, <2>1, BytesTail
  <2>4. Bytes(Tail(results.queue)) \in Nat /\ Head(results.queue).size \in Nat
    BY <1>b, <2>2, BytesNat, UpdateReal
  <2>5. /\ pendingBytes' = Bytes(Tail(results.queue)) + inflight.size + Encoded
        /\ pendingBytes' <= ResultLimit
    <3> DEFINE b == Bytes(results.queue)
               c == Bytes(Tail(results.queue))
               h == Head(results.queue).size
    <3>1. /\ pendingBytes' = pendingBytes - h /\ b = h + c /\ c \in Nat /\ h \in Nat
          /\ pendingBytes = b + inflight.size + Encoded /\ b \in Nat
      BY <1>b, <1>e, <2>1, <2>3, <2>4
    <3> HIDE DEF b, c, h
    <3> DEFINE p == pendingBytes
               q == pendingBytes'
               i == inflight.size
               e == Encoded
    <3>2. /\ i \in Nat /\ e \in Nat /\ ResultLimit \in Nat /\ p <= ResultLimit
          /\ p = b + i + e /\ q = p - h
      BY <1>b, <1>e, <3>1
    <3> HIDE DEF p, q, i, e
    <3>3. b + i = c + i + h
      BY <3>1, <3>2
    <3>4. q = c + i + e /\ q <= ResultLimit
      BY <3>1, <3>2, <3>3
    <3>5. pendingBytes' = c + inflight.size + Encoded /\ pendingBytes' <= ResultLimit
      BY <3>4 DEF q, i, e
    <3> QED BY <3>5 DEF c
  <2> QED BY <1>e, <1>w, <2>1, <2>5 DEF ByteInv, BytesCharged, Encoded
<1>5. CASE SinkAcknowledges
  <2>1. /\ results'.queue = results.queue /\ inflight' = NoUpdate /\ dpc = "sink"
        /\ dpc' = "head"
        /\ pendingBytes' = pendingBytes - inflight.size
    BY <1>5, <1>t DEF SinkAcknowledges, TypeOK, ResultQueues
  <2>2. inflight'.size = 0
    BY <2>1 DEF NoUpdate
  <2> QED BY <1>b, <1>e, <1>w, <2>1, <2>2 DEF ByteInv, BytesCharged, Encoded
<1>6. CASE SinkFails
  <2>1. /\ results'.queue = <<>> /\ inflight' = NoUpdate /\ dpc = "sink" /\ dpc' = "done"
        /\ pendingBytes' = pendingBytes - inflight.size - Bytes(results.queue)
    BY <1>6, <1>t DEF SinkFails, TypeOK, ResultQueues
  <2>2. inflight'.size = 0 /\ Bytes(results'.queue) = 0
    BY <2>1, BytesEmpty DEF NoUpdate
  <2>3. pendingBytes' = 0 + 0 + Encoded /\ pendingBytes' <= ResultLimit
    <3> DEFINE p == pendingBytes
               q == pendingBytes'
               b == Bytes(results.queue)
               i == inflight.size
               e == Encoded
    <3>1. /\ b \in Nat /\ i \in Nat /\ e \in Nat /\ ResultLimit \in Nat
          /\ p = b + i + e /\ p <= ResultLimit /\ q = p - i - b
      BY <1>b, <1>e, <2>1
    <3> HIDE DEF p, q, b, i, e
    <3>2. q = 0 + 0 + e /\ q <= ResultLimit
      BY <3>1
    <3> QED BY <3>2 DEF q, e
  <2> QED BY <1>e, <1>w, <2>1, <2>2, <2>3 DEF ByteInv, BytesCharged, Encoded
<1> QED BY <1>1, <1>2, <1>3, <1>4, <1>5, <1>6 DEF Delivery

LEMMA ByteOthers ==
  ByteInv /\ (Source \/ Client \/ Cancel \/ UNCHANGED vars) => ByteInv'
  BY ByteQuiet DEF Source, SourceSleeps, SourceTakes, SourceHalts, SourceReplies, Client,
     ClientWaits, ClientReturns, Cancel, vars, shared, updates, ending, worker, others,
     sourcePump, deliveryPump

-----------------------------------------------------------------------------
(* The line of updates between emit and the sink is kept.                    *)

(* The updates outstanding are updates.                                      *)
LEMMA OutTypes ==
  ASSUME TypeOK, ByteInv
  PROVE  Outstanding \in Seq(Updates) /\ Len(Outstanding) \in Nat
<1>1. results.queue \in Seq(Updates) /\ (dpc = "sink" => inflight \in Updates)
  BY DEF TypeOK, ByteInv, ResultQueues
<1>2. CASE dpc = "sink"
  BY <1>1, <1>2 DEF Outstanding
<1>3. CASE dpc # "sink"
  BY <1>1, <1>3 DEF Outstanding
<1> QED BY <1>2, <1>3

LEMMA LineTypes ==
  ASSUME TypeOK
  PROVE  /\ work.sequence \in Nat /\ delivered.last \in Int /\ delivered.acknowledged \in Nat
         /\ delivered.pages \in Nat /\ delivered.notice \in BOOLEAN /\ counts.finished \in Nat
         /\ Due \in {0, 1} /\ PageDue \in {0, 1} /\ wpc \in WorkerPositions
         /\ work.emit \in Kinds /\ control.cancelled \in BOOLEAN
  BY DEF TypeOK, Works, Deliveries, Counts, Controls, Due, PageDue

(* A step that adds nothing to the line and takes nothing from it.           *)
LEMMA LineQuiet ==
  ASSUME TypeOK, TypeOK', ByteInv, LineInv,
         Outstanding' = Outstanding, delivered' = delivered,
         dpc' = "sink" /\ control'.cancelled => dpc = "sink" \/ Terminal(Outstanding[1]),
         dpc' \in {"off", "done"} => dpc \in {"off", "done"} \/ Outstanding = <<>>,
         control.cancelled => control'.cancelled,
         work.sequence <= work'.sequence, wpc \in Ending => wpc' \in Ending,
         wpc' \in {"stopDelivery", "joinDelivery"} /\ control'.deliveryError = None =>
            wpc \in {"stopDelivery", "joinDelivery"} /\ control.deliveryError = None,
         OnTime' => /\ OnTime /\ work'.sequence - Due' = work.sequence - Due
                    /\ counts'.finished - PageDue' = counts.finished - PageDue
  PROVE  LineInv'
<1>o. Outstanding \in Seq(Updates) /\ Len(Outstanding) \in Nat
  BY OutTypes
<1>t. /\ work.sequence \in Nat /\ delivered.last \in Int /\ counts.finished \in Nat
      /\ Due \in {0, 1} /\ PageDue \in {0, 1}
      /\ work'.sequence \in Nat /\ counts'.finished \in Nat /\ Due' \in {0, 1}
      /\ PageDue' \in {0, 1}
  BY DEF TypeOK, Works, Deliveries, Counts, Due, PageDue
<1>1. DeliveryOrder'
  <2>1. \A i \in DOMAIN Outstanding : Outstanding[i].seq \in Int
    <3>1. ASSUME NEW i \in DOMAIN Outstanding PROVE Outstanding[i] \in Updates
      BY <1>o, <3>1, ElementOfSeq
    <3>2. \A u \in Updates : u.seq \in Int
      BY DEF Updates
    <3> QED BY <3>1, <3>2
  <2> QED BY <1>o, <1>t, <2>1 DEF LineInv, DeliveryOrder
<1>2. (dpc \in {"off", "done"} => Outstanding = <<>>)'
  BY DEF LineInv
<1>3. (Noticed => wpc \in Ending)'
  BY DEF LineInv, Noticed, Terminal
<1>4. (wpc \in {"stopDelivery", "joinDelivery"} /\ control.deliveryError = None => Noticed)'
  BY DEF LineInv, Noticed, Terminal
<1>5. ASSUME OnTime' PROVE Numbered' /\ Counted'
  <2>1. Numbered /\ Counted
    BY <1>5 DEF LineInv
  <2>2. Numbered'
    BY <1>o, <1>t, <1>5, <2>1 DEF Numbered
  <2>3. Counted'
    BY ZenonT(40), <1>o, <1>t, <1>5, <2>1 DEF Counted, Counting, PagesOf
  <2> QED BY <2>2, <2>3
<1> QED BY <1>1, <1>2, <1>3, <1>4, <1>5 DEF LineInv

(* The worker's other steps leave the queue, the sink and its account alone. *)
LEMMA LineKept ==
  ASSUME TypeOK, Worker, ~Publish, ~Finish, wpc = "queued" => dpc = "off"
  PROVE  Outstanding' = Outstanding /\ delivered' = delivered
<1> USE DEF shared, updates, ending, worker, others, sourcePump, deliveryPump
<1>1. delivered' = delivered
  BY DEF Worker, StartJob, NextPage, StopSource, Reserve, ReserveStopped, ReserveWaits,
         PublishRejected, RequestPage, AwaitSleeps, AwaitEnded, TakeReply, CheckBeforeLayout,
            LayoutSucceeds, LayoutFails, PipelineBreaks, NextFormula, FormulaFinishes,
               FormulaAborts, FinishPage, Summarize, StopDelivery
<1>2. results'.queue = results.queue /\ inflight' = inflight
  BY DEF TypeOK, ResultQueues, Worker, StartJob, NextPage, StopSource, Reserve,
         ReserveStopped, ReserveWaits, PublishRejected, RequestPage, AwaitSleeps, AwaitEnded,
            TakeReply, CheckBeforeLayout, LayoutSucceeds, LayoutFails, PipelineBreaks,
               NextFormula, FormulaFinishes, FormulaAborts, FinishPage, Summarize, StopDelivery
<1>3. dpc' = "sink" <=> dpc = "sink"
  BY DEF Worker, StartJob, NextPage, StopSource, Reserve, ReserveStopped, ReserveWaits,
         PublishRejected, RequestPage, AwaitSleeps, AwaitEnded, TakeReply, CheckBeforeLayout,
            LayoutSucceeds, LayoutFails, PipelineBreaks, NextFormula, FormulaFinishes,
               FormulaAborts, FinishPage, Summarize, StopDelivery
<1> QED BY <1>1, <1>2, <1>3 DEF Outstanding

(* The worker goes on without publishing anything.                           *)
(* Updates numbered, queued and acknowledged move on together, and neither a *)
(* cancellation nor an error is taken back.                                  *)
OnTimeKept == OnTime' => /\ OnTime /\ work'.sequence - Due' = work.sequence - Due
                         /\ counts'.finished - PageDue' = counts.finished - PageDue
Onward ==
    /\ dpc' = "sink" <=> dpc = "sink"
    /\ dpc' \in {"off", "done"} => dpc \in {"off", "done"}
    /\ control.cancelled => control'.cancelled
    /\ work.sequence <= work'.sequence
    /\ wpc \in Ending => wpc' \in Ending
    /\ wpc' \in {"stopDelivery", "joinDelivery"} /\ control'.deliveryError = None =>
         wpc \in {"stopDelivery", "joinDelivery"} /\ control.deliveryError = None

LEMMA LineWaiting ==
  ASSUME ChargeInv, CourseInv, ByteInv, LineInv, Worker, ~Publish, ~Finish
  PROVE  LineInv'
<1>t. TypeOK /\ (wpc = "queued" => dpc = "off") /\ TypeOK'
  BY ChargeWorker DEF ChargeInv
<1>f. Failures
  BY DEF CourseInv
<1>c. /\ work.sequence \in Nat /\ counts.finished \in Nat /\ work.emit \in Kinds
      /\ wpc \in WorkerPositions
  BY <1>t, LineTypes
<1>k. Outstanding' = Outstanding /\ delivered' = delivered
  BY <1>t, LineKept
<1> SUFFICES Onward /\ OnTimeKept
  BY <1>t, <1>k, LineQuiet DEF Onward, OnTimeKept
<1> USE <1>t, <1>f, <1>c
    DEF Onward, OnTimeKept, OnTime, Stopped, Due, PageDue, Sending, Closing, Ending,
      Paging, Failures, SamePumps, FailsWith, OneFailed, StopReason, EmitStop, LoadStop, None
<1>1. CASE StartJob
  BY <1>1, SeenStartJob
<1>2. CASE NextPage
  BY <1>2, SeenNextPage
<1>3. CASE StopSource
  BY <1>3, SeenStopSource
<1>4. CASE Reserve
  BY <1>4, SeenReserve
<1>5. CASE ReserveStopped
  BY <1>5, SeenReserveStopped
<1>6. CASE ReserveWaits
  BY <1>6, SeenReserveWaits
<1>7. CASE PublishRejected
  BY <1>7, SeenPublishRejected
<1>8. CASE RequestPage
  BY <1>8, SeenRequestPage
<1>9. CASE AwaitSleeps
  BY <1>9, SeenAwaitSleeps
<1>10. CASE AwaitEnded
  BY <1>10, SeenAwaitEnded
<1>11. CASE TakeReply
  BY <1>11, SeenTakeReply
<1>12. CASE CheckBeforeLayout
  BY <1>12, SeenCheckBeforeLayout
<1>13. CASE LayoutSucceeds
  BY <1>13, SeenLayoutSucceeds
<1>14. CASE LayoutFails
  BY <1>14, SeenLayoutFails
<1>15. CASE PipelineBreaks
  BY <1>15, SeenPipelineBreaks
<1>16. CASE NextFormula
  BY <1>16, SeenNextFormula
<1>17. CASE FormulaFinishes
  BY <1>17, SeenFormulaFinishes
<1>18. CASE FormulaAborts
  BY <1>18, SeenFormulaAborts
<1>19. CASE FinishPage
  BY <1>19, SeenFinishPage
<1>20. CASE Summarize
  BY <1>20, SeenSummarize
<1>21. CASE StopDelivery
  BY <1>21, SeenStopDelivery
<1> QED BY <1>1, <1>2, <1>3, <1>4, <1>5, <1>6, <1>7, <1>8, <1>9, <1>10, <1>11, <1>12, <1>13,
      <1>14, <1>15, <1>16, <1>17, <1>18, <1>19, <1>20, <1>21 DEF Worker

LEMMA AppendLater ==
  ASSUME NEW q \in Seq(Updates), NEW u \in Updates, NEW v \in Updates
  PROVE  <<v>> \o Append(q, u) = Append(<<v>> \o q, u)
  OBVIOUS

(* An encoded update joins the line at its end.                              *)
LEMMA LinePublish ==
  ASSUME ChargeInv, CourseInv, ByteInv, LineInv, Publish
  PROVE  LineInv'
<1>t. TypeOK /\ TypeOK' /\ (wpc = "queued" => dpc = "off")
  BY ChargeWorker DEF ChargeInv, Worker
<1>c. /\ work.sequence \in Nat /\ delivered.last \in Int /\ counts.finished \in Nat
      /\ work.emit \in Kinds /\ Due \in {0, 1} /\ PageDue \in {0, 1}
      /\ delivered.pages \in Nat
  BY <1>t, LineTypes
<1>o. Outstanding \in Seq(Updates) /\ Len(Outstanding) \in Nat
  BY <1>t, OutTypes
<1>h. Failures /\ Pumps
  BY DEF CourseInv
<1>1. PICK size \in 1 .. UpdateLimit :
          results' = [results EXCEPT !.queue =
                 Append(@, [seq |-> work.sequence - 1, kind |-> work.emit,
                            page |-> work.page, size |-> size])]
  BY DEF Publish
<1> DEFINE u == [seq |-> work.sequence - 1, kind |-> work.emit, page |-> work.page,
                size |-> size]
<1>2. u \in Updates /\ u.seq = work.sequence - 1 /\ u.kind = work.emit
  BY <1>t, <1>1 DEF TypeOK, Works, Updates
<1>3. /\ dpc' = dpc /\ inflight' = inflight /\ delivered' = delivered /\ control' = control
      /\ counts' = counts /\ EmitStop = None /\ wpc = "encode" /\ Continue
  BY DEF Publish, ending, others, deliveryPump
<1>4. Outstanding' = Append(Outstanding, u)
  <2>1. results'.queue = Append(results.queue, u) /\ results.queue \in Seq(Updates)
    BY <1>t, <1>1 DEF TypeOK, ResultQueues
  <2>2. dpc = "sink" => inflight \in Updates
    BY <1>t DEF TypeOK, ByteInv
  <2> HIDE DEF u
  <2>3. CASE dpc = "sink"
    BY <1>2, <1>3, <2>1, <2>2, <2>3, AppendLater DEF Outstanding
  <2>4. CASE dpc # "sink"
    BY <1>2, <1>3, <2>1, <2>4 DEF Outstanding
  <2> QED BY <2>3, <2>4
<1> DEFINE L == Len(Outstanding)
<1>5. /\ Len(Outstanding') = L + 1 /\ Outstanding'[L + 1] = u /\ DOMAIN Outstanding' = 1 .. L + 1
      /\ DOMAIN Outstanding = 1 .. L /\ \A i \in 1 .. L : Outstanding'[i] = Outstanding[i]
      /\ L \in Nat
  <2> HIDE DEF u
  <2> QED BY <1>o, <1>2, <1>4, AppendProperties
<1>6. ~Noticed
  BY <1>3 DEF LineInv, Ending
<1>7. \A i \in 1 .. L : ~Terminal(Outstanding[i])
  BY <1>5, <1>6 DEF Noticed
<1>8. control.deliveryError = None /\ (work.emit # "document" => ~Stopped)
  BY <1>3 DEF EmitStop, Stopped, None
<1>9. dpc \notin {"off", "done"}
  BY <1>3, <1>8, <1>h DEF Pumps
<1>10. work.emit # "document" => Numbered /\ Counted
  BY <1>3, <1>8 DEF LineInv, OnTime, Sending, Closing
<1>11. /\ wpc' \in {"formulas", "reserve", "pages", "stop", "stopDelivery"}
       /\ wpc' = "stopDelivery" <=> work.emit = "document"
       /\ work'.failure = work.failure
       /\ wpc' = "stop" => work.failure # None
       /\ work'.sequence = work.sequence + Due'
       /\ PageDue' = PageDue - (IF work.emit = "page" THEN 1 ELSE 0)
       /\ wpc' = "reserve" => work'.emit = "page"
  BY <1>c, <1>3, SeenPublish, <1>t DEF Due, PageDue, Sending
<1>a. \A i \in 1 .. L : Outstanding[i].seq \in Int /\ Outstanding[i] \in Updates
  <2>1. \A i \in 1 .. L : Outstanding[i] \in Updates
    BY <1>o, ElementOfSeq
  <2>2. \A v \in Updates : v.seq \in Int
    BY DEF Updates
  <2> QED BY <2>1, <2>2
<1>d. Due' \in {0, 1} /\ Due = 1
  BY <1>3 DEF Due, Sending
<1>t1. Terminal(u) <=> work.emit = "document"
  BY <1>2 DEF Terminal
<1> HIDE DEF u, L
<1>12. DeliveryOrder'
  <2>1. ASSUME NEW i \in 1 .. L + 1
        PROVE  /\ Outstanding'[i].seq < work'.sequence
               /\ /\ ~Terminal(Outstanding'[i])
                  /\ control'.cancelled => dpc' = "sink" /\ i = 1
                  => Outstanding'[i].seq = delivered.last + i
               /\ Terminal(Outstanding'[i]) => i = L + 1
    <3>1. CASE i = L + 1
      <4>1. Outstanding'[i].seq = work.sequence - 1
        BY <1>2, <1>5, <3>1
      <4>2. work.emit # "document" => work.sequence = delivered.last + 1 + L + 1
        BY <1>10, <1>d DEF Numbered, L
      <4>3. Outstanding'[i].seq < work'.sequence
        <5>1. work'.sequence = work.sequence + Due' /\ Due' \in {0, 1} /\ work.sequence \in Nat
          BY <1>c, <1>d, <1>11
        <5> QED BY <4>1, <5>1
      <4>4. work.emit # "document" => Outstanding'[i].seq = delivered.last + i
        <5>1. work.sequence \in Nat /\ delivered.last \in Int /\ L \in Nat
          BY <1>c, <1>5
        <5> QED BY <3>1, <4>1, <4>2, <5>1
      <4> QED BY <1>5, <1>t1, <3>1, <4>3, <4>4
    <3>2. CASE i \in 1 .. L
      <4>1. /\ Outstanding'[i] = Outstanding[i] /\ ~Terminal(Outstanding[i])
            /\ Outstanding[i].seq \in Int
        BY <1>5, <1>7, <1>a, <3>2
      <4>2. /\ Outstanding[i].seq < work.sequence
            /\ (control.cancelled => dpc = "sink" /\ i = 1)
                  => Outstanding[i].seq = delivered.last + i
        BY <1>5, <4>1, <3>2 DEF LineInv, DeliveryOrder
      <4> QED BY <1>3, <1>c, <1>d, <1>11, <4>1, <4>2
    <3> QED BY <1>5, <3>1, <3>2
  <2>2. ~delivered.notice
    BY <1>6 DEF Noticed
  <2>3. delivered.acknowledged = delivered.last + 1
    BY <2>2 DEF LineInv, DeliveryOrder
  <2> QED BY <1>3, <1>5, <2>1, <2>2, <2>3 DEF DeliveryOrder, Terminal
<1>13. (dpc \in {"off", "done"} => Outstanding = <<>>)'
  BY <1>3, <1>9
<1>14. (Noticed => wpc \in Ending)'
  <2>1. ASSUME work.emit # "document" PROVE ~Noticed'
    BY <1>3, <1>5, <1>6, <1>7, <1>t1, <2>1 DEF Noticed, Terminal
  <2> QED BY <1>11, <2>1 DEF Ending
<1>15. (wpc \in {"stopDelivery", "joinDelivery"} /\ control.deliveryError = None => Noticed)'
  <2>1. ASSUME work.emit = "document" PROVE Noticed'
    BY <1>5, <1>t1, <2>1 DEF Noticed, Terminal
  <2> QED BY <1>11, <2>1
<1>16. ASSUME OnTime' PROVE Numbered' /\ Counted'
  <2>1. work.emit # "document" => Numbered /\ Counted
    BY <1>10
  <2>2. Numbered /\ Counted
    <3>1. CASE work.emit = "document"
      BY <1>3, <1>8, <1>11, <1>16, <3>1 DEF LineInv, OnTime, Stopped, Sending, Closing
    <3> QED BY <2>1, <3>1
  <2>3. Numbered'
    <3>1. work.sequence = delivered.last + 1 + L + 1
      BY <2>2, <1>d DEF Numbered, L
    <3>2. work'.sequence = delivered.last + 1 + (L + 1) + Due'
      <4>1. /\ work'.sequence = work.sequence + Due' /\ Due' \in {0, 1}
            /\ work.sequence \in Nat
            /\ delivered.last \in Int /\ L \in Nat
        BY <1>c, <1>d, <1>5, <1>11
      <4> QED BY <3>1, <4>1
    <3>3. \A i \in 1 .. L + 1 : Outstanding'[i].seq = delivered.last + i
      <4>1. Outstanding'[L + 1].seq = delivered.last + (L + 1)
        <5>1. /\ Outstanding'[L + 1].seq = work.sequence - 1 /\ work.sequence \in Nat
              /\ delivered.last \in Int /\ L \in Nat
          BY <1>2, <1>5, <1>c
        <5> QED BY <3>1, <5>1
      <4>2. \A i \in 1 .. L : Outstanding'[i].seq = delivered.last + i
        BY <2>2, <1>5 DEF Numbered
      <4> QED BY <1>5, <4>1, <4>2
    <3> QED BY <1>3, <1>5, <2>2, <3>2, <3>3 DEF Numbered
  <2>4. Counted'
    <3>1. PICK f : Counting(f, Outstanding)
      BY <2>2 DEF Counted
    <3>2. /\ f \in [0 .. L -> Nat] /\ f[0] = delivered.pages
          /\ f[L] = counts.finished - PageDue
          /\ \A i \in 1 .. L : f[i] = f[i - 1] + PagesOf(Outstanding[i])
      BY <1>5, <3>1 DEF Counting, L
    <3> DEFINE p == PagesOf(u)
    <3>3. p \in {0, 1} /\ (p = 1 <=> work.emit = "page") /\ PageDue' = PageDue - p
      BY <1>2, <1>c, <1>11 DEF PagesOf
    <3>4. PICK g : g = [i \in 0 .. L + 1 |-> IF i = L + 1 THEN f[L] + p ELSE f[i]]
      OBVIOUS
    <3> HIDE DEF p
    <3>5. f[L] \in Nat /\ L \in 0 .. L /\ f[L] + p \in Nat
      BY <1>5, <3>2, <3>3
    <3>6. g \in [0 .. L + 1 -> Nat]
      BY <1>5, <3>2, <3>4, <3>5
    <3>7. g[0] = delivered.pages /\ g[L + 1] = counts.finished - PageDue'
      BY <1>5, <1>c, <3>2, <3>3, <3>4, <3>5
    <3>8. \A i \in 1 .. L + 1 : g[i] = g[i - 1] + PagesOf(Outstanding'[i])
      <4>1. g[L + 1] = g[L] + PagesOf(Outstanding'[L + 1])
        BY <1>5, <3>4, <3>5 DEF p
      <4>2. ASSUME NEW i \in 1 .. L PROVE g[i] = g[i - 1] + PagesOf(Outstanding'[i])
        BY <1>5, <3>2, <3>4, <4>2
      <4> QED BY <1>5, <4>1, <4>2
    <3> QED BY <1>3, <1>5, <3>6, <3>7, <3>8 DEF Counted, Counting, PagesOf
  <2> QED BY <2>3, <2>4
<1> QED BY <1>12, <1>13, <1>14, <1>15, <1>16 DEF LineInv

(* The queue the job leaves behind was empty already.                        *)
LEMMA LineFinish ==
  ASSUME ChargeInv, CourseInv, ByteInv, LineInv, Finish
  PROVE  LineInv'
<1>t. TypeOK /\ TypeOK'
  BY ChargeWorker DEF ChargeInv, Worker
<1>1. Outstanding = <<>> /\ Outstanding' = <<>>
  <2>1. dpc' = dpc /\ dpc \in {"off", "done"} /\ results'.queue = <<>>
    BY <1>t DEF Finish, others, deliveryPump, TypeOK, ResultQueues
  <2>2. Outstanding = <<>>
    BY <2>1 DEF LineInv
  <2> QED BY <2>1, <2>2 DEF Outstanding
<1>2. delivered' = delivered
  BY DEF Finish
<1>3. Onward /\ OnTimeKept
  BY <1>t, SeenFinish, LineTypes
  DEF Onward, OnTimeKept, OnTime, Stopped, Ending, Due, PageDue, Sending, Closing, Finish,
      others,
      deliveryPump
<1> QED BY <1>t, <1>1, <1>2, <1>3, LineQuiet DEF Onward, OnTimeKept

(* The pump of a stopped job drops updates and keeps their order.            *)
LEMMA LineCut ==
  ASSUME TypeOK, ByteInv, LineInv, Stopped', wpc' = wpc, work' = work, delivered' = delivered,
         NEW out \in Seq(Updates), Outstanding' = out,
         \A i \in 1 .. Len(out) : \E j \in 1 .. Len(Outstanding) : out[i] = Outstanding[j],
         \A i \in 1 .. Len(out) : \/ Terminal(out[i]) /\ i = Len(out)
                                 \/ /\ ~Terminal(out[i])
                                    /\ control'.cancelled /\ dpc' # "sink",
         dpc' \in {"off", "done"} => out = <<>>,
         control'.deliveryError = None =>
            /\ control.deliveryError = None
            /\ \A j \in 1 .. Len(Outstanding) : Terminal(Outstanding[j]) =>
                  \E i \in 1 .. Len(out) : Terminal(out[i])
  PROVE  LineInv'
<1>o. Outstanding \in Seq(Updates) /\ DOMAIN Outstanding = 1 .. Len(Outstanding)
  BY OutTypes
<1>1. DeliveryOrder'
  <2>1. \A i \in 1 .. Len(out) : out[i].seq < work.sequence
    BY <1>o DEF LineInv, DeliveryOrder
  <2>2. delivered.notice => out = <<>>
    <3>1. ASSUME delivered.notice PROVE Outstanding = <<>>
      BY <3>1 DEF LineInv, DeliveryOrder
    <3>2. Len(<<>>) = 0
      OBVIOUS
    <3>3. delivered.notice => Len(out) = 0
      BY <3>1, <3>2
    <3> QED BY <3>3, EmptySeq
  <2>3. ~delivered.notice => delivered.acknowledged = delivered.last + 1
    BY DEF LineInv, DeliveryOrder
  <2> QED BY <2>1, <2>2, <2>3 DEF DeliveryOrder, Terminal
<1>2. (Noticed => wpc \in Ending)'
  <2>1. Noticed' => Noticed
    BY <1>o DEF Noticed, Terminal
  <2> QED BY <2>1 DEF LineInv
<1>3. (wpc \in {"stopDelivery", "joinDelivery"} /\ control.deliveryError = None => Noticed)'
  <2>1. control'.deliveryError = None /\ Noticed => Noticed'
    BY <1>o DEF Noticed, Terminal
  <2> QED BY <2>1 DEF LineInv
<1>4. ~OnTime'
  BY DEF OnTime
<1> QED BY <1>1, <1>2, <1>3, <1>4 DEF LineInv

(* The notice a cancelled pump keeps.                                        *)
LEMMA RetainedNotice ==
  ASSUME TypeOK, LineInv, dpc # "sink", Outstanding \in Seq(Updates)
  PROVE  /\ Outstanding = results.queue
         /\ Retained(results.queue) = <<>>
               => \A j \in 1 .. Len(Outstanding) : ~Terminal(Outstanding[j])
         /\ Retained(results.queue) # <<>> =>
               /\ Len(Outstanding) \in 1 .. Len(Outstanding)
               /\ Retained(results.queue) = <<Outstanding[Len(Outstanding)]>>
               /\ Terminal(Outstanding[Len(Outstanding)])
<1>1. results.queue \in Seq(Updates)
  BY DEF TypeOK, ResultQueues
<1>2. Outstanding = results.queue
  BY <1>1 DEF Outstanding
<1>3. \A j \in 1 .. Len(Outstanding) : Terminal(Outstanding[j]) => j = Len(Outstanding)
  BY DEF LineInv, DeliveryOrder
<1>4. results.queue # <<>> => Len(Outstanding) \in 1 .. Len(Outstanding)
  BY <1>1, <1>2, EmptySeq
<1>5. \A j \in 1 .. Len(Outstanding) : results.queue # <<>>
  BY <1>1, <1>2, EmptySeq
<1> QED BY <1>2, <1>3, <1>4, <1>5 DEF Retained

(* The pump: it takes the first update, hands it over, or drops what a       *)
(* cancellation or a failed sink leaves undelivered.                         *)
LEMMA LineDelivery ==
  ASSUME ChargeInv, CourseInv, ByteInv, LineInv, Delivery
  PROVE  LineInv'
<1> USE DEF shared, updates, ending, worker, others, sourcePump, deliveryPump
<1>t. TypeOK /\ TypeOK'
  BY ChargeOthers DEF ChargeInv
<1>o. Outstanding \in Seq(Updates) /\ Len(Outstanding) \in Nat /\ results.queue \in Seq(Updates)
  BY <1>t, OutTypes DEF TypeOK, ResultQueues
<1>w. wpc' = wpc /\ work' = work /\ counts' = counts
  BY DEF Delivery, DeliveryWaits, DeliveryEnds, DeliveryCalls, DeliveryDrops, SinkAcknowledges,
         SinkFails
<1>q. /\ Due' = Due /\ PageDue' = PageDue /\ work.sequence \in Nat /\ counts.finished \in Nat
      /\ Due \in {0, 1} /\ PageDue \in {0, 1}
  BY <1>t, <1>w, LineTypes DEF Due, PageDue, Sending
<1>k. ASSUME control' = control
      PROVE  /\ OnTimeKept /\ (control.cancelled => control'.cancelled)
             /\ work.sequence <= work'.sequence /\ (wpc \in Ending => wpc' \in Ending)
             /\ (wpc' \in {"stopDelivery", "joinDelivery"} /\ control'.deliveryError = None =>
                   wpc \in {"stopDelivery", "joinDelivery"} /\ control.deliveryError = None)
  BY <1>w, <1>q, <1>k DEF OnTimeKept, OnTime, Stopped, Sending, Closing
<1>1. CASE DeliveryWaits \/ DeliveryEnds
  <2>1. /\ dpc \in {"head", "wait"} /\ Backlog = <<>> /\ dpc' # "sink"
        /\ results'.queue = <<>> /\ delivered' = delivered /\ control' = control
        /\ inflight' = inflight
    BY <1>1, <1>t DEF DeliveryWaits, DeliveryEnds, Discard, TypeOK, ResultQueues
  <2>2. Outstanding' = <<>>
    BY <2>1 DEF Outstanding
  <2>3. CASE Outstanding = <<>>
    BY <1>t, <1>k, <2>1, <2>2, <2>3, LineQuiet DEF OnTimeKept
  <2>4. CASE Outstanding # <<>>
    <3>1. Outstanding = results.queue
      BY <1>t, <1>o, <2>1, RetainedNotice
    <3>2. Discarding /\ Retained(results.queue) = <<>>
      BY <2>1, <2>4, <3>1 DEF Backlog
    <3>3. \A j \in 1 .. Len(Outstanding) : ~Terminal(Outstanding[j])
      BY <1>t, <1>o, <2>1, <3>2, RetainedNotice
    <3>4. Stopped' /\ control'.cancelled
      BY <2>1, <3>2 DEF Stopped, Discarding
    <3>5. <<>> \in Seq(Updates) /\ 1 .. Len(<<>>) = {}
      OBVIOUS
    <3> QED BY <1>t, <1>w, <2>1, <2>2, <3>3, <3>4, <3>5, LineCut
  <2> QED BY <2>3, <2>4
<1>2. CASE DeliveryCalls
  <2>1. /\ dpc \in {"head", "wait"} /\ Backlog # <<>> /\ dpc' = "sink"
        /\ results'.queue = Tail(Backlog) /\ delivered' = delivered /\ control' = control
        /\ inflight' = Head(Backlog) /\ MayDeliver(Head(Backlog))
    BY <1>2, <1>t DEF DeliveryCalls, Discard, TypeOK, ResultQueues
  <2>2. Backlog \in Seq(Updates) /\ Outstanding = results.queue
    BY <1>t, <1>o, <2>1, Backlogged, RetainedNotice
  <2>3. Outstanding' = Backlog
    BY <2>1, <2>2 DEF Outstanding
  <2>4. CASE ~Discarding
    <3>1. Outstanding' = Outstanding /\ Outstanding[1] = Head(Backlog)
      BY <2>1, <2>2, <2>3, <2>4 DEF Backlog
    <3> QED BY <1>t, <1>k, <2>1, <3>1, LineQuiet DEF OnTimeKept, MayDeliver
  <2>5. CASE Discarding
    <3>1. /\ Len(Outstanding) \in 1 .. Len(Outstanding)
          /\ Backlog = <<Outstanding[Len(Outstanding)]>>
          /\ Terminal(Outstanding[Len(Outstanding)])
      BY <1>t, <1>o, <2>1, <2>5, RetainedNotice DEF Backlog
    <3>2. Len(Backlog) = 1 /\ Backlog[1] = Outstanding[Len(Outstanding)]
      BY <3>1
    <3>3. Stopped' /\ control'.cancelled
      BY <2>1, <2>5 DEF Stopped, Discarding
    <3>4. \A i \in 1 .. Len(Backlog) : i = 1
      BY <3>2
    <3> DEFINE L == Len(Outstanding)
    <3>5. \A i \in 1 .. Len(Backlog) : Backlog[i] = Outstanding[L] /\ L \in 1 .. L
      BY <3>1, <3>2, <3>4
    <3>6. \A i \in 1 .. Len(Backlog) : Terminal(Backlog[i]) /\ i = Len(Backlog)
      BY <3>1, <3>2, <3>4
    <3>7. 1 \in 1 .. Len(Backlog) /\ Terminal(Backlog[1])
      BY <3>1, <3>2
    <3>8. \A i \in 1 .. Len(Backlog) : \E j \in 1 .. L : Backlog[i] = Outstanding[j]
      BY <3>5
    <3> QED BY <1>t, <1>w, <2>1, <2>2, <2>3, <3>3, <3>6, <3>7, <3>8, LineCut
  <2> QED BY <2>4, <2>5
<1>3. CASE DeliveryDrops
  <2>1. /\ dpc = "wait" /\ dpc' = "head" /\ control.cancelled /\ control' = control
        /\ results.queue # <<>> /\ ~Terminal(Head(results.queue))
        /\ results'.queue = Tail(results.queue) /\ delivered' = delivered /\ inflight' = inflight
    BY <1>3, <1>t DEF DeliveryDrops, TypeOK, ResultQueues
  <2>2. Outstanding = results.queue
    BY <1>t, <1>o, <2>1, RetainedNotice
  <2> DEFINE out == Tail(results.queue)
             L == Len(Outstanding)
  <2>3. /\ out \in Seq(Updates) /\ Len(out) = L - 1 /\ Head(results.queue) = Outstanding[1]
        /\ L \in Nat \ {0} /\ \A i \in 1 .. L - 1 : out[i] = Outstanding[i + 1]
    BY <1>o, <2>1, <2>2, HeadTailProperties, EmptySeq
  <2>4. Outstanding' = out
    BY <2>1, <2>3 DEF Outstanding
  <2>5. Stopped' /\ control'.cancelled
    BY <2>1 DEF Stopped
  <2> HIDE DEF out, L
  <2>6. \A j \in 1 .. L : Terminal(Outstanding[j]) => j = L /\ j # 1
    BY <2>1, <2>3 DEF LineInv, DeliveryOrder, L
  <2>7. \A i \in 1 .. Len(out) : i + 1 \in 1 .. L /\ out[i] = Outstanding[i + 1]
    BY <2>3
  <2>8. \A i \in 1 .. Len(out) : Terminal(out[i]) => i = Len(out)
    BY <2>3, <2>6, <2>7
  <2>9. \A j \in 1 .. L : Terminal(Outstanding[j]) =>
           \E i \in 1 .. Len(out) : Terminal(out[i])
    <3>1. ASSUME NEW j \in 1 .. L, Terminal(Outstanding[j])
          PROVE  j - 1 \in 1 .. Len(out) /\ out[j - 1] = Outstanding[j]
      BY <2>3, <2>6, <3>1
    <3> QED BY <3>1
  <2>10. \A i \in 1 .. Len(out) : \E j \in 1 .. L : out[i] = Outstanding[j]
    BY <2>7
  <2> QED BY <1>t, <1>w, <2>1, <2>3, <2>4, <2>5, <2>8, <2>9, <2>10, LineCut DEF L
<1>4. CASE SinkFails
  <2>1. /\ dpc' = "done" /\ results'.queue = <<>> /\ delivered' = delivered
        /\ control'.deliveryError = "Delivery"
    BY <1>4, <1>t DEF SinkFails, TypeOK, ResultQueues, Controls
  <2>2. Outstanding' = <<>> /\ Stopped' /\ control'.deliveryError # None
    BY <2>1 DEF Outstanding, Stopped, None
  <2>3. <<>> \in Seq(Updates) /\ 1 .. Len(<<>>) = {}
    OBVIOUS
  <2> QED BY <1>t, <1>w, <2>1, <2>2, <2>3, LineCut
<1>5. CASE SinkAcknowledges
  <2>1. /\ dpc = "sink" /\ dpc' = "head" /\ control' = control
        /\ results'.queue = results.queue
        /\ delivered' = [delivered EXCEPT
             !.acknowledged = @ + 1, !.last = inflight.seq,
             !.pages = IF inflight.kind = "page" THEN @ + 1 ELSE @,
             !.formulas = IF inflight.kind = "formula" THEN @ + 1 ELSE @,
             !.notice = @ \/ Terminal(inflight)]
        /\ inflight \in Updates
    BY <1>5, <1>t DEF SinkAcknowledges, TypeOK, ResultQueues, ByteInv
  <2>2. /\ delivered'.acknowledged = delivered.acknowledged + 1
        /\ delivered'.last = inflight.seq
        /\ delivered'.notice = (delivered.notice \/ Terminal(inflight))
    BY <1>t, <2>1 DEF TypeOK, Deliveries
  <2>3. delivered'.pages = delivered.pages + PagesOf(inflight)
    BY <1>t, <2>1 DEF TypeOK, Deliveries, PagesOf
  <2> DEFINE L == Len(Outstanding)
  <2>4. /\ L \in Nat \ {0} /\ Outstanding[1] = inflight /\ Outstanding' = results.queue
        /\ Len(results.queue) = L - 1
        /\ \A i \in 1 .. L - 1 : results.queue[i] = Outstanding[i + 1]
    <3>1. Outstanding = <<inflight>> \o results.queue /\ Outstanding' = results.queue
      BY <1>o, <2>1 DEF Outstanding
    <3>2. Len(Outstanding) = 1 + Len(results.queue) /\ Len(results.queue) \in Nat
      BY <1>o, <3>1, <2>1
    <3> QED BY <1>o, <2>1, <3>1, <3>2
  <2> HIDE DEF L
  <2>5. DOMAIN Outstanding = 1 .. L /\ DOMAIN results.queue = 1 .. L - 1 /\ 1 \in 1 .. L
    BY <1>o, <2>4 DEF L
  <2>6. \A i \in 1 .. L : Terminal(Outstanding[i]) => i = L
    BY <2>5 DEF LineInv, DeliveryOrder, L
  <2>7. ~delivered.notice /\ delivered.acknowledged = delivered.last + 1
    <3>1. Outstanding # <<>>
      BY <2>4 DEF L
    <3> QED BY <3>1 DEF LineInv, DeliveryOrder
  <2>8. ~Terminal(inflight) => inflight.seq = delivered.last + 1
    BY <2>1, <2>4, <2>5 DEF LineInv, DeliveryOrder
  <2>9. delivered.last \in Int /\ delivered.acknowledged \in Nat /\ delivered.pages \in Nat
    BY <1>t, LineTypes
  <2>10. DeliveryOrder'
    <3>1. ASSUME NEW i \in 1 .. L - 1
          PROVE  /\ Outstanding'[i].seq < work.sequence
                 /\ ~Terminal(Outstanding'[i]) /\ ~control.cancelled =>
                       Outstanding'[i].seq = delivered'.last + i
                 /\ Terminal(Outstanding'[i]) => i = L - 1
      <4>1. i + 1 \in 1 .. L /\ Outstanding'[i] = Outstanding[i + 1]
        BY <2>4, <3>1
      <4>2. ~control.cancelled /\ ~Terminal(Outstanding[i + 1]) =>
               Outstanding[i + 1].seq = delivered.last + (i + 1)
        BY <2>5, <4>1 DEF LineInv, DeliveryOrder
      <4>3. ~Terminal(inflight)
        BY <2>4, <2>5, <2>6, <3>1
      <4>4. inflight.seq + i = delivered.last + (i + 1)
        BY <2>8, <2>9, <4>3
      <4>5. Outstanding[i + 1].seq < work.sequence
        BY <2>5, <4>1 DEF LineInv, DeliveryOrder
      <4>6. Terminal(Outstanding[i + 1]) => i + 1 = L
        BY <2>6, <4>1
      <4> QED BY <2>2, <2>4, <4>1, <4>2, <4>4, <4>5, <4>6
    <3>2. ~delivered'.notice => delivered'.acknowledged = delivered'.last + 1
      BY <2>2, <2>7, <2>8
    <3>3. delivered'.notice => Outstanding' = <<>>
      <4>1. ASSUME Terminal(inflight) PROVE Len(results.queue) = 0
        BY <2>4, <2>5, <2>6, <4>1
      <4> QED BY <1>o, <2>2, <2>4, <2>7, <4>1, EmptySeq
    <3> QED BY <1>w, <2>1, <2>4, <2>5, <3>1, <3>2, <3>3 DEF DeliveryOrder, Terminal
  <2>11. Noticed' <=> Noticed
    <3>1. Terminal(inflight) => Noticed
      BY <2>4, <2>5 DEF Noticed
    <3>2. \A i \in 1 .. L - 1 : i + 1 \in 1 .. L
      BY <2>4
    <3>3. Noticed' => Noticed
      BY <2>2, <2>4, <2>5, <3>1, <3>2 DEF Noticed, Terminal
    <3>4. Noticed => Noticed'
      <4>1. ASSUME NEW i \in 1 .. L, Terminal(Outstanding[i]), i # 1 PROVE Noticed'
        <5>1. i - 1 \in 1 .. L - 1 /\ Outstanding'[i - 1] = Outstanding[i]
          BY <2>4, <4>1
        <5> QED BY <2>4, <2>5, <4>1, <5>1 DEF Noticed, Terminal
      <4>2. Terminal(inflight) => Noticed'
        BY <2>2 DEF Noticed
      <4> QED BY <2>4, <2>5, <2>7, <4>1, <4>2 DEF Noticed
    <3> QED BY <3>3, <3>4
  <2>12. ASSUME OnTime' PROVE Numbered' /\ Counted'
    <3>1. Numbered /\ Counted
      BY <1>k, <2>1, <2>12 DEF OnTimeKept, LineInv
    <3>2. /\ work.sequence = delivered.last + 1 + L + Due
          /\ \A i \in 1 .. L : Outstanding[i].seq = delivered.last + i
      BY <2>5, <3>1 DEF Numbered, L
    <3>3. delivered'.last = delivered.last + 1
      BY <2>2, <2>4, <2>5, <3>2
    <3>4. Numbered'
      <4>1. work.sequence = delivered'.last + 1 + (L - 1) + Due
        BY <1>q, <2>4, <2>9, <3>2, <3>3
      <4>2. ASSUME NEW i \in 1 .. L - 1 PROVE Outstanding'[i].seq = delivered'.last + i
        <5>1. Outstanding'[i] = Outstanding[i + 1] /\ i + 1 \in 1 .. L
          BY <2>4, <4>2
        <5>2. Outstanding[i + 1].seq = delivered.last + (i + 1)
          BY <3>2, <5>1
        <5> QED BY <2>9, <3>3, <5>1, <5>2
      <4>3. delivered'.acknowledged = delivered'.last + 1
        BY <2>2, <2>7, <3>3
      <4> QED BY <1>q, <1>w, <2>4, <2>5, <4>1, <4>2, <4>3 DEF Numbered
    <3>5. Counted'
      <4>1. PICK f : Counting(f, Outstanding)
        BY <3>1 DEF Counted
      <4>2. /\ f \in [0 .. L -> Nat] /\ f[0] = delivered.pages
            /\ f[L] = counts.finished - PageDue
            /\ \A i \in 1 .. L : f[i] = f[i - 1] + PagesOf(Outstanding[i])
        BY <2>5, <4>1 DEF Counting, L
      <4>3. PICK g : g = [i \in 0 .. L - 1 |-> f[i + 1]]
        OBVIOUS
      <4>4. g \in [0 .. L - 1 -> Nat]
        BY <2>4, <4>2, <4>3
      <4>5. g[0] = delivered'.pages /\ g[L - 1] = counts.finished - PageDue
        <5>1. f[1] = f[0] + PagesOf(Outstanding[1])
          BY <2>5, <4>2
        <5>2. g[0] = f[1] /\ g[L - 1] = f[L]
          BY <2>4, <4>3
        <5> QED BY <2>3, <2>4, <4>2, <5>1, <5>2
      <4>6. ASSUME NEW i \in 1 .. L - 1 PROVE g[i] = g[i - 1] + PagesOf(Outstanding'[i])
        <5>1. Outstanding'[i] = Outstanding[i + 1] /\ i + 1 \in 1 .. L
          BY <2>4, <4>6
        <5>2. f[i + 1] = f[i] + PagesOf(Outstanding[i + 1])
          BY <4>2, <5>1
        <5>3. g[i] = f[i + 1] /\ g[i - 1] = f[i]
          BY <2>4, <4>3, <4>6
        <5> QED BY <5>1, <5>2, <5>3
      <4> QED BY <1>q, <1>w, <2>4, <2>5, <4>4, <4>5, <4>6 DEF Counted, Counting, PagesOf
    <3> QED BY <3>4, <3>5
  <2> QED BY <1>w, <2>1, <2>10, <2>11, <2>12 DEF LineInv
<1> QED BY <1>1, <1>2, <1>3, <1>4, <1>5 DEF Delivery

LEMMA LineOthers ==
  ASSUME ChargeInv, CourseInv, ByteInv, LineInv, Source \/ Client \/ Cancel \/ UNCHANGED vars
  PROVE  LineInv'
<1> USE DEF shared, updates, ending, worker, others, sourcePump, deliveryPump
<1>t. TypeOK /\ TypeOK'
  BY ChargeOthers DEF ChargeInv
<1>1. /\ wpc' = wpc /\ work' = work /\ counts' = counts /\ results' = results
      /\ delivered' = delivered /\ dpc' = dpc /\ inflight' = inflight
  BY DEF Source, SourceSleeps, SourceTakes, SourceHalts, SourceReplies, Client, ClientWaits,
     ClientReturns, Cancel, vars
<1>2. /\ control.cancelled => control'.cancelled
      /\ control'.deliveryError = control.deliveryError
  BY <1>t DEF Source, SourceSleeps, SourceTakes, SourceHalts, SourceReplies, Client,
              ClientWaits,
     ClientReturns, Cancel, vars, TypeOK, Controls
<1>3. Outstanding' = Outstanding
  BY <1>1 DEF Outstanding
<1>4. OnTimeKept /\ work.sequence <= work'.sequence
  BY <1>t, <1>1, <1>2, LineTypes
     DEF OnTimeKept, OnTime, Stopped, Due, PageDue, Sending, Closing
<1> QED BY <1>t, <1>1, <1>2, <1>3, <1>4, LineQuiet DEF OnTimeKept

LEMMA LineInit == Init => LineInv
<1> SUFFICES ASSUME Init PROVE LineInv
  OBVIOUS
<1>1. Outstanding = <<>> /\ Len(Outstanding) = 0 /\ DOMAIN Outstanding = {}
  BY DEF Init, Outstanding
<1>2. PICK all \in Scopes :
         work = [all |-> all, page |-> 0, left |-> 0, held |-> 0, sequence |-> 0,
                 emit |-> "document", failure |-> None, broken |-> FALSE, summary |-> None]
  BY DEF Init
<1>3. /\ wpc = "queued" /\ control.deliveryError = None /\ work.sequence = 0
      /\ delivered.last = -1 /\ delivered.acknowledged = 0 /\ delivered.pages = 0
      /\ ~delivered.notice /\ counts.finished = 0 /\ Due = 0 /\ PageDue = 0
  BY <1>2 DEF Init, Due, PageDue, Sending
<1>4. Counting([i \in 0 .. 0 |-> 0], Outstanding)
  BY <1>1, <1>3 DEF Counting
<1> QED BY <1>1, <1>3, <1>4 DEF LineInv, DeliveryOrder, Noticed, Numbered, Counted, Ending

-----------------------------------------------------------------------------
(* The update queue, in every reachable state.                               *)

LineAll == CourseInv /\ ByteInv /\ LineInv

LEMMA LineNext ==
  ASSUME ChargeInv, LineAll, Next \/ UNCHANGED vars
  PROVE  LineAll'
<1>1. CourseInv /\ ByteInv /\ LineInv
  BY DEF LineAll
<1>2. CASE Worker
  <2>1. CourseInv' /\ ByteInv'
    BY <1>1, <1>2, CourseWorker, ByteWorker
  <2>2. LineInv'
    BY <1>1, <1>2, LinePublish, LineFinish, LineWaiting
  <2> QED BY <2>1, <2>2 DEF LineAll
<1>3. CASE Delivery
  BY <1>1, <1>3, CourseOthers, ByteDelivery, LineDelivery DEF LineAll
<1>4. CASE Source \/ Client \/ Cancel \/ UNCHANGED vars
  BY <1>1, <1>4, CourseOthers, ByteOthers, LineOthers DEF LineAll
<1> QED BY <1>2, <1>3, <1>4 DEF Next, Done

LEMMA LineStarts == Init => LineAll
<1> SUFFICES ASSUME Init PROVE LineAll
  OBVIOUS
<1>1. ByteInv
  <2>1. results.queue = <<>> /\ pendingBytes = 0 /\ inflight = NoUpdate /\ dpc = "off"
        /\ wpc = "queued" /\ inflight.size = 0
    BY DEF Init, NoUpdate
  <2>2. 0 <= ResultLimit
    BY LimitsAssumption
  <2> QED BY <2>1, <2>2, BytesEmpty DEF ByteInv, BytesCharged
<1> QED BY <1>1, CourseInit, LineInit DEF LineAll

(* Every reachable state satisfies the inductive invariant of the updates.   *)
THEOREM LineInvariant == Spec => []LineAll
<1>1. ChargeInv /\ LineAll /\ [Next]_vars => LineAll'
  BY LineNext
<1> QED BY <1>1, LineStarts, ChargeInvariant, PTL DEF Spec

(* For every limit, every number of pages and whoever fails or cancels: emit *)
(* and delivery_loop charge each queued, reserved or delivered byte within   *)
(* limits.result_bytes(), and the sink sees the updates in sequence, without *)
(* a gap, the terminal notice last.                                          *)
THEOREM QueueAlwaysExact == Spec => []QueueExact
<1>1. ChargeInv /\ LineAll => QueueExact
  BY DEF ChargeInv, LineAll, ByteInv, LineInv, QueueExact
<1> QED BY <1>1, ChargeInvariant, LineInvariant, PTL

-----------------------------------------------------------------------------
(* The outcome.                                                              *)

(* What finish reports agrees with what the job, the sink and the client did.*)
LEMMA FinishHonest ==
  ASSUME ChargeInv, RasterInv, LineAll, Finish
  PROVE  FinalInv'
<1>t. TypeOK /\ TypeOK'
  BY ChargeWorker DEF ChargeInv, Worker
<1>i. /\ Failures /\ Progress /\ Summed /\ Pumps /\ ByteInv /\ LineInv
  BY DEF LineAll, CourseInv
<1>1. /\ wpc = "joinDelivery" /\ dpc \in {"off", "done"} /\ dpc' = dpc /\ spc' = spc
      /\ control' = control /\ work' = work /\ counts' = counts /\ delivered' = delivered
      /\ render' = render /\ pendingBytes' = 0 /\ inputBytes' = 0
      /\ results'.queue = <<>> /\ results'.updates = 0
      /\ outcome' = IF OutcomeError # None THEN "Failed"
                    ELSE IF control.cancelled THEN "Cancelled" ELSE work.summary
  BY <1>t DEF Finish, others, sourcePump, deliveryPump, TypeOK, ResultQueues
<1>2. Quiescent'
  <2>1. render.reply = <<>>
    BY <1>1 DEF RasterInv, MailInv, MailFree
  <2>2. spc \in {"off", "done"}
    BY <1>1, <1>i DEF Pumps, Ending
  <2> QED BY <1>1, <2>1, <2>2 DEF Quiescent
<1>3. ASSUME "Cancelled" \notin SourceCodes PROVE OutcomeHonest'
  <2>1. Outstanding = <<>>
    BY <1>1, <1>i DEF LineInv
  <2>c. /\ work.failure \in Codes \cup {None} /\ work.summary \in Statuses \cup {None}
        /\ counts.failed \in Nat /\ counts.badFormulas \in Nat /\ counts.finished \in Nat
        /\ control.deliveryError \in {None, "Delivery", "LimitExceeded"}
        /\ delivered.notice \in BOOLEAN /\ control.cancelled \in BOOLEAN
    BY <1>t, <1>i, CourseTypes DEF Failures, TypeOK, Deliveries, Controls
  <2>2. CASE OutcomeError # None
    BY <1>1, <2>2 DEF OutcomeHonest, Statuses
  <2>3. CASE OutcomeError = None
    <3>1. control.deliveryError = None /\ work.failure \in {None, "Cancelled"}
      BY <2>c, <2>3 DEF OutcomeError, None
    <3>2. delivered.notice
      <4>1. Noticed
        BY <1>1, <1>i, <3>1 DEF LineInv
      <4>2. DOMAIN Outstanding = {}
        BY <2>1
      <4> QED BY <4>1, <4>2 DEF Noticed
    <3>3. ~Fatal
      BY <1>i, <3>1 DEF Fatal, Failures, None
    <3>4. work.failure = "Cancelled" => control.cancelled
      BY <1>3, <1>i, <3>1 DEF Failures
    <3>5. CASE control.cancelled
      BY <1>1, <2>3, <3>2, <3>3, <3>5 DEF OutcomeHonest, Statuses, Fatal
    <3>6. CASE ~control.cancelled
      <4>1. work.failure = None /\ outcome' = work.summary
        BY <1>1, <2>3, <3>1, <3>4, <3>6
      <4>2. work.summary # "Cancelled"
        BY <1>i, <3>6, <4>1 DEF Summed, None
      <4>3. OnTime
        BY <1>1, <3>1, <3>6, <4>1 DEF OnTime, Stopped
      <4>4. counts.finished + counts.failed = NumPages /\ counts.pending = 0
        BY <1>1, <1>i, <4>1 DEF Progress, Leaving, Ending
      <4>5. /\ Due = 0 /\ PageDue = 0 /\ Len(Outstanding) = 0
        BY <1>1, <2>1 DEF Due, PageDue, Sending
      <4>6. Numbered /\ Counted
        BY <1>i, <4>3 DEF LineInv
      <4>7. delivered.acknowledged = work.sequence
        BY <1>t, <4>5, <4>6, LineTypes DEF Numbered
      <4>8. delivered.pages = counts.finished
        <5>1. PICK f : Counting(f, Outstanding)
          BY <4>6 DEF Counted
        <5> QED BY <2>c, <4>5, <5>1 DEF Counting
      <4>9. (work.summary = "Completed" => counts.failed + counts.badFormulas = 0)
            /\ (work.summary = "Partial" => counts.failed + counts.badFormulas > 0)
        BY <1>i DEF Summed
      <4> QED BY <1>1, <2>c, <3>2, <3>3, <3>6, <4>1, <4>2, <4>4, <4>7, <4>8, <4>9
              DEF OutcomeHonest, Statuses, Fatal
    <3> QED BY <2>c, <3>5, <3>6
  <2> QED BY <2>2, <2>3
<1> QED BY <1>2, <1>3 DEF FinalInv

(* Once the outcome is out, nobody moves but the client.                     *)
LEMMA Settled ==
  ASSUME ChargeInv, LineAll, wpc = "finished", Next \/ UNCHANGED vars
  PROVE  UNCHANGED <<shared, worker, sourcePump, deliveryPump>>
<1>1. /\ spc \in {"off", "done"} /\ dpc \in {"off", "done"} /\ outcome # None
  BY DEF LineAll, CourseInv, Pumps, Ending
<1>2. ~Worker
  BY DEF Worker, StartJob, NextPage, StopSource, Reserve, ReserveStopped, ReserveWaits,
         Publish,
     PublishRejected, RequestPage, AwaitSleeps, AwaitEnded, TakeReply, CheckBeforeLayout,
     LayoutSucceeds, LayoutFails, PipelineBreaks, NextFormula, FormulaFinishes, FormulaAborts,
     FinishPage, Summarize, StopDelivery, Finish
<1>3. ~Source
  BY <1>1 DEF Source, SourceSleeps, SourceTakes, SourceHalts, SourceReplies
<1>4. ~Delivery
  BY <1>1 DEF Delivery, DeliveryWaits, DeliveryEnds, DeliveryCalls, DeliveryDrops,
     SinkAcknowledges, SinkFails
<1>5. ~Cancel
  BY <1>1 DEF Cancel, MayCancel
<1>6. CASE Client
  BY <1>6 DEF Client, ClientWaits, ClientReturns
<1>7. CASE UNCHANGED vars
  BY <1>7 DEF vars, others
<1> QED BY <1>2, <1>3, <1>4, <1>5, <1>6, <1>7 DEF Next, Done

LEMMA FinalNext ==
  ASSUME ChargeInv, RasterInv, LineAll, FinalInv, Next \/ UNCHANGED vars
  PROVE  FinalInv'
<1>1. CASE wpc = "finished"
  <2>1. UNCHANGED <<control, render, inputBytes, results, pendingBytes, delivered, counts, outcome,
                    work, wpc, spc, dpc>>
    BY <1>1, Settled DEF shared, updates, ending, worker, sourcePump, deliveryPump
  <2> QED BY <1>1, <2>1 DEF FinalInv, Quiescent, OutcomeHonest, Fatal
<1>2. CASE wpc # "finished" /\ wpc' = "finished"
  <2>1. Worker
    BY <1>2 DEF Next, Source, SourceSleeps, SourceTakes, SourceHalts, SourceReplies, Delivery,
       DeliveryWaits, DeliveryEnds, DeliveryCalls, DeliveryDrops, SinkAcknowledges, SinkFails,
       Client, ClientWaits, ClientReturns, Cancel, Done, vars, worker, shared
  <2>2. Finish
    <3>1. ~Publish
      BY <1>2, SeenPublish DEF ChargeInv
    <3> QED BY <1>2, <2>1, <3>1
        DEF Worker, StartJob, NextPage, StopSource, Reserve, ReserveStopped,
       ReserveWaits, PublishRejected, RequestPage, AwaitSleeps, AwaitEnded, TakeReply,
       CheckBeforeLayout, LayoutSucceeds, LayoutFails, PipelineBreaks, NextFormula,
       FormulaFinishes, FormulaAborts, FinishPage, Summarize, StopDelivery, StopWith,
          EmitFails,
       worker
  <2> QED BY <2>2, FinishHonest
<1>3. CASE wpc' # "finished"
  BY <1>3 DEF FinalInv
<1> QED BY <1>1, <1>2, <1>3

(* Every outcome ever given out is the account finish made.                  *)
THEOREM FinalInvariant == Spec => []FinalInv
<1>1. Init => FinalInv
  BY DEF Init, FinalInv
<1>2. ChargeInv /\ RasterInv /\ LineAll /\ FinalInv /\ [Next]_vars => FinalInv'
  BY FinalNext
<1> QED BY <1>1, <1>2, ChargeInvariant, RasterInvariant, LineInvariant, PTL DEF Spec

(* finish publishes an outcome when both pumps have returned and nothing is  *)
(* charged; the outcome agrees with the pages, formulas, acknowledgements    *)
(* and the cancellation; nothing that happens later changes it.  The         *)
(* hypothesis is about the renderer: one that answers "cancelled" of its own *)
(* accord makes load report a cancellation nobody asked for.                 *)
THEOREM OutcomeIsTrue ==
  ASSUME "Cancelled" \notin SourceCodes
  PROVE  Spec => OutcomeTrue
<1>1. ASSUME ChargeInv, RasterInv, LineAll, FinalInv, [Next]_vars
      PROVE  [/\ outcome # None => UNCHANGED <<shared, spc, dpc>>
              /\ outcome' # None => Quiescent' /\ OutcomeHonest']_vars
  <2>1. outcome # None => UNCHANGED <<shared, spc, dpc>>
    <3>1. outcome # None => wpc = "finished"
      BY <1>1 DEF LineAll, CourseInv, Pumps
    <3> QED BY <1>1, <3>1, Settled DEF sourcePump, deliveryPump
  <2>2. outcome' # None => Quiescent' /\ OutcomeHonest'
    <3>1. LineAll' /\ FinalInv'
      BY <1>1, LineNext, FinalNext
    <3>2. outcome' # None => wpc' = "finished"
      BY <3>1 DEF LineAll, CourseInv, Pumps
    <3> QED BY <3>1, <3>2 DEF FinalInv
  <2> QED BY <2>1, <2>2
<1> QED BY <1>1, ChargeInvariant, RasterInvariant, LineInvariant, FinalInvariant, PTL
        DEF Spec, OutcomeTrue

-----------------------------------------------------------------------------
(* The job implements its contract: every step is one of JobContract or is   *)
(* invisible to the callbacks' authors.                                      *)

(* The job as they see it.                                                   *)
Delivering == IF dpc # "sink" THEN "idle"
              ELSE IF Terminal(inflight) THEN "notice" ELSE "content"
SinkOpen == ~results.deliveryDone /\ (wpc # "queued" => dpc # "off")
Shown == <<spc = "rendering", Delivering, SinkOpen, delivered.notice, control.cancelled, Fatal,
          outcome>>

LEMMA ShownVars == Contract!contractVars = Shown
  BY DEF Contract!contractVars, Shown, Delivering, SinkOpen

LEMMA ContractBegins == ChargeInv /\ Init => Contract!ContractInit
<1> SUFFICES ASSUME ChargeInv, Init PROVE Contract!ContractInit
  OBVIOUS
<1>1. PICK all \in Scopes :
         work = [all |-> all, page |-> 0, left |-> 0, held |-> 0, sequence |-> 0,
                 emit |-> "document", failure |-> None, broken |-> FALSE, summary |-> None]
  BY DEF Init
<1> QED BY <1>1 DEF Init, Contract!ContractInit, Contract!None, None, Fatal

(* What no one may do while a notice is on its way or an outcome is out.     *)
LEMMA Visible ==
  ASSUME ChargeInv, RasterInv, LineAll
  PROVE  /\ outcome = None <=> wpc # "finished"
         /\ wpc \notin Ending => ~delivered.notice /\ Delivering # "notice"
         /\ dpc \notin {"off", "done"} => SinkOpen /\ outcome = None
         /\ dpc \in {"off", "done"} /\ wpc # "queued" => ~SinkOpen
         /\ wpc \in Ending => spc \in {"off", "done"}
         /\ render.request # 0 /\ ~control.abort => SinkOpen /\ wpc \notin Ending
<1>i. Failures /\ Pumps /\ ByteInv /\ LineInv /\ TypeOK
  BY DEF LineAll, CourseInv, ChargeInv
<1>1. wpc \notin Ending => ~Noticed
  BY <1>i DEF LineInv
<1>2. Delivering = "notice" => Noticed
  <2>1. dpc = "sink" => Outstanding[1] = inflight /\ 1 \in DOMAIN Outstanding
    BY <1>i DEF Outstanding, TypeOK, ResultQueues
  <2> QED BY <2>1 DEF Delivering, Noticed
<1>3. dpc \notin {"off", "done"} => SinkOpen /\ outcome = None
  BY <1>i DEF Pumps, SinkOpen
<1>4. dpc \in {"off", "done"} /\ wpc # "queued" => ~SinkOpen
  BY <1>i DEF Pumps, SinkOpen
<1>5. render.request # 0 => dpc # "off" /\ wpc \in {"await", "stop"}
  BY <1>i DEF Pumps, RasterInv, MailInv, RenderOnce
<1>6. dpc = "done" /\ ~control.abort => wpc \in Ending
  BY <1>i DEF Pumps, Ending
<1> QED BY <1>i, <1>1, <1>2, <1>3, <1>4, <1>5, <1>6 DEF Pumps, Noticed, Ending

LEMMA ContractWorker ==
  ASSUME ChargeInv, RasterInv, LineAll, FinalInv, FinalInv', TypeOK', Worker,
         "Cancelled" \notin SourceCodes
  PROVE  Contract!ContractNext \/ Shown' = Shown
<1>t. TypeOK
  BY DEF ChargeInv
<1>i. Failures /\ Pumps
  BY DEF LineAll, CourseInv
<1>c. /\ work.emit \in Kinds /\ work.broken \in BOOLEAN /\ work.failure \in Codes \cup {None}
      /\ control.deliveryError \in {None, "Delivery", "LimitExceeded"}
  BY <1>t, <1>i DEF TypeOK, Works, Failures
<1>v. /\ outcome = None <=> wpc # "finished"
      /\ wpc \notin Ending => ~delivered.notice /\ Delivering # "notice"
  BY Visible
<1>d. ~Finish => delivered' = delivered
  BY DEF Worker, StartJob, NextPage, StopSource, Reserve, ReserveStopped, ReserveWaits,
         Publish,
     PublishRejected, RequestPage, AwaitSleeps, AwaitEnded, TakeReply, CheckBeforeLayout,
     LayoutSucceeds, LayoutFails, PipelineBreaks, NextFormula, FormulaFinishes, FormulaAborts,
     FinishPage, Summarize, StopDelivery, shared, updates
<1> DEFINE Calm == /\ Fatal' = Fatal /\ spc' = spc /\ dpc' = dpc /\ inflight' = inflight
                   /\ outcome' = outcome /\ results'.deliveryDone = results.deliveryDone
                   /\ control'.cancelled = control.cancelled /\ wpc # "queued"
                   /\ wpc' # "queued"
<1>q. ASSUME Calm, ~Finish PROVE Shown' = Shown
  BY <1>d, <1>q DEF Shown, Delivering, SinkOpen, Terminal
<1>a. ASSUME \/ NextPage \/ StopSource \/ Reserve \/ ReserveStopped \/ ReserveWaits \/ Publish
             \/ PublishRejected \/ RequestPage \/ AwaitSleeps \/ AwaitEnded \/ TakeReply
             \/ CheckBeforeLayout \/ LayoutSucceeds \/ NextFormula \/ FormulaFinishes \/ FinishPage
             \/ Summarize \/ StopDelivery
      PROVE Calm
  <2> USE <1>t, <1>i, <1>c
      DEF Fatal, Failures, Paging, SamePumps, FailsWith, StopReason, EmitStop, LoadStop,
        None
  <2>1. CASE NextPage
    BY <2>1, SeenNextPage
  <2>2. CASE StopSource
    BY <2>2, SeenStopSource
  <2>3. CASE Reserve
    BY <2>3, SeenReserve
  <2>4. CASE ReserveStopped
    BY <2>4, SeenReserveStopped
  <2>5. CASE ReserveWaits
    BY <2>5, SeenReserveWaits
  <2>6. CASE Publish
    BY <2>6, SeenPublish
  <2>7. CASE PublishRejected
    BY <2>7, SeenPublishRejected
  <2>8. CASE RequestPage
    BY <2>8, SeenRequestPage
  <2>9. CASE AwaitSleeps
    BY <2>9, SeenAwaitSleeps
  <2>10. CASE AwaitEnded
    BY <2>10, SeenAwaitEnded
  <2>11. CASE TakeReply
    BY <2>11, SeenTakeReply
  <2>12. CASE CheckBeforeLayout
    BY <2>12, SeenCheckBeforeLayout
  <2>13. CASE LayoutSucceeds
    BY <2>13, SeenLayoutSucceeds
  <2>14. CASE NextFormula
    BY <2>14, SeenNextFormula
  <2>15. CASE FormulaFinishes
    BY <2>15, SeenFormulaFinishes
  <2>16. CASE FinishPage
    BY <2>16, SeenFinishPage
  <2>17. CASE Summarize
    BY <2>17, SeenSummarize
  <2>18. CASE StopDelivery
    BY <2>18, SeenStopDelivery
  <2> QED BY <1>a, <2>1, <2>2, <2>3, <2>4, <2>5, <2>6, <2>7, <2>8, <2>9, <2>10, <2>11, <2>12,
        <2>13, <2>14, <2>15, <2>16, <2>17, <2>18
<1>1. CASE LayoutFails
  <2>1. /\ spc' = spc /\ dpc' = dpc /\ inflight' = inflight /\ outcome' = outcome
        /\ results'.deliveryDone = results.deliveryDone
        /\ control'.cancelled = control.cancelled
        /\ wpc # "queued" /\ wpc' # "queued" /\ wpc \notin Ending /\ wpc # "finished"
    BY <1>t, <1>c, <1>1, SeenLayoutFails DEF SamePumps, Ending
  <2>2. delivered' = delivered
    BY <1>1 DEF LayoutFails, shared, updates
  <2>3. Fatal => Fatal'
    BY <1>t, <1>i, <1>c, <1>1, SeenLayoutFails DEF Fatal, Failures, Paging, None
  <2>4. CASE Fatal'
    BY <1>v, <2>1, <2>2, <2>4 DEF Contract!ContractNext, Contract!Break, Contract!None, None,
       Delivering, Terminal
  <2>5. CASE ~Fatal'
    BY <2>1, <2>2, <2>3, <2>5 DEF Shown, Delivering, SinkOpen, Terminal, Fatal
  <2> QED BY <2>4, <2>5
<1>2. CASE PipelineBreaks
  <2>1. /\ spc' = spc /\ dpc' = dpc /\ inflight' = inflight /\ outcome' = outcome
        /\ results'.deliveryDone = results.deliveryDone
        /\ control'.cancelled = control.cancelled
        /\ wpc # "queued" /\ wpc' # "queued" /\ wpc \notin Ending /\ wpc # "finished"
    BY <1>t, <1>c, <1>2, SeenPipelineBreaks DEF SamePumps, Ending
  <2>2. delivered' = delivered
    BY <1>2 DEF PipelineBreaks, shared, updates
  <2>3. Fatal => Fatal'
    BY <1>t, <1>i, <1>c, <1>2, SeenPipelineBreaks DEF Fatal, Failures, Paging, None
  <2>4. CASE Fatal'
    BY <1>v, <2>1, <2>2, <2>4 DEF Contract!ContractNext, Contract!Break, Contract!None, None,
       Delivering, Terminal
  <2>5. CASE ~Fatal'
    BY <2>1, <2>2, <2>3, <2>5 DEF Shown, Delivering, SinkOpen, Terminal, Fatal
  <2> QED BY <2>4, <2>5
<1>3. CASE FormulaAborts
  <2>1. /\ spc' = spc /\ dpc' = dpc /\ inflight' = inflight /\ outcome' = outcome
        /\ results'.deliveryDone = results.deliveryDone
        /\ control'.cancelled = control.cancelled
        /\ wpc # "queued" /\ wpc' # "queued" /\ wpc \notin Ending /\ wpc # "finished"
    BY <1>t, <1>c, <1>3, SeenFormulaAborts DEF SamePumps, Ending
  <2>2. delivered' = delivered
    BY <1>3 DEF FormulaAborts, shared, updates
  <2>3. Fatal => Fatal'
    BY <1>t, <1>i, <1>c, <1>3, SeenFormulaAborts DEF Fatal, Failures, Paging, None
  <2>4. CASE Fatal'
    BY <1>v, <2>1, <2>2, <2>4 DEF Contract!ContractNext, Contract!Break, Contract!None, None,
       Delivering, Terminal
  <2>5. CASE ~Fatal'
    BY <2>1, <2>2, <2>3, <2>5 DEF Shown, Delivering, SinkOpen, Terminal, Fatal
  <2> QED BY <2>4, <2>5
<1>4. CASE StartJob
  <2>1. /\ wpc = "queued" /\ wpc' # "queued" /\ dpc' \in {"off", "head"} /\ spc' # "rendering"
        /\ results' = results /\ outcome' = outcome /\ control'.cancelled = control.cancelled
    BY <1>t, <1>4, SeenStartJob
  <2>2. delivered' = delivered /\ dpc = "off" /\ spc = "off" /\ inflight' = inflight
    BY <1>4 DEF StartJob, updates, ChargeInv
  <2>3. ~Fatal /\ SinkOpen /\ Delivering = "idle" /\ Delivering' = "idle" /\ outcome = None
        /\ ~delivered.notice
    BY <1>i, <1>c, <1>v, <2>1, <2>2
       DEF Fatal, Failures, Paging, SinkOpen, Delivering, Pumps, Ending, None
  <2>4. CASE Fatal'
    <3>1. SinkOpen = TRUE /\ (SinkOpen' = TRUE \/ SinkOpen' = FALSE)
      BY <2>3 DEF SinkOpen
    <3>2. SinkOpen' \in {SinkOpen} \cup {open \in {FALSE} : Delivering = "idle"}
      BY <2>3, <3>1
    <3>3. Contract!Break
      BY <2>1, <2>2, <2>3, <2>4, <3>2
      DEF Contract!Break, Contract!None, None, Delivering, SinkOpen
    <3> QED BY <3>3 DEF Contract!ContractNext
  <2>5. CASE ~Fatal' /\ SinkOpen'
    <3>1. Fatal' = Fatal /\ SinkOpen' = SinkOpen
      BY <2>3, <2>5 DEF Fatal, SinkOpen
    <3> QED BY <2>1, <2>2, <2>3, <3>1 DEF Shown
  <2>6. CASE ~Fatal' /\ ~SinkOpen'
    <3>1. Fatal' = Fatal /\ SinkOpen' = FALSE
      BY <2>3, <2>6 DEF Fatal, SinkOpen
    <3>2. Contract!CloseSink
      BY <2>1, <2>2, <2>3, <3>1 DEF Contract!CloseSink, Delivering, SinkOpen
    <3> QED BY <3>2 DEF Contract!ContractNext
  <2> QED BY <2>4, <2>5, <2>6
<1>5. CASE Finish
  <2>1. /\ wpc = "joinDelivery" /\ wpc' = "finished" /\ work' = work /\ control' = control
        /\ results'.deliveryDone = results.deliveryDone /\ dpc \in {"off", "done"}
        /\ spc' = spc /\ dpc' = dpc
    BY <1>t, <1>5, SeenFinish
  <2>2. delivered' = delivered /\ inflight' = inflight
    BY <1>5 DEF Finish, others, deliveryPump
  <2>3. outcome = None /\ spc \in {"off", "done"} /\ ~SinkOpen
    BY <1>v, <2>1, Visible DEF Ending
  <2>4. OutcomeHonest'
    BY <2>1 DEF FinalInv
  <2>5. outcome' \in Statuses
    <3>1. outcome' # None
      BY <1>t, <1>5, <2>1, SeenFinish DEF LineAll, CourseInv, Summed, Ending, None
    <3> QED BY <3>1 DEF TypeOK
  <2>6. Fatal' = Fatal /\ SinkOpen' = SinkOpen /\ Delivering' = Delivering
    BY <2>1, <2>2 DEF Fatal, SinkOpen, Delivering, Terminal
  <2>7. \/ outcome' = "Failed"
        \/ delivered.notice /\ ~Fatal /\ control.cancelled /\ outcome' = "Cancelled"
        \/ delivered.notice /\ ~Fatal /\ ~control.cancelled /\ outcome' \in {"Completed", "Partial"}
    BY <2>1, <2>2, <2>4, <2>5, <2>6 DEF OutcomeHonest, Statuses
  <2> QED BY <2>1, <2>2, <2>3, <2>6, <2>7
      DEF Contract!ContractNext, Contract!End, Contract!None, None,
     SinkOpen, Delivering
<1> QED BY <1>a, <1>q, <1>1, <1>2, <1>3, <1>4, <1>5 DEF Worker

LEMMA ContractSource ==
  ASSUME ChargeInv, RasterInv, LineAll, Source
  PROVE  Contract!ContractNext \/ Shown' = Shown
<1> USE DEF shared, updates, ending, worker, others, sourcePump, deliveryPump
<1>1. /\ wpc' = wpc /\ work' = work /\ results' = results /\ delivered' = delivered
      /\ control' = control /\ outcome' = outcome /\ dpc' = dpc /\ inflight' = inflight
  BY DEF Source, SourceSleeps, SourceTakes, SourceHalts, SourceReplies
<1>2. /\ Fatal' = Fatal /\ SinkOpen' = SinkOpen /\ Delivering' = Delivering
  BY <1>1 DEF Fatal, SinkOpen, Delivering, Terminal
<1>3. CASE SourceTakes
  <2>1. /\ spc = "idle" /\ spc' = "rendering" /\ render.request # 0 /\ ~control.abort
        /\ ~control.cancelled
    BY <1>3 DEF SourceTakes, Halting
  <2>2. /\ SinkOpen /\ ~delivered.notice /\ Delivering # "notice" /\ outcome = None
    BY <2>1, Visible DEF Ending
  <2> QED BY <1>1, <1>2, <2>1, <2>2
      DEF Contract!ContractNext, Contract!BeginRender, Contract!None, None,
     SinkOpen, Delivering
<1>4. CASE (SourceHalts \/ SourceReplies) /\ spc = "rendering"
  <2>1. spc' # "rendering"
    BY <1>4 DEF SourceHalts, SourceReplies
  <2> QED BY <1>1, <1>2, <1>4, <2>1
      DEF Contract!ContractNext, Contract!EndRender, SinkOpen, Delivering
<1>5. CASE SourceSleeps \/ (SourceHalts /\ spc # "rendering")
  <2>1. (spc = "rendering") = (spc' = "rendering")
    BY <1>5 DEF SourceSleeps, SourceHalts
  <2> QED BY <1>1, <1>2, <2>1 DEF Shown
<1> QED BY <1>3, <1>4, <1>5 DEF Source, SourceReplies

LEMMA ContractDelivery ==
  ASSUME ChargeInv, RasterInv, LineAll, Delivery
  PROVE  Contract!ContractNext \/ Shown' = Shown
<1> USE DEF shared, updates, ending, worker, others, sourcePump, deliveryPump
<1>t. TypeOK /\ LineInv /\ ByteInv
  BY DEF ChargeInv, LineAll
<1>o. Outstanding \in Seq(Updates)
  BY <1>t, OutTypes
<1>1. wpc' = wpc /\ work' = work /\ spc' = spc /\ outcome' = outcome /\ Fatal' = Fatal
  BY DEF Delivery, DeliveryWaits, DeliveryEnds, DeliveryCalls, DeliveryDrops, SinkAcknowledges,
         SinkFails, Fatal
<1>2. dpc \notin {"off", "done"} /\ SinkOpen /\ outcome = None
  <2>1. dpc \notin {"off", "done"}
    BY DEF Delivery, DeliveryWaits, DeliveryEnds, DeliveryCalls, DeliveryDrops,
           SinkAcknowledges,
           SinkFails
  <2> QED BY <2>1, Visible
<1>3. CASE DeliveryWaits \/ DeliveryDrops
  <2>1. /\ delivered' = delivered /\ control' = control /\ dpc # "sink"
        /\ dpc' \notin {"sink", "off"}
        /\ results'.deliveryDone = results.deliveryDone
    BY <1>3, <1>t DEF DeliveryWaits, DeliveryDrops, Discard, TypeOK, ResultQueues
  <2> QED BY <1>1, <1>2, <2>1 DEF Shown, Delivering, SinkOpen
<1>4. CASE DeliveryEnds
  <2>1. /\ delivered' = delivered /\ control' = control /\ dpc # "sink" /\ dpc' = "done"
        /\ results'.deliveryDone
    BY <1>4, <1>t DEF DeliveryEnds, TypeOK, ResultQueues
  <2>2. ~SinkOpen' /\ Delivering = "idle" /\ Delivering' = "idle"
    BY <2>1 DEF SinkOpen, Delivering
  <2> QED BY <1>1, <1>2, <2>1, <2>2
      DEF Contract!ContractNext, Contract!CloseSink, SinkOpen, Delivering
<1>5. CASE DeliveryCalls
  <2>1. /\ delivered' = delivered /\ control' = control /\ dpc \in {"head", "wait"}
        /\ dpc' = "sink"
        /\ results'.deliveryDone = results.deliveryDone /\ inflight' = Head(Backlog)
        /\ Backlog # <<>> /\ MayDeliver(Head(Backlog))
    BY <1>5, <1>t DEF DeliveryCalls, Discard, TypeOK, ResultQueues
  <2>2. /\ Outstanding = results.queue
        /\ Outstanding # <<>> /\ \E i \in DOMAIN Outstanding : Head(Backlog) = Outstanding[i]
    <3>1. Outstanding = results.queue
      BY <1>t, <1>o, <2>1, RetainedNotice
    <3>2. CASE Discarding
      <4>1. /\ Len(Outstanding) \in 1 .. Len(Outstanding)
            /\ Backlog = <<Outstanding[Len(Outstanding)]>>
        BY <1>t, <1>o, <2>1, <3>2, RetainedNotice DEF Backlog
      <4>2. Outstanding # <<>>
        BY <2>1, <3>1, <3>2 DEF Backlog, Retained
      <4> QED BY <1>o, <3>1, <4>1, <4>2
    <3>3. CASE ~Discarding
      <4>1. Backlog = Outstanding
        BY <3>1, <3>3 DEF Backlog
      <4> QED BY <1>o, <2>1, <3>1, <4>1, HeadTailProperties, EmptySeq
    <3> QED BY <3>2, <3>3
  <2>3. ~delivered.notice
    BY <1>t, <2>2 DEF LineInv, DeliveryOrder
  <2>4. Terminal(Head(Backlog)) => spc # "rendering"
    <3>1. Terminal(Head(Backlog)) => Noticed
      BY <2>2 DEF Noticed
    <3> QED BY <1>t, <3>1, Visible DEF LineInv
  <2>5. control.cancelled => Terminal(Head(Backlog))
    BY <2>1 DEF MayDeliver
  <2>6. /\ SinkOpen' = SinkOpen /\ Delivering = "idle"
        /\ Delivering' = IF Terminal(Head(Backlog)) THEN "notice" ELSE "content"
    BY <1>1, <2>1 DEF SinkOpen, Delivering, Terminal
  <2>7. CASE Terminal(Head(Backlog))
    BY <1>1, <1>2, <2>1, <2>3, <2>4, <2>6, <2>7
    DEF Contract!ContractNext, Contract!BeginNotice, Contract!None, None, SinkOpen, Delivering
  <2>8. CASE ~Terminal(Head(Backlog))
    BY <1>1, <1>2, <2>1, <2>3, <2>5, <2>6, <2>8
    DEF Contract!ContractNext, Contract!BeginContent, Contract!None, None, SinkOpen, Delivering
  <2> QED BY <2>7, <2>8
<1>n. dpc = "sink" => ~delivered.notice
  <2>1. dpc = "sink" => Outstanding # <<>>
    BY <1>t DEF Outstanding, TypeOK, ResultQueues
  <2> QED BY <1>t, <2>1 DEF LineInv, DeliveryOrder
<1>6. CASE SinkAcknowledges
  <2>1. /\ dpc = "sink" /\ dpc' = "head" /\ control' = control
        /\ results'.deliveryDone = results.deliveryDone
        /\ delivered'.notice = (delivered.notice \/ Terminal(inflight))
    BY <1>6, <1>t DEF SinkAcknowledges, TypeOK, ResultQueues, Deliveries
  <2>2. SinkOpen' = SinkOpen /\ Delivering' = "idle" /\ Delivering # "idle"
        /\ delivered'.notice = (Delivering = "notice")
    BY <1>1, <1>n, <2>1 DEF SinkOpen, Delivering
  <2> QED BY <1>1, <2>1, <2>2 DEF Contract!ContractNext, Contract!SinkAccepts, SinkOpen,
                                  Delivering
<1>7. CASE SinkFails
  <2>1. /\ dpc = "sink" /\ dpc' = "done" /\ control'.cancelled = control.cancelled
        /\ results'.deliveryDone /\ delivered' = delivered
    BY <1>7, <1>t DEF SinkFails, TypeOK, ResultQueues, Controls
  <2>2. ~SinkOpen' /\ Delivering' = "idle" /\ Delivering # "idle"
    BY <2>1 DEF SinkOpen, Delivering
  <2> QED BY <1>1, <2>1, <2>2 DEF Contract!ContractNext, Contract!SinkRefuses, SinkOpen,
                                  Delivering
<1> QED BY <1>3, <1>4, <1>5, <1>6, <1>7 DEF Delivery

(* Whoever moves.                                                            *)
LEMMA ContractStep ==
  ASSUME ChargeInv, RasterInv, LineAll, FinalInv, Next \/ UNCHANGED vars,
         "Cancelled" \notin SourceCodes
  PROVE  Contract!ContractNext \/ Shown' = Shown
<1> USE DEF shared, updates, ending, worker, others, sourcePump, deliveryPump
<1>1. CASE Worker
  <2>1. FinalInv' /\ TypeOK'
    BY <1>1, ChargeWorker, FinalNext DEF ChargeInv
  <2> QED BY <1>1, <2>1, ContractWorker
<1>2. CASE Cancel
  <2>1. /\ control'.cancelled /\ outcome = None
    BY <1>2 DEF Cancel, MayCancel, ChargeInv, TypeOK, Controls
  <2> QED BY <1>2, <2>1 DEF Cancel, Contract!ContractNext, Contract!RequestCancel,
                            Contract!None, None, Fatal
<1>3. CASE Client \/ UNCHANGED vars
  BY <1>3 DEF Client, ClientWaits, ClientReturns, vars, Shown, Delivering, SinkOpen, Terminal,
              Fatal
<1> QED BY <1>1, <1>2, <1>3, ContractSource, ContractDelivery DEF Next, Done

(* Every behaviour of the worker, both pumps and the client, for every limit *)
(* and every number of pages, is one JobContract allows: callbacks never     *)
(* overlap where it forbids them to, a cancellation or a dead sink silences  *)
(* them, and the outcome is no better than what the sink and the client saw. *)
THEOREM ContractKept ==
  ASSUME "Cancelled" \notin SourceCodes
  PROVE  Spec => KeepsContract
<1>1. ChargeInv /\ RasterInv /\ LineAll /\ FinalInv /\ [Next]_vars
        => [Contract!ContractNext]_Contract!contractVars
  BY ContractStep, ShownVars DEF Shown, Contract!contractVars, Delivering, SinkOpen
<1> QED BY <1>1, ContractBegins, ChargeInvariant, RasterInvariant, LineInvariant,
      FinalInvariant, PTL
        DEF Spec, KeepsContract, Contract!ContractSpec

=============================================================================
