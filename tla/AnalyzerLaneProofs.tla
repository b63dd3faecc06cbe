------------------------- MODULE AnalyzerLaneProofs -------------------------
(* Theorems about AnalyzerLane, for every number of jobs and closers, every  *)
(* queue limit and every set of loader codes the module admits.              *)
EXTENDS AnalyzerLane, TLAPS, SequenceTheorems, FiniteSetTheorems

-----------------------------------------------------------------------------
(* The inductive invariant.                                                  *)

Failures == {None, "Backend", "WorkerFailed", "Delivery"}
Errors == Failures \cup {"SourceChanged", "Cancelled", "PageSource", "InvalidInput",
                         "InvalidResult"}
JobStates == [kind : Kinds \cup {None}, phase : {"new", "refused", "queued", "running", "ended"},
              cancelled : BOOLEAN, called : BOOLEAN, sealed : BOOLEAN,
              status : Statuses \cup {None}]
Runs == [prior : Failures, error : Errors, result : Statuses \cup {None, "Recognized", "Rejected"},
         fatal : Failures, predicted : BOOLEAN]

Shapes == TypeOK /\ job \in [Jobs -> JobStates] /\ run \in Runs

(* The queue holds every accepted, unstarted job once, within its limit.     *)
NoRepeats(q) == \A i, k \in DOMAIN q : q[i] = q[k] => i = k
Queueing ==
    /\ Len(queue) <= QueuedLimit /\ NoRepeats(queue)
    /\ \A j \in Jobs : job[j].phase = "queued" <=> j \in Queued

(* The job that runs is the active one, and the worker is where its kind     *)
(* puts it.                                                                  *)
OneRuns ==
    /\ \A j \in Jobs : /\ job[j].phase = "running" => j = active
                       /\ job[j].phase \in {"queued", "running"} => job[j].kind \in Kinds
    /\ active # None => job[active].phase = IF wpc = "settle" THEN "ended" ELSE "running"
    /\ wpc \in {"document", "documentEnd"} => job[active].kind = "document"

(* One closer joins at a time, the others find the handle taken, and a       *)
(* worker that is gone left nothing behind.                                  *)
ClosersWait ==
    /\ wpc = "exited" => closed /\ queue = <<>>
    /\ handleTaken => wpc = "exited" \/ \E c \in Closers : closer[c] = "joining"
    /\ \A c \in Closers : closer[c] = "returned" /\ c \notin inside => wpc = "exited"

(* What the job's run knows of the lane, and of the job itself.              *)
RunKnows ==
    /\ active # None => run.prior = failure
    /\ wpc \in {"load", "predict"} => run.prior = None /\ job[active].called
    /\ wpc = "drain" => /\ run.prior # None => run.error = run.prior
                        /\ run.result = "Recognized" => job[active].called
                        /\ run.result \in {None, "Recognized", "Rejected"}
    /\ wpc = "formula" => run.result = None /\ run.error = None
    /\ wpc \in {"document", "formula", "load", "predict"} => run.fatal = None
    /\ wpc = "load" => run.result = None
    /\ wpc = "documentEnd" =>
           /\ run.result \in Statuses /\ job[active].sealed
           /\ job[active].cancelled => run.result \in {"Cancelled", "Failed"}
           /\ run.prior # None => run.result = "Failed"

(* A model that failed has been held against the lane, or is about to be.    *)
FailureKnown ==
    /\ failure # None => closed
    /\ modelFailed => \/ failure # None
                      \/ wpc \in {"documentEnd", "drain", "settle"} /\ run.fatal # None

Honest == \A j \in Jobs : StatusHonest(j)

LaneInv ==
    /\ Shapes /\ Queueing /\ OneRuns /\ ClosedMeansCancelled /\ ClosersWait
    /\ RunKnows /\ FailureKnown /\ Honest

LEMMA LaneInit == Init => LaneInv
<1> SUFFICES ASSUME Init PROVE LaneInv
  OBVIOUS
<1>1. Shapes
  <2>1. job \in [Jobs -> JobStates]
    BY DEF Init, JobStates, Kinds, Statuses
  <2>2. run \in Runs
    BY DEF Init, NoRun, Runs, Failures, Errors
  <2>3. \A j \in Jobs : job[j].phase = "new" /\ job[j].status = None
    BY DEF Init
  <2>4. queue \in Seq(Jobs) BY DEF Init
  <2>5. TypeOK
    BY <2>3, <2>4 DEF Init, TypeOK, Positions
  <2> QED BY <2>1, <2>2, <2>5 DEF Shapes
<1>2. queue = <<>> /\ Queued = {} BY DEF Init, Queued
<1>3. Queueing BY <1>2, LaneAssumption DEF Init, Queueing, NoRepeats
<1>4. OneRuns BY DEF Init, OneRuns
<1>5. ClosedMeansCancelled /\ ClosersWait /\ RunKnows /\ FailureKnown
  BY DEF Init, ClosedMeansCancelled, ClosersWait, RunKnows, FailureKnown
<1>6. Honest BY DEF Init, Honest, StatusHonest, None
<1> QED BY <1>1, <1>3, <1>4, <1>5, <1>6 DEF LaneInv

-----------------------------------------------------------------------------
(* The queue.                                                                *)

LEMMA Enqueued ==
  ASSUME queue \in Seq(Jobs), NoRepeats(queue), NEW j \in Jobs, j \notin Queued,
         queue' = Append(queue, j)
  PROVE  /\ queue' \in Seq(Jobs) /\ Len(queue') = Len(queue) + 1 /\ NoRepeats(queue')
         /\ Queued' = Queued \cup {j}
<1>1. /\ queue' \in Seq(Jobs) /\ Len(queue') = Len(queue) + 1 /\ Len(queue) \in Nat
      /\ DOMAIN queue = 1 .. Len(queue) /\ DOMAIN queue' = 1 .. Len(queue) + 1
      /\ \A i \in 1 .. Len(queue) : queue'[i] = queue[i]
      /\ queue'[Len(queue) + 1] = j
  OBVIOUS
<1>2. \A i \in 1 .. Len(queue) : queue[i] # j
  BY <1>1 DEF Queued
<1>3. NoRepeats(queue')
  BY <1>1, <1>2 DEF NoRepeats
<1>4. Queued' = Queued \cup {j}
  BY <1>1 DEF Queued
<1> QED BY <1>1, <1>3, <1>4

LEMMA Dequeued ==
  ASSUME queue \in Seq(Jobs), NoRepeats(queue), queue # <<>>, queue' = Tail(queue)
  PROVE  /\ queue' \in Seq(Jobs) /\ Len(queue') = Len(queue) - 1 /\ NoRepeats(queue')
         /\ Head(queue) \in Jobs /\ Head(queue) \in Queued /\ Queued' = Queued \ {Head(queue)}
<1>1. /\ queue' \in Seq(Jobs) /\ Len(queue') = Len(queue) - 1 /\ Len(queue) \in Nat \ {0}
      /\ DOMAIN queue = 1 .. Len(queue) /\ DOMAIN queue' = 1 .. Len(queue) - 1
      /\ \A i \in 1 .. Len(queue) - 1 : queue'[i] = queue[i + 1]
      /\ Head(queue) = queue[1] /\ queue[1] \in Jobs
  OBVIOUS
<1>2. NoRepeats(queue')
  BY <1>1 DEF NoRepeats
<1>3. Head(queue) \in Queued
  BY <1>1 DEF Queued
<1>4. Queued' = Queued \ {Head(queue)}
  <2>1. ASSUME NEW x \in Queued' PROVE x \in Queued /\ x # Head(queue)
    <3>1. PICK i \in 1 .. Len(queue) - 1 : x = queue[i + 1]
      BY <1>1, <2>1 DEF Queued
    <3>2. i + 1 \in 1 .. Len(queue) /\ i + 1 # 1 BY <1>1
    <3> QED BY <1>1, <3>1, <3>2 DEF Queued, NoRepeats
  <2>2. ASSUME NEW x \in Queued, x # Head(queue) PROVE x \in Queued'
    <3>1. PICK i \in 1 .. Len(queue) : x = queue[i]
      BY <1>1, <2>2 DEF Queued
    <3>2. i - 1 \in 1 .. Len(queue) - 1 /\ (i - 1) + 1 = i
      BY <1>1, <2>2, <3>1
    <3>3. queue'[i - 1] = x BY <1>1, <3>1, <3>2
    <3> QED BY <1>1, <3>2, <3>3 DEF Queued
  <2> QED BY <2>1, <2>2
<1> QED BY <1>1, <1>2, <1>3, <1>4

(* A queue without repetitions has as many jobs as places.                   *)
LEMMA EachOnce ==
  ASSUME queue \in Seq(Jobs), NoRepeats(queue)
  PROVE  Cardinality(Queued) = Len(queue)
<1>1. /\ Len(queue) \in Nat /\ DOMAIN queue = 1 .. Len(queue)
      /\ queue = [i \in 1 .. Len(queue) |-> queue[i]]
  OBVIOUS
<1>2. queue \in [1 .. Len(queue) -> Queued]
  BY <1>1 DEF Queued
<1>3. queue \in Bijection(1 .. Len(queue), Queued)
  BY <1>1, <1>2 DEF Queued, NoRepeats, Bijection, Injection, Surjection, IsInjective
<1>4. ExistsBijection(1 .. Len(queue), Queued)
  BY <1>3 DEF ExistsBijection
<1>5. IsFiniteSet(1 .. Len(queue)) /\ Cardinality(1 .. Len(queue)) = Len(queue)
  <2>1. 1 \in Int /\ Len(queue) \in Int BY <1>1
  <2>2. /\ IsFiniteSet(1 .. Len(queue))
        /\ Cardinality(1 .. Len(queue)) = IF 1 > Len(queue) THEN 0 ELSE Len(queue) - 1 + 1
    BY <2>1, FS_Interval
  <2> QED BY <1>1, <2>2
<1> QED BY <1>4, <1>5, FS_Bijection

-----------------------------------------------------------------------------
(* The jobs.                                                                 *)

(* A cancellation touches nothing but the mark, and only of a job that still *)
(* listens.                                                                  *)
Listens(x) == x.phase \in {"queued", "running"} /\ ~x.sealed

LEMMA CancellingMarks ==
  ASSUME NEW f \in [Jobs -> JobStates], NEW js, NEW g, g = Cancelling(f, js)
  PROVE  /\ g \in [Jobs -> JobStates]
         /\ \A j \in Jobs : /\ g[j].kind = f[j].kind /\ g[j].phase = f[j].phase
                            /\ g[j].called = f[j].called /\ g[j].sealed = f[j].sealed
                            /\ g[j].status = f[j].status
                            /\ g[j].cancelled <=> f[j].cancelled \/ (j \in js /\ Listens(f[j]))
                            /\ ~Listens(f[j]) => g[j] = f[j]
<1> SUFFICES ASSUME NEW j \in Jobs
             PROVE  /\ g[j] \in JobStates
                    /\ g[j].kind = f[j].kind /\ g[j].phase = f[j].phase
                    /\ g[j].called = f[j].called /\ g[j].sealed = f[j].sealed
                    /\ g[j].status = f[j].status
                    /\ g[j].cancelled <=> f[j].cancelled \/ (j \in js /\ Listens(f[j]))
                    /\ ~Listens(f[j]) => g[j] = f[j]
  BY DEF Cancelling
<1>1. f[j] \in JobStates OBVIOUS
<1>2. CASE j \in js /\ Listens(f[j])
  <2>1. g[j] = [f[j] EXCEPT !.cancelled = TRUE] BY <1>2 DEF Cancelling, Listens
  <2> QED BY <1>1, <1>2, <2>1 DEF JobStates
<1>3. CASE ~(j \in js /\ Listens(f[j]))
  <2>1. g[j] = f[j] BY <1>3 DEF Cancelling, Listens
  <2> QED BY <1>1, <1>3, <2>1
<1> QED BY <1>2, <1>3

LEMMA JobSet ==
  ASSUME job \in [Jobs -> JobStates], NEW j \in Jobs, NEW r \in JobStates,
         job' = [job EXCEPT ![j] = r]
  PROVE  /\ job' \in [Jobs -> JobStates] /\ job'[j] = r
         /\ \A k \in Jobs : k # j => job'[k] = job[k]
  OBVIOUS

-----------------------------------------------------------------------------
(* The steps.                                                                *)

LEMMA ParkStep ==
  ASSUME LaneInv, Park
  PROVE  LaneInv'
<1>0. /\ Shapes /\ Queueing /\ OneRuns /\ ClosedMeansCancelled /\ ClosersWait
      /\ RunKnows /\ FailureKnown /\ Honest
  BY DEF LaneInv
<1>t. /\ TypeOK /\ job \in [Jobs -> JobStates] /\ run \in Runs
  BY <1>0 DEF Shapes
<1>v. /\ wpc = "pop" /\ parked' = TRUE
      /\ UNCHANGED <<closed, failure, queue, active, job, wpc, run, modelFailed, handleTaken,
                     closer, inside>>
  BY DEF Park, laneState, closing
<1>1. Shapes'
  BY <1>0, <1>t, <1>v, LaneAssumption DEF Shapes, TypeOK
<1>2. Queueing'
  BY <1>0, <1>t, <1>v, LaneAssumption DEF Queueing, Queued
<1>3. OneRuns'
  BY <1>0, <1>t, <1>v, LaneAssumption DEF OneRuns, TypeOK
<1>4. ClosedMeansCancelled'
  BY <1>0, <1>t, <1>v, LaneAssumption DEF ClosedMeansCancelled, OneRuns
<1>5. ClosersWait'
  BY <1>0, <1>t, <1>v, LaneAssumption DEF ClosersWait
<1>6. RunKnows'
  BY <1>0, <1>t, <1>v, LaneAssumption DEF RunKnows
<1>7. FailureKnown'
  BY <1>0, <1>t, <1>v, LaneAssumption DEF FailureKnown, RunKnows
<1>8. Honest'
  BY <1>0, <1>t, <1>v, LaneAssumption DEF Honest, StatusHonest
<1> QED BY <1>1, <1>2, <1>3, <1>4, <1>5, <1>6, <1>7, <1>8 DEF LaneInv

LEMMA ExitStep ==
  ASSUME LaneInv, Exit
  PROVE  LaneInv'
<1>0. /\ Shapes /\ Queueing /\ OneRuns /\ ClosedMeansCancelled /\ ClosersWait
      /\ RunKnows /\ FailureKnown /\ Honest
  BY DEF LaneInv
<1>t. /\ TypeOK /\ job \in [Jobs -> JobStates] /\ run \in Runs
  BY <1>0 DEF Shapes
<1>v. /\ wpc = "pop" /\ queue = <<>> /\ closed /\ wpc' = "exited"
      /\ UNCHANGED <<closed, failure, queue, active, parked, job, run, modelFailed, handleTaken,
                     closer, inside>>
  BY DEF Exit, laneState, closing
<1>1. Shapes'
  BY <1>0, <1>t, <1>v, LaneAssumption DEF Shapes, TypeOK, Positions
<1>2. Queueing'
  BY <1>0, <1>t, <1>v, LaneAssumption DEF Queueing, Queued
<1>3. OneRuns'
  BY <1>0, <1>t, <1>v, LaneAssumption DEF OneRuns, TypeOK
<1>4. ClosedMeansCancelled'
  BY <1>0, <1>t, <1>v, LaneAssumption DEF ClosedMeansCancelled, OneRuns
<1>5. ClosersWait'
  BY <1>0, <1>t, <1>v, LaneAssumption DEF ClosersWait
<1>6. RunKnows'
  BY <1>0, <1>t, <1>v, LaneAssumption DEF RunKnows
<1>7. FailureKnown'
  BY <1>0, <1>t, <1>v, LaneAssumption DEF FailureKnown, RunKnows
<1>8. Honest'
  BY <1>0, <1>t, <1>v, LaneAssumption DEF Honest, StatusHonest
<1> QED BY <1>1, <1>2, <1>3, <1>4, <1>5, <1>6, <1>7, <1>8 DEF LaneInv

LEMMA TakeHandleStep ==
  ASSUME LaneInv, NEW c \in Closers, TakeHandle(c)
  PROVE  LaneInv'
<1>0. /\ Shapes /\ Queueing /\ OneRuns /\ ClosedMeansCancelled /\ ClosersWait
      /\ RunKnows /\ FailureKnown /\ Honest
  BY DEF LaneInv
<1>t. /\ TypeOK /\ job \in [Jobs -> JobStates] /\ run \in Runs
  BY <1>0 DEF Shapes
<1>v. /\ closer[c] = "asked" /\ \A d \in Closers : closer[d] # "joining"
      /\ UNCHANGED <<closed, failure, queue, active, parked, job, wpc, run, modelFailed, inside>>
      /\ handleTaken'
      /\ closer' \in [Closers -> {"idle", "asked", "joining", "returned"}]
      /\ closer'[c] = IF handleTaken THEN "returned" ELSE "joining"
      /\ \A d \in Closers : d # c => closer'[d] = closer[d]
  BY <1>t DEF TakeHandle, laneState, TypeOK
<1>w. handleTaken' \in BOOLEAN
  BY DEF TakeHandle
<1>1. Shapes'
  BY <1>0, <1>t, <1>v, <1>w, LaneAssumption DEF Shapes, TypeOK
<1>2. Queueing'
  BY <1>0, <1>t, <1>v, <1>w, LaneAssumption DEF Queueing, Queued
<1>3. OneRuns'
  BY <1>0, <1>t, <1>v, <1>w, LaneAssumption DEF OneRuns
<1>4. ClosedMeansCancelled'
  BY <1>0, <1>t, <1>v, <1>w, LaneAssumption DEF ClosedMeansCancelled, OneRuns
<1>5. ClosersWait'
  BY <1>0, <1>t, <1>v, <1>w, LaneAssumption DEF ClosersWait
<1>6. RunKnows'
  BY <1>0, <1>t, <1>v, <1>w, LaneAssumption DEF RunKnows
<1>7. FailureKnown'
  BY <1>0, <1>t, <1>v, <1>w, LaneAssumption DEF FailureKnown, RunKnows
<1>8. Honest'
  BY <1>0, <1>t, <1>v, <1>w, LaneAssumption DEF Honest, StatusHonest
<1> QED BY <1>1, <1>2, <1>3, <1>4, <1>5, <1>6, <1>7, <1>8 DEF LaneInv

LEMMA JoinedStep ==
  ASSUME LaneInv, NEW c \in Closers, Joined(c)
  PROVE  LaneInv'
<1>0. /\ Shapes /\ Queueing /\ OneRuns /\ ClosedMeansCancelled /\ ClosersWait
      /\ RunKnows /\ FailureKnown /\ Honest
  BY DEF LaneInv
<1>t. /\ TypeOK /\ job \in [Jobs -> JobStates] /\ run \in Runs
  BY <1>0 DEF Shapes
<1>v. /\ closer[c] = "joining" /\ wpc = "exited"
      /\ UNCHANGED <<closed, failure, queue, active, parked, job, wpc, run, modelFailed,
                     handleTaken, inside>>
      /\ closer' \in [Closers -> {"idle", "asked", "joining", "returned"}]
      /\ \A d \in Closers : d # c => closer'[d] = closer[d]
  BY <1>t DEF Joined, laneState, TypeOK
<1>1. Shapes'
  BY <1>0, <1>t, <1>v, LaneAssumption DEF Shapes, TypeOK
<1>2. Queueing'
  BY <1>0, <1>t, <1>v, LaneAssumption DEF Queueing, Queued
<1>3. OneRuns'
  BY <1>0, <1>t, <1>v, LaneAssumption DEF OneRuns, TypeOK
<1>4. ClosedMeansCancelled'
  BY <1>0, <1>t, <1>v, LaneAssumption DEF ClosedMeansCancelled, OneRuns
<1>5. ClosersWait'
  BY <1>0, <1>t, <1>v, LaneAssumption DEF ClosersWait
<1>6. RunKnows'
  BY <1>0, <1>t, <1>v, LaneAssumption DEF RunKnows
<1>7. FailureKnown'
  BY <1>0, <1>t, <1>v, LaneAssumption DEF FailureKnown, RunKnows
<1>8. Honest'
  BY <1>0, <1>t, <1>v, LaneAssumption DEF Honest, StatusHonest
<1> QED BY <1>1, <1>2, <1>3, <1>4, <1>5, <1>6, <1>7, <1>8 DEF LaneInv

LEMMA CancelStep ==
  ASSUME LaneInv, NEW k \in Jobs, Cancel(k)
  PROVE  LaneInv'
<1>0. /\ Shapes /\ Queueing /\ OneRuns /\ ClosedMeansCancelled /\ ClosersWait
      /\ RunKnows /\ FailureKnown /\ Honest
  BY DEF LaneInv
<1>t. /\ TypeOK /\ job \in [Jobs -> JobStates] /\ run \in Runs
  BY <1>0 DEF Shapes
<1>v. /\ UNCHANGED <<closed, failure, queue, active, parked, wpc, run, modelFailed, handleTaken,
                     closer, inside>>
      /\ job' \in [Jobs -> JobStates]
      /\ \A j \in Jobs : /\ job'[j].kind = job[j].kind /\ job'[j].phase = job[j].phase
                         /\ job'[j].called = job[j].called /\ job'[j].sealed = job[j].sealed
                         /\ job'[j].status = job[j].status
                         /\ job[j].cancelled => job'[j].cancelled
                         /\ ~Listens(job[j]) => job'[j] = job[j]
  BY <1>t, CancellingMarks DEF Cancel, laneState, closing
<1>1. Shapes'
  BY <1>0, <1>t, <1>v, LaneAssumption DEF Shapes, TypeOK
<1>2. Queueing'
  BY <1>0, <1>t, <1>v, LaneAssumption DEF Queueing, Queued
<1>3. OneRuns'
  BY <1>0, <1>t, <1>v, LaneAssumption DEF OneRuns, TypeOK
<1>4. ClosedMeansCancelled'
  BY <1>0, <1>t, <1>v, LaneAssumption DEF ClosedMeansCancelled, OneRuns
<1>5. ClosersWait'
  BY <1>0, <1>t, <1>v, LaneAssumption DEF ClosersWait
<1>6. RunKnows'
  BY <1>0, <1>t, <1>v, LaneAssumption DEF RunKnows, OneRuns, TypeOK, Listens
<1>7. FailureKnown'
  BY <1>0, <1>t, <1>v, LaneAssumption DEF FailureKnown, RunKnows
<1>8. Honest'
  BY <1>0, <1>t, <1>v, LaneAssumption DEF Honest, StatusHonest, Listens
<1> QED BY <1>1, <1>2, <1>3, <1>4, <1>5, <1>6, <1>7, <1>8 DEF LaneInv

(* A close cancels every accepted job that still listens.                    *)
LEMMA CloseCancels ==
  ASSUME LaneInv, RequestClose
  PROVE  /\ closed' /\ parked' = FALSE /\ UNCHANGED <<failure, queue, active>>
         /\ job' \in [Jobs -> JobStates]
         /\ \A j \in Jobs : /\ job'[j].kind = job[j].kind /\ job'[j].phase = job[j].phase
                            /\ job'[j].called = job[j].called /\ job'[j].sealed = job[j].sealed
                            /\ job'[j].status = job[j].status
                            /\ job[j].cancelled => job'[j].cancelled
                            /\ ~Listens(job[j]) => job'[j] = job[j]
                            /\ Listens(job[j]) => job'[j].cancelled
<1>1. job \in [Jobs -> JobStates] /\ Queueing /\ OneRuns /\ active \in Jobs \cup {None}
  BY DEF LaneInv, Shapes, TypeOK
<1>2. /\ job' \in [Jobs -> JobStates]
      /\ \A j \in Jobs :
            LET js == Queued \cup (IF active = None THEN {} ELSE {active})
            IN  /\ job'[j].kind = job[j].kind /\ job'[j].phase = job[j].phase
                /\ job'[j].called = job[j].called /\ job'[j].sealed = job[j].sealed
                /\ job'[j].status = job[j].status
                /\ job'[j].cancelled <=> job[j].cancelled \/ (j \in js /\ Listens(job[j]))
                /\ ~Listens(job[j]) => job'[j] = job[j]
  BY <1>1, CancellingMarks DEF RequestClose
<1>3. ASSUME NEW j \in Jobs, Listens(job[j])
      PROVE  j \in Queued \cup (IF active = None THEN {} ELSE {active})
  BY <1>1, <1>3, LaneAssumption DEF Listens, Queueing, OneRuns
<1> QED BY <1>2, <1>3 DEF RequestClose, Wake

LEMMA CloseOutsideStep ==
  ASSUME LaneInv, NEW c \in Closers, CloseOutside(c)
  PROVE  LaneInv'
<1>0. /\ Shapes /\ Queueing /\ OneRuns /\ ClosedMeansCancelled /\ ClosersWait
      /\ RunKnows /\ FailureKnown /\ Honest
  BY DEF LaneInv
<1>t. /\ TypeOK /\ job \in [Jobs -> JobStates] /\ run \in Runs
  BY <1>0 DEF Shapes
<1>v. /\ UNCHANGED <<failure, queue, active, wpc, run, modelFailed, handleTaken>>
      /\ parked' = FALSE /\ closed' = TRUE /\ job' \in [Jobs -> JobStates]
      /\ \A j \in Jobs : /\ job'[j].kind = job[j].kind /\ job'[j].phase = job[j].phase
                         /\ job'[j].called = job[j].called /\ job'[j].sealed = job[j].sealed
                         /\ job'[j].status = job[j].status
                         /\ job[j].cancelled => job'[j].cancelled
                         /\ ~Listens(job[j]) => job'[j] = job[j]
                         /\ Listens(job[j]) => job'[j].cancelled
  BY CloseCancels DEF CloseOutside, RequestClose
<1>w. /\ closer[c] = "idle" /\ closer' \in [Closers -> {"idle", "asked", "joining", "returned"}]
      /\ \A d \in Closers : d # c => closer'[d] = closer[d]
      /\ closer'[c] = "asked" /\ inside' = inside
  BY <1>t DEF CloseOutside, TypeOK
<1>1. Shapes'
  BY <1>0, <1>t, <1>v, <1>w, LaneAssumption DEF Shapes, TypeOK, RequestClose
<1>2. Queueing'
  BY <1>0, <1>t, <1>v, <1>w, LaneAssumption DEF Queueing, Queued
<1>3. OneRuns'
  BY <1>0, <1>t, <1>v, <1>w, LaneAssumption DEF OneRuns, TypeOK
<1>4. ClosedMeansCancelled'
  BY <1>0, <1>t, <1>v, <1>w, LaneAssumption DEF ClosedMeansCancelled, OneRuns, Listens
<1>5. ClosersWait'
  BY <1>0, <1>t, <1>v, <1>w, LaneAssumption DEF ClosersWait
<1>6. RunKnows'
  BY <1>0, <1>t, <1>v, <1>w, LaneAssumption DEF RunKnows, OneRuns, TypeOK, Listens
<1>7. FailureKnown'
  BY <1>0, <1>t, <1>v, <1>w, LaneAssumption DEF FailureKnown, RunKnows
<1>8. Honest'
  BY <1>0, <1>t, <1>v, <1>w, LaneAssumption DEF Honest, StatusHonest, Listens
<1> QED BY <1>1, <1>2, <1>3, <1>4, <1>5, <1>6, <1>7, <1>8 DEF LaneInv

LEMMA CloseInsideStep ==
  ASSUME LaneInv, NEW c \in Closers, CloseInside(c)
  PROVE  LaneInv'
<1>0. /\ Shapes /\ Queueing /\ OneRuns /\ ClosedMeansCancelled /\ ClosersWait
      /\ RunKnows /\ FailureKnown /\ Honest
  BY DEF LaneInv
<1>t. /\ TypeOK /\ job \in [Jobs -> JobStates] /\ run \in Runs
  BY <1>0 DEF Shapes
<1>v. /\ UNCHANGED <<failure, queue, active, wpc, run, modelFailed, handleTaken>>
      /\ parked' = FALSE /\ closed' = TRUE /\ job' \in [Jobs -> JobStates]
      /\ \A j \in Jobs : /\ job'[j].kind = job[j].kind /\ job'[j].phase = job[j].phase
                         /\ job'[j].called = job[j].called /\ job'[j].sealed = job[j].sealed
                         /\ job'[j].status = job[j].status
                         /\ job[j].cancelled => job'[j].cancelled
                         /\ ~Listens(job[j]) => job'[j] = job[j]
                         /\ Listens(job[j]) => job'[j].cancelled
  BY CloseCancels DEF CloseInside, RequestClose
<1>w. /\ closer[c] = "idle" /\ closer' \in [Closers -> {"idle", "asked", "joining", "returned"}]
      /\ \A d \in Closers : d # c => closer'[d] = closer[d]
      /\ c \in inside' /\ inside \subseteq inside' /\ inside' \subseteq Closers
  BY <1>t DEF CloseInside, TypeOK
<1>1. Shapes'
  BY <1>0, <1>t, <1>v, <1>w, LaneAssumption DEF Shapes, TypeOK, RequestClose
<1>2. Queueing'
  BY <1>0, <1>t, <1>v, <1>w, LaneAssumption DEF Queueing, Queued
<1>3. OneRuns'
  BY <1>0, <1>t, <1>v, <1>w, LaneAssumption DEF OneRuns, TypeOK
<1>4. ClosedMeansCancelled'
  BY <1>0, <1>t, <1>v, <1>w, LaneAssumption DEF ClosedMeansCancelled, OneRuns, Listens
<1>5. ClosersWait'
  BY <1>0, <1>t, <1>v, <1>w, LaneAssumption DEF ClosersWait
<1>6. RunKnows'
  BY <1>0, <1>t, <1>v, <1>w, LaneAssumption DEF RunKnows, OneRuns, TypeOK, Listens
<1>7. FailureKnown'
  BY <1>0, <1>t, <1>v, <1>w, LaneAssumption DEF FailureKnown, RunKnows
<1>8. Honest'
  BY <1>0, <1>t, <1>v, <1>w, LaneAssumption DEF Honest, StatusHonest, Listens
<1> QED BY <1>1, <1>2, <1>3, <1>4, <1>5, <1>6, <1>7, <1>8 DEF LaneInv

LEMMA SubmitStep ==
  ASSUME LaneInv, NEW k \in Jobs, NEW kind \in Kinds, Submit(k, kind)
  PROVE  LaneInv'
<1>0. /\ Shapes /\ Queueing /\ OneRuns /\ ClosedMeansCancelled /\ ClosersWait
      /\ RunKnows /\ FailureKnown /\ Honest
  BY DEF LaneInv
<1>t. /\ TypeOK /\ job \in [Jobs -> JobStates] /\ run \in Runs
  BY <1>0 DEF Shapes
<1>n. job[k].phase = "new" /\ job[k] \in JobStates
  BY <1>t DEF Submit
<1>a. CASE closed \/ ~HasSlot
  <2> DEFINE r == [job[k] EXCEPT !.kind = kind, !.phase = "refused"]
  <2>r. /\ r \in JobStates /\ r.kind = kind /\ r.phase = "refused" /\ r.called = job[k].called
        /\ r.cancelled = job[k].cancelled /\ r.sealed = job[k].sealed /\ r.status = job[k].status
    BY <1>n DEF JobStates
  <2>s. job' = [job EXCEPT ![k] = r]
    BY <1>t, <1>a DEF Submit
  <2> HIDE DEF r
  <2>v. /\ job' \in [Jobs -> JobStates] /\ job'[k] = r /\ \A j \in Jobs : j # k => job'[j] = job[j]
        /\ UNCHANGED <<closed, failure, queue, active, parked, wpc, run, modelFailed, handleTaken,
                       closer, inside>>
    BY <1>t, <1>a, <2>r, <2>s, JobSet DEF Submit, laneState, closing
  <2>1. Shapes'
    BY <1>0, <1>t, <1>n, <1>a, <2>r, <2>v, LaneAssumption DEF Shapes, TypeOK
  <2>2. Queueing'
    BY <1>0, <1>t, <1>n, <1>a, <2>r, <2>v, LaneAssumption DEF Queueing, Queued, TypeOK
  <2>3. OneRuns'
    BY <1>0, <1>t, <1>n, <1>a, <2>r, <2>v, LaneAssumption DEF OneRuns, TypeOK
  <2>4. ClosedMeansCancelled'
    BY <1>0, <1>t, <1>n, <1>a, <2>r, <2>v, LaneAssumption DEF ClosedMeansCancelled, OneRuns
  <2>5. ClosersWait'
    BY <1>0, <1>t, <1>n, <1>a, <2>r, <2>v, LaneAssumption DEF ClosersWait
  <2>6. RunKnows'
    BY <1>0, <1>t, <1>n, <1>a, <2>r, <2>v, LaneAssumption DEF RunKnows, OneRuns, TypeOK
  <2>7. FailureKnown'
    BY <1>0, <1>t, <1>n, <1>a, <2>r, <2>v, LaneAssumption DEF FailureKnown, RunKnows
  <2>8. Honest'
    BY <1>0, <1>t, <1>n, <1>a, <2>r, <2>v, LaneAssumption DEF Honest, StatusHonest, None
  <2> QED BY <2>1, <2>2, <2>3, <2>4, <2>5, <2>6, <2>7, <2>8 DEF LaneInv
<1>b. CASE ~closed /\ HasSlot
  <2> DEFINE r == [job[k] EXCEPT !.kind = kind, !.phase = "queued"]
  <2>r. /\ r \in JobStates /\ r.kind = kind /\ r.phase = "queued" /\ r.called = job[k].called
        /\ r.cancelled = job[k].cancelled /\ r.sealed = job[k].sealed /\ r.status = job[k].status
    BY <1>n DEF JobStates
  <2>s. job' = [job EXCEPT ![k] = r]
    BY <1>t, <1>b DEF Submit
  <2> HIDE DEF r
  <2>v. /\ job' \in [Jobs -> JobStates] /\ job'[k] = r /\ \A j \in Jobs : j # k => job'[j] = job[j]
        /\ UNCHANGED <<closed, failure, active, wpc, run, modelFailed, handleTaken, closer, inside>>
        /\ parked' = FALSE /\ wpc # "exited"
    BY <1>0, <1>t, <1>b, <2>r, <2>s, JobSet DEF Submit, Wake, laneState, closing, ClosersWait
  <2>q. /\ queue' \in Seq(Jobs) /\ Len(queue') <= QueuedLimit /\ NoRepeats(queue')
        /\ Queued' = Queued \cup {k}
    <3>1. k \notin Queued BY <1>0, <1>n DEF Queueing
    <3>2. queue' = Append(queue, k) BY <1>b DEF Submit
    <3>3. Len(queue) < QueuedLimit /\ Len(queue) \in Nat BY <1>t, <1>b DEF HasSlot, TypeOK
    <3> QED BY <1>0, <1>t, <3>1, <3>2, <3>3, Enqueued, LaneAssumption DEF Queueing, TypeOK
  <2>1. Shapes'
    BY <1>0, <1>t, <1>n, <1>b, <2>r, <2>v, <2>q, LaneAssumption DEF Shapes, TypeOK
  <2>2. Queueing'
    BY <1>0, <1>n, <2>r, <2>v, <2>q DEF Queueing
  <2>3. OneRuns'
    BY <1>0, <1>t, <1>n, <1>b, <2>r, <2>v, <2>q, LaneAssumption DEF OneRuns, TypeOK
  <2>4. ClosedMeansCancelled'
    BY <1>0, <1>t, <1>n, <1>b, <2>r, <2>v, <2>q, LaneAssumption DEF ClosedMeansCancelled,
       OneRuns
  <2>5. ClosersWait'
    BY <1>0, <1>t, <1>n, <1>b, <2>r, <2>v, <2>q, LaneAssumption DEF ClosersWait
  <2>6. RunKnows'
    BY <1>0, <1>t, <1>n, <1>b, <2>r, <2>v, <2>q, LaneAssumption DEF RunKnows, OneRuns, TypeOK
  <2>7. FailureKnown'
    BY <1>0, <1>t, <1>n, <1>b, <2>r, <2>v, <2>q, LaneAssumption DEF FailureKnown, RunKnows
  <2>8. Honest'
    BY <1>0, <1>t, <1>n, <1>b, <2>r, <2>v, <2>q, LaneAssumption DEF Honest, StatusHonest, None
  <2> QED BY <2>1, <2>2, <2>3, <2>4, <2>5, <2>6, <2>7, <2>8 DEF LaneInv
<1> QED BY <1>a, <1>b

LEMMA PopStep ==
  ASSUME LaneInv, Pop
  PROVE  LaneInv'
<1>0. /\ Shapes /\ Queueing /\ OneRuns /\ ClosedMeansCancelled /\ ClosersWait
      /\ RunKnows /\ FailureKnown /\ Honest
  BY DEF LaneInv
<1>t. /\ TypeOK /\ job \in [Jobs -> JobStates] /\ run \in Runs
  BY <1>0 DEF Shapes
<1>q. /\ queue' \in Seq(Jobs) /\ Len(queue') <= QueuedLimit /\ NoRepeats(queue')
      /\ Head(queue) \in Jobs /\ Head(queue) \in Queued /\ Queued' = Queued \ {Head(queue)}
  <2>1. queue \in Seq(Jobs) /\ queue # <<>> /\ queue' = Tail(queue) /\ NoRepeats(queue)
        /\ Len(queue) <= QueuedLimit
    BY <1>0, <1>t DEF Pop, TypeOK, Queueing
  <2>2. Len(queue) \in Nat BY <2>1
  <2> QED BY <2>1, <2>2, Dequeued, LaneAssumption
<1> DEFINE h == Head(queue)
           r == [job[h] EXCEPT !.phase = "running"]
<1>n. h \in Jobs /\ job[h] \in JobStates /\ job[h].phase = "queued" /\ job[h].kind \in Kinds
  BY <1>0, <1>t, <1>q DEF Queueing, OneRuns
<1>r. /\ r \in JobStates /\ r.kind = job[h].kind /\ r.phase = "running" /\ r.called = job[h].called
      /\ r.cancelled = job[h].cancelled /\ r.sealed = job[h].sealed /\ r.status = job[h].status
  BY <1>n DEF JobStates
<1>s. job' = [job EXCEPT ![h] = r]
  BY <1>t DEF Pop
<1>u. /\ run' \in Runs /\ run'.prior = failure /\ run'.error = None /\ run'.result = None
      /\ run'.fatal = None
  BY <1>t DEF Pop, NoRun, Runs, Failures, Errors, TypeOK
<1>w. /\ wpc = "pop" /\ active = None /\ active' = h /\ wpc' = job[h].kind
      /\ UNCHANGED <<closed, failure, parked, modelFailed, handleTaken, closer, inside>>
  BY <1>t DEF Pop, closing, TypeOK
<1>k. wpc' \in {"document", "formula"} /\ h # None
  BY <1>n, <1>w, LaneAssumption DEF Kinds
<1> HIDE DEF r, h
<1>v. job' \in [Jobs -> JobStates] /\ job'[h] = r /\ \A j \in Jobs : j # h => job'[j] = job[j]
  BY <1>t, <1>n, <1>r, <1>s, JobSet
<1>1. Shapes'
  BY <1>0, <1>t, <1>q, <1>n, <1>r, <1>u, <1>w, <1>k, <1>v, LaneAssumption DEF Shapes, TypeOK,
     Positions
<1>2. Queueing'
  BY <1>0, <1>q, <1>n, <1>r, <1>v DEF Queueing, h
<1>3. OneRuns'
  BY <1>0, <1>t, <1>q, <1>n, <1>r, <1>u, <1>w, <1>k, <1>v, LaneAssumption DEF OneRuns
<1>4. ClosedMeansCancelled'
  BY <1>0, <1>t, <1>q, <1>n, <1>r, <1>u, <1>w, <1>k, <1>v, LaneAssumption DEF
     ClosedMeansCancelled, OneRuns
<1>5. ClosersWait'
  BY <1>0, <1>t, <1>q, <1>n, <1>r, <1>u, <1>w, <1>k, <1>v, LaneAssumption DEF ClosersWait
<1>6. RunKnows'
  BY <1>0, <1>t, <1>q, <1>n, <1>r, <1>u, <1>w, <1>k, <1>v, LaneAssumption DEF RunKnows,
     OneRuns, None
<1>7. FailureKnown'
  BY <1>0, <1>t, <1>q, <1>n, <1>r, <1>u, <1>w, <1>k, <1>v, LaneAssumption DEF FailureKnown,
     RunKnows
<1>8. Honest'
  BY <1>0, <1>t, <1>q, <1>n, <1>r, <1>u, <1>w, <1>k, <1>v, LaneAssumption DEF Honest,
     StatusHonest, None
<1> QED BY <1>1, <1>2, <1>3, <1>4, <1>5, <1>6, <1>7, <1>8 DEF LaneInv

LEMMA StartFormulaCalls ==
  ASSUME LaneInv, StartFormula, run.prior = None, ~job[active].cancelled
  PROVE  LaneInv'
<1>0. /\ Shapes /\ Queueing /\ OneRuns /\ ClosedMeansCancelled /\ ClosersWait
      /\ RunKnows /\ FailureKnown /\ Honest
  BY DEF LaneInv
<1>t. /\ TypeOK /\ job \in [Jobs -> JobStates] /\ run \in Runs
  BY <1>0 DEF Shapes
<1>m. /\ active \in Jobs /\ job[active] \in JobStates /\ job[active].phase = "running"
      /\ run.prior = failure
  BY <1>0, <1>t DEF StartFormula, TypeOK, OneRuns, RunKnows
<1> DEFINE a == active
<1>x. a \in Jobs /\ a # None /\ active = a /\ \A j \in Jobs : job[j].phase = "running" => j = a
  BY <1>0, <1>m, LaneAssumption DEF OneRuns
<1> HIDE DEF a
<1> DEFINE r == [job[a] EXCEPT !.called = TRUE]
<1>r. /\ r \in JobStates
      /\ r.kind = job[a].kind /\ r.phase = job[a].phase /\ r.called /\ r.sealed = job[a].sealed
      /\ r.cancelled = job[a].cancelled /\ r.status = job[a].status
  BY <1>m, <1>x DEF JobStates, Statuses
<1>s. job' = [job EXCEPT ![a] = r]
  BY <1>t, <1>m, <1>x DEF StartFormula
<1> HIDE DEF r
<1>v. job' \in [Jobs -> JobStates] /\ job'[a] = r /\ \A j \in Jobs : j # a => job'[j] = job[j]
  BY <1>t, <1>x, <1>r, <1>s, JobSet
<1>w. /\ wpc = "formula" /\ wpc' = "load"
      /\ UNCHANGED <<closed, failure, queue, active, parked, run, modelFailed, handleTaken, closer,
                     inside>>
  BY DEF StartFormula, laneState, closing
<1>1. Shapes'
  BY <1>0, <1>t, <1>m, <1>x, <1>r, <1>v, <1>w, LaneAssumption DEF Shapes, TypeOK, Positions
<1>2. Queueing'
  BY <1>0, <1>t, <1>m, <1>x, <1>r, <1>v, <1>w, LaneAssumption DEF Queueing, Queued
<1>3. OneRuns'
  BY <1>0, <1>t, <1>m, <1>x, <1>r, <1>v, <1>w, LaneAssumption DEF OneRuns
<1>4. ClosedMeansCancelled'
  BY <1>0, <1>t, <1>m, <1>x, <1>r, <1>v, <1>w, LaneAssumption DEF ClosedMeansCancelled, OneRuns
<1>5. ClosersWait'
  BY <1>0, <1>t, <1>m, <1>x, <1>r, <1>v, <1>w, LaneAssumption DEF ClosersWait
<1>6. RunKnows'
  BY <1>0, <1>t, <1>m, <1>x, <1>r, <1>v, <1>w, LaneAssumption DEF RunKnows, OneRuns, None
<1>7. FailureKnown'
  BY <1>0, <1>t, <1>m, <1>x, <1>r, <1>v, <1>w, LaneAssumption DEF FailureKnown, RunKnows
<1>8. Honest'
  BY <1>0, <1>t, <1>m, <1>x, <1>r, <1>v, <1>w, LaneAssumption DEF Honest, StatusHonest, None
<1> QED BY <1>1, <1>2, <1>3, <1>4, <1>5, <1>6, <1>7, <1>8 DEF LaneInv

LEMMA StartFormulaSkips ==
  ASSUME LaneInv, StartFormula, ~(run.prior = None /\ ~job[active].cancelled)
  PROVE  LaneInv'
<1>0. /\ Shapes /\ Queueing /\ OneRuns /\ ClosedMeansCancelled /\ ClosersWait
      /\ RunKnows /\ FailureKnown /\ Honest
  BY DEF LaneInv
<1>t. /\ TypeOK /\ job \in [Jobs -> JobStates] /\ run \in Runs
  BY <1>0 DEF Shapes
<1>m. /\ active \in Jobs /\ job[active] \in JobStates /\ job[active].phase = "running"
      /\ run.prior = failure
  BY <1>0, <1>t DEF StartFormula, TypeOK, OneRuns, RunKnows
<1> DEFINE a == active
<1>x. a \in Jobs /\ a # None /\ active = a /\ \A j \in Jobs : job[j].phase = "running" => j = a
  BY <1>0, <1>m, LaneAssumption DEF OneRuns
<1> HIDE DEF a
<1>w. /\ wpc = "formula" /\ wpc' = "drain"
      /\ UNCHANGED <<closed, failure, queue, active, parked, job, modelFailed, handleTaken, closer,
                     inside>>
  BY DEF StartFormula, laneState, closing
<1>r. /\ run' \in Runs /\ run'.prior = run.prior /\ run'.error = run.prior
      /\ run'.result = run.result /\ run'.fatal = run.fatal
  BY <1>t DEF StartFormula, Runs, Failures, Errors
<1>1. Shapes'
  BY <1>0, <1>t, <1>m, <1>x, <1>r, <1>w, LaneAssumption DEF Shapes, TypeOK, Positions
<1>2. Queueing'
  BY <1>0, <1>t, <1>m, <1>x, <1>r, <1>w, LaneAssumption DEF Queueing, Queued
<1>3. OneRuns'
  BY <1>0, <1>t, <1>m, <1>x, <1>r, <1>w, LaneAssumption DEF OneRuns
<1>4. ClosedMeansCancelled'
  BY <1>0, <1>t, <1>m, <1>x, <1>r, <1>w, LaneAssumption DEF ClosedMeansCancelled, OneRuns
<1>5. ClosersWait'
  BY <1>0, <1>t, <1>m, <1>x, <1>r, <1>w, LaneAssumption DEF ClosersWait
<1>6. RunKnows'
  BY <1>0, <1>t, <1>m, <1>x, <1>r, <1>w, LaneAssumption DEF RunKnows, OneRuns, None
<1>7. FailureKnown'
  BY <1>0, <1>t, <1>m, <1>x, <1>r, <1>w, LaneAssumption DEF FailureKnown, RunKnows
<1>8. Honest'
  BY <1>0, <1>t, <1>m, <1>x, <1>r, <1>w, LaneAssumption DEF Honest, StatusHonest, None
<1> QED BY <1>1, <1>2, <1>3, <1>4, <1>5, <1>6, <1>7, <1>8 DEF LaneInv

LEMMA RenderDocumentStep ==
  ASSUME LaneInv, RenderDocument
  PROVE  LaneInv'
<1>0. /\ Shapes /\ Queueing /\ OneRuns /\ ClosedMeansCancelled /\ ClosersWait
      /\ RunKnows /\ FailureKnown /\ Honest
  BY DEF LaneInv
<1>t. /\ TypeOK /\ job \in [Jobs -> JobStates] /\ run \in Runs
  BY <1>0 DEF Shapes
<1>m. /\ active \in Jobs /\ job[active] \in JobStates /\ job[active].phase = "running"
      /\ run.prior = failure
  BY <1>0, <1>t DEF RenderDocument, TypeOK, OneRuns, RunKnows
<1> DEFINE a == active
<1>x. a \in Jobs /\ a # None /\ active = a /\ \A j \in Jobs : job[j].phase = "running" => j = a
  BY <1>0, <1>m, LaneAssumption DEF OneRuns
<1> HIDE DEF a
<1> DEFINE r == [job[a] EXCEPT !.called = TRUE]
<1>r. /\ r \in JobStates
      /\ r.kind = job[a].kind /\ r.phase = job[a].phase /\ r.called /\ r.sealed = job[a].sealed
      /\ r.cancelled = job[a].cancelled /\ r.status = job[a].status
  BY <1>m, <1>x DEF JobStates, Statuses
<1>s. job' = [job EXCEPT ![a] = r]
  BY <1>t, <1>m, <1>x DEF RenderDocument
<1> HIDE DEF r
<1>v. job' \in [Jobs -> JobStates] /\ job'[a] = r /\ \A j \in Jobs : j # a => job'[j] = job[j]
  BY <1>t, <1>x, <1>r, <1>s, JobSet
<1>w. /\ wpc = "document" /\ run.prior = None
      /\ UNCHANGED <<closed, failure, queue, active, parked, wpc, run, modelFailed, handleTaken,
                     closer, inside>>
  BY DEF RenderDocument, laneState, closing
<1>1. Shapes'
  BY <1>0, <1>t, <1>m, <1>x, <1>r, <1>v, <1>w, LaneAssumption DEF Shapes, TypeOK, Positions
<1>2. Queueing'
  BY <1>0, <1>t, <1>m, <1>x, <1>r, <1>v, <1>w, LaneAssumption DEF Queueing, Queued
<1>3. OneRuns'
  BY <1>0, <1>t, <1>m, <1>x, <1>r, <1>v, <1>w, LaneAssumption DEF OneRuns
<1>4. ClosedMeansCancelled'
  BY <1>0, <1>t, <1>m, <1>x, <1>r, <1>v, <1>w, LaneAssumption DEF ClosedMeansCancelled, OneRuns
<1>5. ClosersWait'
  BY <1>0, <1>t, <1>m, <1>x, <1>r, <1>v, <1>w, LaneAssumption DEF ClosersWait
<1>6. RunKnows'
  BY <1>0, <1>t, <1>m, <1>x, <1>r, <1>v, <1>w, LaneAssumption DEF RunKnows, OneRuns, None
<1>7. FailureKnown'
  BY <1>0, <1>t, <1>m, <1>x, <1>r, <1>v, <1>w, LaneAssumption DEF FailureKnown, RunKnows
<1>8. Honest'
  BY <1>0, <1>t, <1>m, <1>x, <1>r, <1>v, <1>w, LaneAssumption DEF Honest, StatusHonest, None
<1> QED BY <1>1, <1>2, <1>3, <1>4, <1>5, <1>6, <1>7, <1>8 DEF LaneInv

LEMMA LoaderReturnsStep ==
  ASSUME LaneInv, LoaderReturns
  PROVE  LaneInv'
<1>0. /\ Shapes /\ Queueing /\ OneRuns /\ ClosedMeansCancelled /\ ClosersWait
      /\ RunKnows /\ FailureKnown /\ Honest
  BY DEF LaneInv
<1>t. /\ TypeOK /\ job \in [Jobs -> JobStates] /\ run \in Runs
  BY <1>0 DEF Shapes
<1>m. /\ active \in Jobs /\ job[active] \in JobStates /\ job[active].phase = "running"
      /\ run.prior = failure
  BY <1>0, <1>t DEF LoaderReturns, TypeOK, OneRuns, RunKnows
<1> DEFINE a == active
<1>x. a \in Jobs /\ a # None /\ active = a /\ \A j \in Jobs : job[j].phase = "running" => j = a
  BY <1>0, <1>m, LaneAssumption DEF OneRuns
<1> HIDE DEF a
<1>h. run.prior = None /\ failure = None /\ ~modelFailed /\ run.result = None /\ run.fatal = None
      /\ job[a].called
  BY <1>0, <1>m, <1>x DEF LoaderReturns, RunKnows, FailureKnown
<1>w. /\ wpc = "load"
      /\ UNCHANGED <<closed, failure, queue, active, parked, job, modelFailed, handleTaken, closer,
                     inside>>
  BY DEF LoaderReturns, laneState, closing
<1>r. /\ run' \in Runs /\ run'.prior = None /\ run'.result = None
      /\ \/ wpc' = "predict" /\ run'.fatal = None
         \/ wpc' = "drain"
  <2>1. PICK answer \in {"raster", "InvalidInput", "PageSource"} \cup LoaderCodes :
           LET late == job[active].cancelled /\ answer \in {"raster", "InvalidInput"}
               error == IF late THEN "Cancelled" ELSE answer
           IN  IF ~late /\ answer = "raster"
               THEN wpc' = "predict" /\ run' = [run EXCEPT !.predicted = TRUE]
               ELSE /\ wpc' = "drain"
                    /\ run' = [run EXCEPT !.error = error,
                                          !.fatal = FormulaFatal(error, modelFailed)]
    BY DEF LoaderReturns
  <2>2. CASE wpc' = "predict" /\ run' = [run EXCEPT !.predicted = TRUE]
    BY <1>t, <1>h, <2>2 DEF Runs
  <2>3. ASSUME NEW error \in Errors,
               wpc' = "drain", run' = [run EXCEPT !.error = error,
                                                  !.fatal = FormulaFatal(error, modelFailed)]
        PROVE  /\ run' \in Runs /\ run'.prior = None /\ run'.result = None /\ wpc' = "drain"
    <3>1. FormulaFatal(error, modelFailed) \in Failures
      BY <1>h DEF FormulaFatal, FatalFormulaCodes, Failures
    <3> QED BY <1>t, <1>h, <2>3, <3>1 DEF Runs
  <2>4. answer # "raster" \/ job[active].cancelled
           => (IF job[active].cancelled /\ answer \in {"raster", "InvalidInput"}
               THEN "Cancelled" ELSE answer) \in Errors
    BY LaneAssumption DEF Errors, Failures
  <2> QED BY <2>1, <2>2, <2>3, <2>4
<1>1. Shapes'
  BY <1>0, <1>t, <1>m, <1>x, <1>h, <1>w, <1>r, LaneAssumption DEF Shapes, TypeOK, Positions
<1>2. Queueing'
  BY <1>0, <1>t, <1>m, <1>x, <1>h, <1>w, <1>r, LaneAssumption DEF Queueing, Queued
<1>3. OneRuns'
  BY <1>0, <1>t, <1>m, <1>x, <1>h, <1>w, <1>r, LaneAssumption DEF OneRuns
<1>4. ClosedMeansCancelled'
  BY <1>0, <1>t, <1>m, <1>x, <1>h, <1>w, <1>r, LaneAssumption DEF ClosedMeansCancelled, OneRuns
<1>5. ClosersWait'
  BY <1>0, <1>t, <1>m, <1>x, <1>h, <1>w, <1>r, LaneAssumption DEF ClosersWait
<1>6. RunKnows'
  BY <1>0, <1>t, <1>m, <1>x, <1>h, <1>w, <1>r, LaneAssumption DEF RunKnows, OneRuns, None
<1>7. FailureKnown'
  BY <1>0, <1>t, <1>m, <1>x, <1>h, <1>w, <1>r, LaneAssumption DEF FailureKnown, RunKnows, None
<1>8. Honest'
  BY <1>0, <1>t, <1>m, <1>x, <1>h, <1>w, <1>r, LaneAssumption DEF Honest, StatusHonest, None
<1> QED BY <1>1, <1>2, <1>3, <1>4, <1>5, <1>6, <1>7, <1>8 DEF LaneInv

LEMMA PredictStep ==
  ASSUME LaneInv, Predict
  PROVE  LaneInv'
<1>0. /\ Shapes /\ Queueing /\ OneRuns /\ ClosedMeansCancelled /\ ClosersWait
      /\ RunKnows /\ FailureKnown /\ Honest
  BY DEF LaneInv
<1>t. /\ TypeOK /\ job \in [Jobs -> JobStates] /\ run \in Runs
  BY <1>0 DEF Shapes
<1>m. /\ active \in Jobs /\ job[active] \in JobStates /\ job[active].phase = "running"
      /\ run.prior = failure
  BY <1>0, <1>t DEF Predict, TypeOK, OneRuns, RunKnows
<1> DEFINE a == active
<1>x. a \in Jobs /\ a # None /\ active = a /\ \A j \in Jobs : job[j].phase = "running" => j = a
  BY <1>0, <1>m, LaneAssumption DEF OneRuns
<1> HIDE DEF a
<1>h. run.prior = None /\ failure = None /\ ~modelFailed /\ job[a].called
  BY <1>0, <1>m, <1>x DEF Predict, RunKnows, FailureKnown
<1>w. /\ wpc = "predict" /\ wpc' = "drain"
      /\ UNCHANGED <<closed, failure, queue, active, parked, job, handleTaken, closer, inside>>
  BY DEF Predict, laneState, closing
<1>r. /\ run' \in Runs /\ run'.prior = None /\ run'.result \in {None, "Recognized", "Rejected"}
      /\ modelFailed' \in BOOLEAN /\ (modelFailed' => run'.fatal # None)
  <2> DEFINE Replies == {[error |-> None, result |-> "Recognized", failed |-> FALSE],
                         [error |-> None, result |-> "Rejected", failed |-> FALSE],
                         [error |-> None, result |-> "Rejected", failed |-> TRUE],
                         [error |-> "Cancelled", result |-> None, failed |-> FALSE],
                         [error |-> "Backend", result |-> None, failed |-> TRUE],
                         [error |-> "WorkerFailed", result |-> None, failed |-> FALSE],
                         [error |-> "WorkerFailed", result |-> None, failed |-> TRUE],
                         [error |-> "InvalidResult", result |-> None, failed |-> FALSE]}
  <2>1. PICK r \in Replies :
           /\ modelFailed' = (modelFailed \/ r.failed)
           /\ run' = [run EXCEPT !.error = r.error, !.result = r.result,
                                 !.fatal = FormulaFatal(r.error, modelFailed')]
    BY DEF Predict
  <2>i. /\ r.error \in {None, "Cancelled", "Backend", "WorkerFailed", "InvalidResult"}
        /\ r.result \in {None, "Recognized", "Rejected"}
        /\ r.failed => r.error \notin {"Cancelled", "InvalidResult"}
    <3>1. r.error \in {None, "Cancelled", "Backend", "WorkerFailed", "InvalidResult"}
      OBVIOUS
    <3>2. r.result \in {None, "Recognized", "Rejected"}
      OBVIOUS
    <3>3. r.error \in {"Cancelled", "InvalidResult"} => ~r.failed
      BY DEF None
    <3> QED BY <3>1, <3>2, <3>3
  <2> HIDE DEF Replies
  <2>2. (modelFailed' => r.failed) /\ modelFailed' \in BOOLEAN
    BY <1>h, <2>1, <2>i
  <2>3. /\ FormulaFatal(r.error, modelFailed') \in {None, "Backend", "WorkerFailed", "Cancelled",
                                                    "InvalidResult"}
        /\ modelFailed' => FormulaFatal(r.error, modelFailed') # None
    BY <2>1, <2>2, <2>i DEF FormulaFatal, FatalFormulaCodes, None
  <2>4. FormulaFatal(r.error, modelFailed') \in Failures
    BY <2>1, <2>2, <2>i DEF FormulaFatal, FatalFormulaCodes, Failures
  <2> QED BY <1>t, <1>h, <2>1, <2>i, <2>2, <2>3, <2>4 DEF Runs, Errors, Failures
<1>1. Shapes'
  BY <1>0, <1>t, <1>m, <1>x, <1>h, <1>w, <1>r, LaneAssumption DEF Shapes, TypeOK, Positions
<1>2. Queueing'
  BY <1>0, <1>t, <1>m, <1>x, <1>h, <1>w, <1>r, LaneAssumption DEF Queueing, Queued
<1>3. OneRuns'
  BY <1>0, <1>t, <1>m, <1>x, <1>h, <1>w, <1>r, LaneAssumption DEF OneRuns
<1>4. ClosedMeansCancelled'
  BY <1>0, <1>t, <1>m, <1>x, <1>h, <1>w, <1>r, LaneAssumption DEF ClosedMeansCancelled, OneRuns
<1>5. ClosersWait'
  BY <1>0, <1>t, <1>m, <1>x, <1>h, <1>w, <1>r, LaneAssumption DEF ClosersWait
<1>6. RunKnows'
  BY <1>0, <1>t, <1>m, <1>x, <1>h, <1>w, <1>r, LaneAssumption DEF RunKnows, OneRuns, None
<1>7. FailureKnown'
  BY <1>0, <1>t, <1>m, <1>x, <1>h, <1>w, <1>r, LaneAssumption DEF FailureKnown, RunKnows, None
<1>8. Honest'
  BY <1>0, <1>t, <1>m, <1>x, <1>h, <1>w, <1>r, LaneAssumption DEF Honest, StatusHonest, None
<1> QED BY <1>1, <1>2, <1>3, <1>4, <1>5, <1>6, <1>7, <1>8 DEF LaneInv

LEMMA FinishFormulaStep ==
  ASSUME LaneInv, FinishFormula
  PROVE  LaneInv'
<1>0. /\ Shapes /\ Queueing /\ OneRuns /\ ClosedMeansCancelled /\ ClosersWait
      /\ RunKnows /\ FailureKnown /\ Honest
  BY DEF LaneInv
<1>t. /\ TypeOK /\ job \in [Jobs -> JobStates] /\ run \in Runs
  BY <1>0 DEF Shapes
<1>m. /\ active \in Jobs /\ job[active] \in JobStates /\ job[active].phase = "running"
      /\ run.prior = failure
  BY <1>0, <1>t DEF FinishFormula, TypeOK, OneRuns, RunKnows
<1> DEFINE a == active
<1>x. a \in Jobs /\ a # None /\ active = a /\ \A j \in Jobs : job[j].phase = "running" => j = a
  BY <1>0, <1>m, LaneAssumption DEF OneRuns
<1> HIDE DEF a
<1>d. PICK drained \in BOOLEAN :
        job' = [job EXCEPT ![active].phase = "ended",
                           ![active].status = FormulaStatus(IF drained THEN run.error ELSE "Delivery",
                                                            run.result)]
  BY DEF FinishFormula
<1> DEFINE st == FormulaStatus(IF drained THEN run.error ELSE "Delivery", run.result)
           r == [job[a] EXCEPT !.phase = "ended", !.status = st]
<1>w. /\ wpc = "drain" /\ wpc' = "settle"
      /\ UNCHANGED <<closed, failure, queue, active, parked, run, modelFailed, handleTaken, closer,
                     inside>>
  BY DEF FinishFormula, laneState, closing
<1>f. /\ st \in Statuses /\ (job[a].cancelled => st \in {"Cancelled", "Failed"})
      /\ (st = "Completed" => job[a].called)
  <2>1. run.result = "Recognized" => job[a].called
    BY <1>0, <1>w, <1>x DEF RunKnows
  <2> QED BY <1>x, <2>1 DEF FormulaStatus, Statuses
<1> HIDE DEF st
<1>r. /\ r \in JobStates
      /\ r.kind = job[a].kind /\ r.phase = "ended" /\ r.called = job[a].called
      /\ r.sealed = job[a].sealed /\ r.cancelled = job[a].cancelled /\ r.status = st
  BY <1>m, <1>x, <1>f DEF JobStates
<1>s. job' = [job EXCEPT ![a] = r]
  BY <1>t, <1>m, <1>x, <1>d DEF st
<1> HIDE DEF r
<1>v. job' \in [Jobs -> JobStates] /\ job'[a] = r /\ \A j \in Jobs : j # a => job'[j] = job[j]
  BY <1>t, <1>x, <1>r, <1>s, JobSet
<1>1. Shapes'
  BY <1>0, <1>t, <1>m, <1>x, <1>f, <1>r, <1>v, <1>w, LaneAssumption DEF Shapes, TypeOK,
     Positions, Statuses
<1>2. Queueing'
  BY <1>0, <1>t, <1>m, <1>x, <1>f, <1>r, <1>v, <1>w, LaneAssumption DEF Queueing, Queued
<1>3. OneRuns'
  BY <1>0, <1>t, <1>m, <1>x, <1>f, <1>r, <1>v, <1>w, LaneAssumption DEF OneRuns
<1>4. ClosedMeansCancelled'
  BY <1>0, <1>t, <1>m, <1>x, <1>f, <1>r, <1>v, <1>w, LaneAssumption DEF ClosedMeansCancelled,
     OneRuns
<1>5. ClosersWait'
  BY <1>0, <1>t, <1>m, <1>x, <1>f, <1>r, <1>v, <1>w, LaneAssumption DEF ClosersWait
<1>6. RunKnows'
  BY <1>0, <1>t, <1>m, <1>x, <1>f, <1>r, <1>v, <1>w, LaneAssumption DEF RunKnows, OneRuns, None
<1>7. FailureKnown'
  BY <1>0, <1>t, <1>m, <1>x, <1>f, <1>r, <1>v, <1>w, LaneAssumption DEF FailureKnown, RunKnows
<1>8. Honest'
  BY <1>0, <1>t, <1>m, <1>x, <1>f, <1>r, <1>v, <1>w, LaneAssumption DEF Honest, StatusHonest,
     Statuses, None
<1> QED BY <1>1, <1>2, <1>3, <1>4, <1>5, <1>6, <1>7, <1>8 DEF LaneInv

LEMMA SealDocumentStep ==
  ASSUME LaneInv, SealDocument
  PROVE  LaneInv'
<1>0. /\ Shapes /\ Queueing /\ OneRuns /\ ClosedMeansCancelled /\ ClosersWait
      /\ RunKnows /\ FailureKnown /\ Honest
  BY DEF LaneInv
<1>t. /\ TypeOK /\ job \in [Jobs -> JobStates] /\ run \in Runs
  BY <1>0 DEF Shapes
<1>m. /\ active \in Jobs /\ job[active] \in JobStates /\ job[active].phase = "running"
      /\ run.prior = failure
  BY <1>0, <1>t DEF SealDocument, TypeOK, OneRuns, RunKnows
<1> DEFINE a == active
<1>x. a \in Jobs /\ a # None /\ active = a /\ \A j \in Jobs : job[j].phase = "running" => j = a
  BY <1>0, <1>m, LaneAssumption DEF OneRuns
<1> HIDE DEF a
<1> DEFINE r == [job[a] EXCEPT !.sealed = TRUE]
<1>r. /\ r \in JobStates
      /\ r.kind = job[a].kind /\ r.phase = job[a].phase /\ r.called = job[a].called /\ r.sealed
      /\ r.cancelled = job[a].cancelled /\ r.status = job[a].status
  BY <1>m, <1>x DEF JobStates, Statuses
<1>s. job' = [job EXCEPT ![a] = r]
  BY <1>t, <1>m, <1>x DEF SealDocument
<1> HIDE DEF r
<1>v. job' \in [Jobs -> JobStates] /\ job'[a] = r /\ \A j \in Jobs : j # a => job'[j] = job[j]
  BY <1>t, <1>x, <1>r, <1>s, JobSet
<1>w. /\ wpc = "document" /\ wpc' = "documentEnd"
      /\ UNCHANGED <<closed, failure, queue, active, parked, handleTaken, closer, inside>>
  BY DEF SealDocument, laneState, closing
<1>u. /\ run' \in Runs /\ run'.prior = run.prior /\ run'.result \in Statuses
      /\ job[a].cancelled => run'.result \in {"Cancelled", "Failed"}
      /\ run.prior # None => run'.result = "Failed"
      /\ modelFailed' \in BOOLEAN
      /\ modelFailed' => failure # None \/ run'.fatal # None
  <2>1. PICK status \in Statuses, error \in {None, "SourceChanged", "WorkerFailed", "Delivery",
                                            "Backend"}, panicked \in BOOLEAN :
          /\ error # None => status = "Failed"
          /\ run.prior # None => error \in {run.prior, "Delivery"} /\ ~panicked
          /\ panicked => error = "WorkerFailed"
          /\ status = "Cancelled" => job[active].cancelled
          /\ status \in {"Completed", "Partial"} => ~job[active].cancelled
          /\ modelFailed' = (modelFailed \/ (error = "Backend" /\ run.prior = None))
          /\ run' = [run EXCEPT !.result = status, !.error = error,
                                !.predicted = panicked \/ error = "Backend",
                                !.fatal = IF panicked \/ modelFailed' \/ error = "Backend"
                                          THEN error ELSE None]
    BY DEF SealDocument
  <2> DEFINE fatal == IF panicked \/ modelFailed' \/ error = "Backend" THEN error ELSE None
  <2>2. /\ modelFailed => failure # None
        /\ failure \in Failures /\ modelFailed \in BOOLEAN
    BY <1>0, <1>t, <1>w DEF FailureKnown, TypeOK, Failures
  <2>3. modelFailed' \in BOOLEAN /\ (modelFailed' => failure # None \/ error = "Backend")
    BY <2>1, <2>2
  <2>4. run.prior # None => error \in Failures /\ error # None
    BY <1>m, <2>1, <2>2 DEF Failures, None
  <2>5. fatal \in Failures
    <3>1. CASE run.prior # None
      BY <2>4, <3>1 DEF Failures
    <3>2. CASE run.prior = None
      BY <1>m, <2>1, <2>3, <3>2 DEF Failures
    <3> QED BY <3>1, <3>2
  <2>6. modelFailed' => failure # None \/ fatal # None
    BY <2>3 DEF None
  <2>7. run' = [run EXCEPT !.result = status, !.error = error,
                           !.predicted = panicked \/ error = "Backend", !.fatal = fatal]
    BY <2>1
  <2>8. error \in Errors /\ (panicked \/ error = "Backend") \in BOOLEAN
    BY DEF Errors, Failures
  <2> HIDE DEF fatal
  <2>9. /\ run' \in Runs /\ run'.prior = run.prior /\ run'.result = status /\ run'.fatal = fatal
    BY <1>t, <2>5, <2>7, <2>8 DEF Runs
  <2> QED BY <1>x, <2>1, <2>3, <2>4, <2>6, <2>9 DEF Statuses
<1>1. Shapes'
  BY <1>0, <1>t, <1>m, <1>x, <1>r, <1>v, <1>w, <1>u, LaneAssumption DEF Shapes, TypeOK,
     Positions
<1>2. Queueing'
  BY <1>0, <1>t, <1>m, <1>x, <1>r, <1>v, <1>w, <1>u, LaneAssumption DEF Queueing, Queued
<1>3. OneRuns'
  BY <1>0, <1>t, <1>m, <1>x, <1>r, <1>v, <1>w, <1>u, LaneAssumption DEF OneRuns
<1>4. ClosedMeansCancelled'
  BY <1>0, <1>t, <1>m, <1>x, <1>r, <1>v, <1>w, <1>u, LaneAssumption DEF ClosedMeansCancelled,
     OneRuns
<1>5. ClosersWait'
  BY <1>0, <1>t, <1>m, <1>x, <1>r, <1>v, <1>w, <1>u, LaneAssumption DEF ClosersWait
<1>6. RunKnows'
  BY <1>0, <1>t, <1>m, <1>x, <1>r, <1>v, <1>w, <1>u, LaneAssumption DEF RunKnows, OneRuns, None
<1>7. FailureKnown'
  BY <1>0, <1>t, <1>m, <1>x, <1>r, <1>v, <1>w, <1>u, LaneAssumption DEF FailureKnown, RunKnows
<1>8. Honest'
  BY <1>0, <1>t, <1>m, <1>x, <1>r, <1>v, <1>w, <1>u, LaneAssumption DEF Honest, StatusHonest,
     None
<1> QED BY <1>1, <1>2, <1>3, <1>4, <1>5, <1>6, <1>7, <1>8 DEF LaneInv

LEMMA FinishDocumentStep ==
  ASSUME LaneInv, FinishDocument
  PROVE  LaneInv'
<1>0. /\ Shapes /\ Queueing /\ OneRuns /\ ClosedMeansCancelled /\ ClosersWait
      /\ RunKnows /\ FailureKnown /\ Honest
  BY DEF LaneInv
<1>t. /\ TypeOK /\ job \in [Jobs -> JobStates] /\ run \in Runs
  BY <1>0 DEF Shapes
<1>m. /\ active \in Jobs /\ job[active] \in JobStates /\ job[active].phase = "running"
      /\ run.prior = failure
  BY <1>0, <1>t DEF FinishDocument, TypeOK, OneRuns, RunKnows
<1> DEFINE a == active
<1>x. a \in Jobs /\ a # None /\ active = a /\ \A j \in Jobs : job[j].phase = "running" => j = a
  BY <1>0, <1>m, LaneAssumption DEF OneRuns
<1> HIDE DEF a
<1>w. /\ wpc = "documentEnd" /\ wpc' = "settle"
      /\ UNCHANGED <<closed, failure, queue, active, parked, run, modelFailed, handleTaken, closer,
                     inside>>
  BY DEF FinishDocument, laneState, closing
<1>f. /\ run.result \in Statuses /\ (job[a].cancelled => run.result \in {"Cancelled", "Failed"})
      /\ job[a].kind = "document"
  BY <1>0, <1>w, <1>x DEF RunKnows, OneRuns
<1> DEFINE r == [job[a] EXCEPT !.phase = "ended", !.status = run.result]
<1>r. /\ r \in JobStates
      /\ r.kind = job[a].kind /\ r.phase = "ended" /\ r.called = job[a].called
      /\ r.sealed = job[a].sealed /\ r.cancelled = job[a].cancelled /\ r.status = run.result
  BY <1>m, <1>x, <1>f DEF JobStates
<1>s. job' = [job EXCEPT ![a] = r]
  BY <1>t, <1>m, <1>x DEF FinishDocument
<1> HIDE DEF r
<1>v. job' \in [Jobs -> JobStates] /\ job'[a] = r /\ \A j \in Jobs : j # a => job'[j] = job[j]
  BY <1>t, <1>x, <1>r, <1>s, JobSet
<1>1. Shapes'
  BY <1>0, <1>t, <1>m, <1>x, <1>f, <1>r, <1>v, <1>w, LaneAssumption DEF Shapes, TypeOK,
     Positions, Statuses
<1>2. Queueing'
  BY <1>0, <1>t, <1>m, <1>x, <1>f, <1>r, <1>v, <1>w, LaneAssumption DEF Queueing, Queued
<1>3. OneRuns'
  BY <1>0, <1>t, <1>m, <1>x, <1>f, <1>r, <1>v, <1>w, LaneAssumption DEF OneRuns
<1>4. ClosedMeansCancelled'
  BY <1>0, <1>t, <1>m, <1>x, <1>f, <1>r, <1>v, <1>w, LaneAssumption DEF ClosedMeansCancelled,
     OneRuns
<1>5. ClosersWait'
  BY <1>0, <1>t, <1>m, <1>x, <1>f, <1>r, <1>v, <1>w, LaneAssumption DEF ClosersWait
<1>6. RunKnows'
  BY <1>0, <1>t, <1>m, <1>x, <1>f, <1>r, <1>v, <1>w, LaneAssumption DEF RunKnows, OneRuns, None
<1>7. FailureKnown'
  BY <1>0, <1>t, <1>m, <1>x, <1>f, <1>r, <1>v, <1>w, LaneAssumption DEF FailureKnown, RunKnows
<1>8. Honest'
  BY <1>0, <1>t, <1>m, <1>x, <1>f, <1>r, <1>v, <1>w, LaneAssumption DEF Honest, StatusHonest,
     Statuses, None
<1> QED BY <1>1, <1>2, <1>3, <1>4, <1>5, <1>6, <1>7, <1>8 DEF LaneInv

LEMMA SettleStep ==
  ASSUME LaneInv, Settle
  PROVE  LaneInv'
<1>0. /\ Shapes /\ Queueing /\ OneRuns /\ ClosedMeansCancelled /\ ClosersWait
      /\ RunKnows /\ FailureKnown /\ Honest
  BY DEF LaneInv
<1>t. /\ TypeOK /\ job \in [Jobs -> JobStates] /\ run \in Runs
  BY <1>0 DEF Shapes
<1>m. active \in Jobs /\ wpc = "settle" /\ job[active].phase = "ended" /\ run.prior = failure
  BY <1>0, <1>t DEF Settle, TypeOK, OneRuns, RunKnows
<1>x. \A j \in Jobs : job[j].phase # "running"
  BY <1>0, <1>m DEF OneRuns
<1>w. /\ active' = None /\ wpc' = "pop"
      /\ UNCHANGED <<queue, parked, run, modelFailed, handleTaken, closer, inside>>
  BY DEF Settle, closing
<1>r. run.fatal \in Failures BY <1>t DEF Runs
<1>v. /\ job' \in [Jobs -> JobStates]
      /\ \A j \in Jobs : /\ job'[j].kind = job[j].kind /\ job'[j].phase = job[j].phase
                         /\ job'[j].called = job[j].called /\ job'[j].sealed = job[j].sealed
                         /\ job'[j].status = job[j].status
                         /\ job[j].cancelled => job'[j].cancelled
                         /\ ~Listens(job[j]) => job'[j] = job[j]
      /\ \/ UNCHANGED <<closed, failure, job>> /\ run.fatal = None
         \/ /\ closed' = TRUE /\ failure' = run.fatal /\ run.fatal # None
            /\ \A j \in Jobs : Listens(job[j]) => job'[j].cancelled
  <2>1. CASE run.fatal = None
    BY <1>t, <2>1 DEF Settle
  <2>2. CASE run.fatal # None
    <3>1. job' = Cancelling(job, Queued) /\ closed' = TRUE /\ failure' = run.fatal
      BY <2>2 DEF Settle
    <3>2. \A j \in Jobs : Listens(job[j]) => j \in Queued
      BY <1>0, <1>x DEF Listens, Queueing
    <3>3. /\ job' \in [Jobs -> JobStates]
          /\ \A j \in Jobs :
                /\ job'[j].kind = job[j].kind /\ job'[j].phase = job[j].phase
                /\ job'[j].called = job[j].called /\ job'[j].sealed = job[j].sealed
                /\ job'[j].status = job[j].status
                /\ job'[j].cancelled <=> job[j].cancelled \/ (j \in Queued /\ Listens(job[j]))
                /\ ~Listens(job[j]) => job'[j] = job[j]
      BY <1>t, <3>1, CancellingMarks
    <3> QED BY <2>2, <3>1, <3>2, <3>3
  <2> QED BY <2>1, <2>2
<1>1. Shapes'
  BY <1>0, <1>t, <1>m, <1>x, <1>w, <1>r, <1>v, LaneAssumption DEF Shapes, TypeOK, Positions,
     Failures
<1>2. Queueing'
  BY <1>0, <1>t, <1>m, <1>x, <1>w, <1>r, <1>v, LaneAssumption DEF Queueing, Queued
<1>3. OneRuns'
  BY <1>0, <1>t, <1>m, <1>x, <1>w, <1>r, <1>v, LaneAssumption DEF OneRuns, Listens
<1>4. ClosedMeansCancelled'
  BY <1>0, <1>t, <1>m, <1>x, <1>w, <1>r, <1>v, LaneAssumption DEF ClosedMeansCancelled,
     OneRuns, Listens
<1>5. ClosersWait'
  BY <1>0, <1>t, <1>m, <1>x, <1>w, <1>r, <1>v, LaneAssumption DEF ClosersWait
<1>6. RunKnows'
  BY <1>0, <1>t, <1>m, <1>x, <1>w, <1>r, <1>v, LaneAssumption DEF RunKnows
<1>7. FailureKnown'
  BY <1>0, <1>t, <1>m, <1>x, <1>w, <1>r, <1>v, LaneAssumption DEF FailureKnown, RunKnows
<1>8. Honest'
  BY <1>0, <1>t, <1>m, <1>x, <1>w, <1>r, <1>v, LaneAssumption DEF Honest, StatusHonest, Listens
<1> QED BY <1>1, <1>2, <1>3, <1>4, <1>5, <1>6, <1>7, <1>8 DEF LaneInv

LEMMA LaneStep == LaneInv /\ [Next]_vars => LaneInv'
<1> SUFFICES ASSUME LaneInv, [Next]_vars PROVE LaneInv'
  OBVIOUS
<1>1. CASE Worker
  <2>1. ASSUME StartFormula PROVE LaneInv'
    BY <2>1, StartFormulaCalls, StartFormulaSkips
  <2> QED BY <1>1, <2>1, ParkStep, ExitStep, PopStep, LoaderReturnsStep, PredictStep,
             FinishFormulaStep, RenderDocumentStep, SealDocumentStep, FinishDocumentStep,
             SettleStep DEF Worker
<1>2. CASE Closing
  BY <1>2, TakeHandleStep, JoinedStep DEF Closing
<1>3. CASE Client
  BY <1>3, SubmitStep, CancelStep, CloseOutsideStep, CloseInsideStep DEF Client
<1>4. CASE Done \/ UNCHANGED vars
  BY <1>4 DEF Done, vars, laneState, closing, LaneInv, Shapes, TypeOK, Queueing, Queued,
     OneRuns,
     ClosedMeansCancelled, ClosersWait, RunKnows, FailureKnown, Honest, StatusHonest
<1> QED BY <1>1, <1>2, <1>3, <1>4 DEF Next

LEMMA LaneAlways == Spec => []LaneInv
  BY LaneInit, LaneStep, PTL DEF Spec

-----------------------------------------------------------------------------
(* The theorems.                                                             *)

(* Whichever of submit, pop and close came first, every accepted job is once *)
(* in the queue or active, a close has cancelled it, and a close that        *)
(* returned found every accepted job ended and the worker gone (jobs/mod.rs, *)
(* Analyzer::close).                                                         *)
THEOREM JobsAccounted == Spec => []AcceptedCounted
<1>1. LaneInv => AcceptedCounted
  <2> SUFFICES ASSUME LaneInv PROVE AcceptedCounted
    OBVIOUS
  <2>0. /\ TypeOK /\ Queueing /\ OneRuns /\ ClosersWait /\ ClosedMeansCancelled
    BY DEF LaneInv, Shapes
  <2>1. Admission
    <3>1. Cardinality(Queued) = Len(queue)
      BY <2>0, EachOnce DEF TypeOK, Queueing
    <3>2. Queued = {j \in Jobs : job[j].phase = "queued"}
      BY <2>0 DEF TypeOK, Queueing, Queued
    <3> QED BY <2>0, <3>1, <3>2 DEF Admission, Queueing, OneRuns
  <2>2. CloseDrains
    <3> SUFFICES ASSUME NEW c \in Closers, closer[c] = "returned", c \notin inside
                 PROVE  /\ wpc = "exited"
                        /\ \A j \in Jobs : job[j].phase \in {"new", "refused", "ended"}
      BY DEF CloseDrains
    <3>1. wpc = "exited" /\ queue = <<>> /\ active = None
      BY <2>0 DEF ClosersWait, TypeOK
    <3>2. Queued = {} BY <3>1 DEF Queued
    <3> QED BY <2>0, <3>1, <3>2, LaneAssumption DEF Queueing, OneRuns, TypeOK
  <2> QED BY <2>0, <2>1, <2>2 DEF AcceptedCounted
<1> QED BY <1>1, LaneAlways, PTL

(* A model that failed closes the lane with a failure, and nothing renders   *)
(* or loads for a job once it has (engine.rs, crop.rs: fatal).               *)
THEOREM FailureStopsCalls == Spec => FailureStops
<1> DEFINE Quietly == /\ FailureCloses'
                      /\ failure # None \/ modelFailed =>
                            \A j \in Jobs : job'[j].called => job[j].called
<1>1. LaneInv' => FailureCloses'
  BY DEF LaneInv, FailureCloses, FailureKnown
<1>2. LaneInv /\ [Next]_vars => [failure # None \/ modelFailed =>
                                   \A j \in Jobs : job'[j].called => job[j].called]_vars
  <2> SUFFICES ASSUME LaneInv, [Next]_vars, failure # None \/ modelFailed,
                      NEW j \in Jobs, job'[j].called
               PROVE  job[j].called
    OBVIOUS
  <2>0. /\ job \in [Jobs -> JobStates] /\ active \in Jobs \cup {None} /\ queue \in Seq(Jobs)
        /\ RunKnows /\ FailureKnown /\ ((active = None) <=> wpc \in {"pop", "exited"})
    BY DEF LaneInv, Shapes, TypeOK
  <2>1. ~(wpc \in {"document", "formula"} /\ run.prior = None)
    BY <2>0 DEF RunKnows, FailureKnown
  <2>2. CASE Worker
    <3>1. CASE Park \/ Exit \/ LoaderReturns \/ Predict
      BY <3>1 DEF Park, Exit, LoaderReturns, Predict
    <3>2. CASE StartFormula \/ RenderDocument
      BY <2>1, <3>2 DEF StartFormula, RenderDocument
    <3>3. CASE Pop
      BY <2>0, <3>3 DEF Pop, JobStates
    <3>4. CASE FinishFormula
      BY <2>0, <3>4 DEF FinishFormula, JobStates
    <3>5. CASE SealDocument
      BY <2>0, <3>5 DEF SealDocument, JobStates
    <3>6. CASE FinishDocument
      BY <2>0, <3>6 DEF FinishDocument, JobStates
    <3>7. CASE Settle
      <4>1. \/ job' = job
            \/ job' = Cancelling(job, Queued)
        BY <3>7 DEF Settle
      <4> QED BY <2>0, <4>1, CancellingMarks
    <3> QED BY <2>2, <3>1, <3>2, <3>3, <3>4, <3>5, <3>6, <3>7 DEF Worker
  <2>3. CASE Closing
    BY <2>3 DEF Closing, TakeHandle, Joined
  <2>4. CASE Client
    <3>1. ASSUME NEW k \in Jobs, NEW kind \in Kinds, Submit(k, kind) PROVE job[j].called
      BY <2>0, <3>1 DEF Submit, JobStates
    <3>2. ASSUME NEW js, job' = Cancelling(job, js) PROVE job[j].called
      BY <2>0, <3>2, CancellingMarks
    <3>3. CASE \E k \in Jobs : Cancel(k)
      BY <3>2, <3>3 DEF Cancel
    <3>4. CASE \E c \in Closers : CloseOutside(c) \/ CloseInside(c)
      BY <3>2, <3>4 DEF CloseOutside, CloseInside, RequestClose
    <3> QED BY <2>4, <3>1, <3>3, <3>4 DEF Client
  <2>5. CASE Done \/ UNCHANGED vars
    BY <2>5 DEF Done, vars
  <2> QED BY <2>2, <2>3, <2>4, <2>5 DEF Next
<1>3. LaneInv /\ LaneInv' /\ [Next]_vars => [Quietly]_vars
  BY <1>1, <1>2
<1> QED BY <1>3, LaneAlways, PTL DEF Spec, FailureStops

(* A status is true and final: a job cancelled before its end is never       *)
(* reported as a success, a success ran, no later step changes an outcome,   *)
(* and a job whose lane had died before it started has failed (jobs/mod.rs,  *)
(* crop.rs: complete).                                                       *)
THEOREM StatusesTrue == Spec => StatusTrue
<1> DEFINE Kept == \A j \in Jobs :
                      /\ StatusHonest(j)'
                      /\ job[j].status # None => job'[j] = job[j]
                      /\ job'[j].status # None /\ job[j].status = None /\ run.prior # None
                         => job'[j].status = "Failed"
<1>1. LaneInv /\ LaneInv' /\ [Next]_vars => [Kept]_vars
  <2> SUFFICES ASSUME LaneInv, LaneInv', [Next]_vars, NEW j \in Jobs
               PROVE  \/ /\ StatusHonest(j)'
                         /\ job[j].status # None => job'[j] = job[j]
                         /\ job'[j].status # None /\ job[j].status = None /\ run.prior # None
                            => job'[j].status = "Failed"
                      \/ UNCHANGED vars
    OBVIOUS
  <2>0. /\ job \in [Jobs -> JobStates] /\ active \in Jobs \cup {None} /\ run \in Runs
        /\ (active = None) <=> wpc \in {"pop", "exited"}
    BY DEF LaneInv, Shapes, TypeOK
  <2>1. StatusHonest(j)'
    BY DEF LaneInv, Honest
  <2>2. /\ (job[j].phase = "ended") <=> job[j].status # None
    BY DEF LaneInv, Honest, StatusHonest
  <2> DEFINE Ends == /\ wpc \in {"drain", "documentEnd"} /\ j = active
                     /\ run.prior # None => job'[j].status = "Failed"
  <2>3. CASE job'[j] = job[j] \/ Ends
    <3>1. Ends => job[j].phase = "running"
      BY <2>0, LaneAssumption DEF LaneInv, OneRuns
    <3> QED BY <2>1, <2>2, <2>3, <3>1
  <2>4. CASE job[j].phase # "ended" /\ job'[j].status = job[j].status
    BY <2>1, <2>2, <2>4
  <2> HIDE DEF Ends
  <2>5. ASSUME NEW js, job' = Cancelling(job, js)
        PROVE  \/ job'[j] = job[j]
               \/ job[j].phase # "ended" /\ job'[j].status = job[j].status
    BY <2>0, <2>5, CancellingMarks DEF Listens
  <2>6. CASE Worker
    <3>1. CASE Park \/ Exit \/ LoaderReturns \/ Predict
      BY <2>3, <3>1 DEF Park, Exit, LoaderReturns, Predict
    <3>2. ASSUME StartFormula \/ RenderDocument \/ SealDocument
          PROVE  \/ job'[j] = job[j]
                 \/ job[j].phase # "ended" /\ job'[j].status = job[j].status
      <4>1. active \in Jobs /\ job[active].phase = "running"
        BY <2>0, <3>2 DEF StartFormula, RenderDocument, SealDocument, LaneInv, OneRuns
      <4>2. CASE j = active
        <5>2. \/ job' = job
              \/ job' = [job EXCEPT ![active].called = TRUE]
              \/ job' = [job EXCEPT ![active].sealed = TRUE]
          BY <3>2 DEF StartFormula, RenderDocument, SealDocument
        <5>3. job[active] \in JobStates
          BY <2>0, <4>1
        <5>1. job'[j].status = job[j].status
          BY <2>0, <4>1, <4>2, <5>2, <5>3 DEF JobStates
        <5> QED BY <4>1, <4>2, <5>1
      <4>3. CASE j # active
        BY <2>0, <3>2, <4>1, <4>3 DEF StartFormula, RenderDocument, SealDocument
      <4> QED BY <4>2, <4>3
    <3>3. ASSUME Pop
          PROVE  \/ job'[j] = job[j]
                 \/ job[j].phase # "ended" /\ job'[j].status = job[j].status
      <4>1. Head(queue) \in Jobs /\ job[Head(queue)].phase = "queued"
        BY <3>3, Dequeued DEF Pop, LaneInv, Shapes, TypeOK, Queueing
      <4> QED BY <2>0, <3>3, <4>1 DEF Pop, JobStates
    <3>4. ASSUME FinishFormula PROVE job'[j] = job[j] \/ Ends
      <4>1. active \in Jobs /\ wpc = "drain" /\ run.prior \in Failures
        BY <2>0, <3>4 DEF FinishFormula, Runs
      <4>2. PICK drained \in BOOLEAN :
               job' = [job EXCEPT ![active].phase = "ended",
                                  ![active].status = FormulaStatus(IF drained THEN run.error
                                                                   ELSE "Delivery", run.result)]
        BY <3>4 DEF FinishFormula
      <4>3. run.prior # None => run.error = run.prior
        BY <4>1 DEF LaneInv, RunKnows
      <4>4. run.prior # None
              => FormulaStatus(IF drained THEN run.error ELSE "Delivery", run.result) = "Failed"
        BY <4>1, <4>3 DEF FormulaStatus, Failures, None
      <4>5. CASE j = active
        BY <2>0, <4>1, <4>2, <4>4, <4>5 DEF Ends, JobStates
      <4>6. CASE j # active
        BY <2>0, <4>1, <4>2, <4>6
      <4> QED BY <4>5, <4>6
    <3>5. ASSUME FinishDocument PROVE job'[j] = job[j] \/ Ends
      <4>1. active \in Jobs /\ wpc = "documentEnd" /\ (run.prior # None => run.result = "Failed")
        BY <2>0, <3>5 DEF FinishDocument, LaneInv, RunKnows
      <4>2. CASE j = active
        BY <2>0, <3>5, <4>1, <4>2 DEF FinishDocument, Ends, JobStates
      <4>3. CASE j # active
        BY <2>0, <3>5, <4>1, <4>3 DEF FinishDocument
      <4> QED BY <4>2, <4>3
    <3>6. CASE Settle
      BY <2>3, <2>4, <2>5, <3>6 DEF Settle
    <3> QED BY <2>3, <2>4, <2>6, <3>1, <3>2, <3>3, <3>4, <3>5, <3>6 DEF Worker
  <2>7. CASE Closing
    BY <2>3, <2>7 DEF Closing, TakeHandle, Joined
  <2>8. CASE Client
    <3>1. ASSUME NEW k \in Jobs, NEW kind \in Kinds, Submit(k, kind)
          PROVE  \/ job'[j] = job[j]
                 \/ job[j].phase # "ended" /\ job'[j].status = job[j].status
      BY <2>0, <3>1 DEF Submit, JobStates
    <3>2. CASE \E k \in Jobs : Cancel(k)
      BY <2>3, <2>4, <2>5, <3>2 DEF Cancel
    <3>3. CASE \E c \in Closers : CloseOutside(c) \/ CloseInside(c)
      BY <2>3, <2>4, <2>5, <3>3 DEF CloseOutside, CloseInside, RequestClose
    <3> QED BY <2>3, <2>4, <2>8, <3>1, <3>2, <3>3 DEF Client
  <2>9. CASE Done \/ UNCHANGED vars
    BY <2>3, <2>9 DEF Done, vars
  <2> QED BY <2>6, <2>7, <2>8, <2>9 DEF Next
<1> QED BY <1>1, LaneAlways, PTL DEF Spec, StatusTrue
=============================================================================
