# Verification of PoDoFo and Podoco

TLA+ models, TLC runs and TLAPS proofs for the Podoco document-analysis SDK
(`podoco`, Rust, with its C interface and Dart bindings) and for the editing
session of the PoDoFo reader (`podofo_frontend_one`, Flutter) in this repository.
`PROJECT.json` holds the machine-readable index: which lines every definition
translates, what each run checks, the mutation that each property detects, and the
list of hazards.

## The system

| Component | State | Operations | Talks to |
|---|---|---|---|
| Analyzer lane (`jobs/mod.rs`, `engine.rs`) | closed, failure, queue, active job | submit, cancel, close, the scheduler thread | jobs, native sessions |
| Document job (`jobs/engine.rs`) | one `State` behind a mutex and a condvar | load, layout, recognise, emit, deliver, cancel, wait | page renderer, update sink |
| Formula job (`jobs/crop.rs`) | phase, cancellation, outcome | load, predict, drain, finish | loader, recogniser |
| Results (`results.rs`) | page snapshots, counts, bytes being written | assemble, validate, encode | document job |
| Native sessions (`session.rs`, `formula/session.rs`) | owner thread, failed flag, decoder cache | open, analyze, recognise, close | Core ML |
| Math processor (`math/worker.rs`) | request queue, failure, MathCAT preferences | request, convert, close | MathCAT |
| C transport (`podoco-ffi/src/transport.rs`) | one source request, one result, wake count | offer, poll, reply, acknowledge, abandon | jobs, Dart |
| Handle registry (`podoco-ffi/src/handles.rs`) | table of entries, next id | reserve, publish, get, release | every C call, image leases |
| Dart bindings (`podoco/bindings/dart`) | event loop, render and delivery tasks, wake callable | drive, render, deliver, finish, dispose | C interface, reader |
| Model bundles (`bundle.rs`, `formula/bundle.rs`, `math/rules.rs`) | directories | verify, prepare | packaging tool, sessions |
| Asset packaging tool (`podoco-models`) | lock, staging, package | verify, copy, publish, restore | model sources |
| Images, layout and formula preprocessing, tensors | arrays | crop, resize, decode, copy | pipelines, Core ML |
| Undo history (`editing/document_history.dart`) | entries, cursor, ids | commit, undo, redo, mark saved | session |
| PDF session (`services/pdf_session.dart`) | model, backing, history, path, fingerprint | edit, undo, redo, save, close | PDFium worker, files, menus |
| Loaded documents, reader analysis, link previews, narration (`lib/src`) | tabs, flights, caches, epochs | open, save, close, request, play | session, bindings |
| User interface, persistence, text planning, LaTeX conversion | widgets, records, pure values | | |

How they meet. The reader asks the Dart bindings for an analysis; they start a job
through the C interface, which registers a handle and gives the job a renderer and
a sink made of the transport. The analyzer lane runs jobs one at a time; a job's
worker calls the layout and formula sessions, each of which owns its Core ML
objects on a thread of its own. Every callback of a job becomes a request in the
transport, a wake call posted to the Dart event loop, a poll and an answer. Bundles
are prepared by the SDK and packaged by the tool long before. The PDF session is
independent of all that: edits pass through model, PDFium and history under a lock,
and a save replaces a file that other programs may write too.

What makes them correct, and what is hard:

- *Document job.* Three threads and two kinds of foreign callback share one
  mutex and one condvar. Budgets (rasters, update count, update bytes) must be
  exact on every path; cancellation, a dead sink, a dead model and a panic may
  hit between any two steps; the outcome must be the truth about all of it.
- *Analyzer lane.* Submit, pop, close and a fatal job race for one queue. Close
  may be called by several threads and from inside callbacks. A model that
  failed must not be used again.
- *Transport and bindings.* A rendezvous by polling: late replies, abandoned
  handles, acknowledgements; wake calls counted on native threads and received as
  events, after whose last one a callable is freed.
- *Registry.* Entries outlive their handles while a reader holds them, and the
  release of an image runs its owner's callback, which may come back in.
- *Math processor.* Four ways to take requests from one queue; global preferences
  set one by one; a native handle used by isolates.
- *Native sessions.* A thread may die with the only reply; a cache is promoted by
  measured sizes; cancellation is looked at between native calls.
- *Bundles and packages.* Concurrent preparers, renames and removals that fail,
  processes that are killed, sources that change after they were verified.
- *Sequential numeric code.* Boundaries: rounding, clamping, ties, strides.
- *Session and history.* An edit passes through three stores (model, PDFium,
  history) with awaits in between, each of which can fail; the dirty flag is a
  comparison of ids and must survive undo, redo, truncation and saving; menus
  and Save As dialogs act on what they captured earlier; other programs write
  the same files.

## Modules

| Module | Models | Uses |
|---|---|---|
| `JobContract` | what a job promises its callbacks and its client | |
| `DocumentJob` | one document job, all threads | implements `JobContract` |
| `AnalyzerLane` | scheduler, admission, close, formula jobs | document jobs as the contract lets them appear |
| `Bridge` | the C transport of one job | extends `JobContract`: the job behind it |
| `ForeignJob` | the Dart client of the transport | extends `Bridge` |
| `HandleRegistry` | the handle table, image leases, error buffers | |
| `MathProcessor` | math worker, its C calls and its Dart owner | |
| `NativeSession` | the owner thread of a model and its client | |
| `FormulaSession` | formula recognition on that thread | extends `NativeSession` |
| `BundlePreparation` | `prepare` of a model bundle | |
| `PackPublication` | `prepare` of the packaging tool | |
| `AssetVerification` | the three verifiers and `verify_component` | |
| `PageResults`, `BoundedWriter` | results: validation, encoding within a reservation | |
| `LayoutResampling`, `LayoutDecoding` | a page raster's rows, a detector's outputs | |
| `FormulaCrop`, `FormulaResampling` | a formula's pixels, from its region to the square | |
| `TensorLayout` | strided native storage | |
| `SequentialParts` | one of the eight modules from `AssetVerification` on, per behaviour | instances of them |
| `DocumentHistory` | the immutable history as operators on a record | |
| `PdfSession` | edits, recovery, menus, saving, foreign writers | extends `DocumentHistory` |
| `DocumentJobProofs`, `AnalyzerLaneProofs`, `MathProcessorProofs`, `FormulaSessionProofs`, `BundlePreparationProofs` | theorems about the module of that name | TLAPS |
| `ForeignInterfaceProofs` | theorems about `HandleRegistry` and `ForeignJob` with its `Bridge` | TLAPS |
| `FilePublicationProofs` | theorems about `PackPublication` and `PdfSession` with its `DocumentHistory` | TLAPS |
| `SequentialPartsProofs` | theorems about `BoundedWriter` and, through `SequentialParts`, five of the other parts | TLAPS |
| `MC*` | constants and symmetry for TLC | |

### DocumentJob

Each variable groups fields of `State` (or a thread's locals): `control` is
`cancellation_requested`, `abort_requested` and `delivery_error`; `render` the
mailbox `request`, `reply`, `source_stop`, `source_done`; `results` the update
queue with `pending_updates`, `processing_done` and `delivery_done`;
`delivered` and `counts` the progress counters; `wpc`, `spc`, `dpc` and `client`
are the program counters of the worker, source pump, delivery pump and caller.
One action is one critical section, or the callback-free code between two of
them. The renderer, the sink and the model run between two actions, so
everything can happen while they do. `asleep` holds the parked threads:
`Condvar::wait` adds one, `notify_all` empties it, and an action of a thread
needs it awake wherever the code could be parked. A missing wakeup therefore
shows as a lost liveness property, which the mutant `NotifyOne` confirms.

Abstracted: page content (a page is its index), a raster (the page or revision
it belongs to and its size), an update (kind, page, sequence, size), errors
(their code). Three of the formula outcomes only differ in a counter; failed
and truncated are one `badFormulas`.

Positions where the code distinguishes more than it looks: the delivery pump
discards the backlog when it returns to the head of its loop (`dpc = "head"`)
but not when it is woken inside it (`"wait"`), where it drops one update at a
time; a native failure keeps its error through a failed notice (`LayoutFails`,
`EmitFails`), and a job queued behind a fatal one starts with that failure
(`StartJob`) and skips straight to its shutdown.

### JobContract

The contract has no queue, pages or threads: rendering and delivering are
booleans that may overlap, a render or content delivery starts only while
nobody cancelled and the sink is open, the notice is the last delivery and needs
the renderer gone, and the outcome is constrained by what was noticed, cancelled
and broken. `KeepsContract` is the refinement: `DocumentJob` under the mapping
at the end of that module satisfies `ContractSpec`.

### AnalyzerLane

The lane's worker pops a job, runs it and settles it. Formula jobs are modelled
step by step (start, load, predict, drain, finish). A document job is reduced to
three steps (render, seal, finish) with the freedom the contract allows: it may
render while it is neither cancelled nor behind a failure, it ends with a status
consistent with its cancellation, and a cancellation is accepted until it is
sealed (`delivery_done`). A close from inside a callback keeps its request and
returns an error, and `CallbackReturns` makes the callback wait for the calls it
made: a close that was allowed to wait would deadlock, and does in the mutant.

### DocumentHistory and PdfSession

The model maps annotation ids to a colour; the PDFium backing is a second such
map, or `Broken` after a failed rollback. `op` is the operation that holds the
session lock together with its locals; it moves in steps so that the UI
(`OpenMenu`, `OpenSaveAs`), which does not take the lock, and `ExternalWrite`
interleave with it. Fingerprints are the bytes themselves (hashes are assumed
not to collide). `modelOf` is a history variable that remembers the model each
state id was created for; the properties are about it. `_apply` publishes model,
history and revision in one turn of the event loop, hence one action; so does
the end of `save`.

### Bridge and ForeignJob

`Bridge` has the renderer's and the sink's native threads of one job; the job
itself is `JobContract`'s, so it does everything a job may do. A request is
offered, polled, then replied until its caller consumes it; that is the presence
of `bytes` and `response` in the code. The wake callback runs outside the lock:
counting it (`LoadCounts`) and posting it (`LoadPosts`) are two actions. The
loader waits with timeouts (it looks at cancellation), the deliverer parks, so
only the latter can miss a wakeup (`parked`). After a cancellation a polled
renderer must answer before its caller may return (`ForeignDone`); an abandoned
job returns at once.

`ForeignJob` adds the Dart object: one event loop (`drive`), which runs `_drive`
in steps between which native threads run but no other Dart event; the render and
delivery tasks that await user code; the count of wake calls received and
expected. It may fail the transport, release what it owns once everything has
drained, be cancelled, or vanish with its handle.

### HandleRegistry

Reserve, publish, get and release are critical sections of one lock; a call is
several of them. An entry is in the table or held by the threads that cloned it;
the last one to let go of a lease runs the caller's callback. The callback runs
without the lock and may call in again.

### MathProcessor

Callers are isolates that block in the native call. The worker owns MathCAT, whose
two preferences are set one after the other, each of which may fail. Requests are
taken out of the queue by the worker, by its failure and by every close; what a
thread took and has not answered is `pending`. The Dart owner counts admitted
calls and releases the handle when they are back and the close returned.

### NativeSession and FormulaSession

A rendezvous channel between a client with exclusive access and the thread that
owns the model; the thread may be lost with the reply. `FormulaSession` is what a
request does there: encode, then per token masks and a native call, a promotion
from the small to the large cache when it is full, with nominal and measured bytes
(`Padding`). Positions, slots and budgets keep their arithmetic, logits and
embeddings are gone: a token ends the expression or not.

### BundlePreparation, PackPublication and AssetVerification

Directories are records: who made them, what each artifact holds, whether the
manifest is there. Every file operation may fail, every preparer or run may be
killed between two operations, a removal may stop half-way, and sources change
when they like. `BundlePreparation` lets preparers share a process id, because the
staging path is named after it. `PackPublication` keeps the whole package as one
value and the swap step by step: `Racing` allows a user's edit in the window
between the last look at the package and its removal.

Nobody but preparers writes a bundle's destination in the model. A reader may
see a bundle that is verified and then withdrawn, when its own publisher's last
verification fails; the code allows this, and `ManifestLast` says no more than
that its publisher is withdrawing it.

`AssetVerification` abstracts a digest to "the pinned content or another" and
keeps which manifest is held against what.

### The sequential parts

Each takes its input from a set in `Init` and runs as the code does, in the steps at
which it keeps intermediate state (rows in a ring, an encoder's vector, a page
being assembled). The properties state what the result should be, independently
of how it is computed: for instance that a tap reads a row that is still in the
ring, or that reading back what was written by coordinates gives it again.
Coordinates are exact integers and rationals where the code uses `f64` and `f32`,
so rounding near a tie and summation order are out of the models; `TensorLayout`
counts elements, not bytes; `BoundedWriter` takes `try_reserve_exact` to give
what was asked for. `SequentialParts` is their disjoint union: a behaviour runs one
of them and the variables of the others rest, so that one run checks all eight.

## Runs

| Run | Instance | Shows |
|---|---|---|
| `document_job` | 2 pages, up to 1 formula each, both scopes, 2 updates or 5 result bytes pending, updates of 1 to 3 bytes, input limit 2; 417,536 states | budgets, mailbox, delivery order, true and final outcome, cancellation, refinement of the contract, that nobody hangs |
| `analyzer_lane` | 2 jobs, 2 closers, queue limit 1; 142,987 states | admission, closing, dead models, statuses, that closes and jobs end |
| `analyzer_lane_source` | 3 jobs; a counterexample is expected | the first finding |
| `foreign_job` | document and formula jobs, 2 source requests, 1 content update and the notice; 301,140 states | what a finished job leaves, honest acknowledgements, completion or drain |
| `handle_registry` | 2 threads, 2 leases, 1 job, 3 ids; 47,895 states | leases exactly once, no orphans, stale handles |
| `math_processor` | 2 callers, 2 closers, queue of 1; 103,259 states | one answer each, dispose, preferences, return of every call |
| `formula_session` | caches of 2 and 4 slots, caps 1 to 4, three paddings; 2,209 states | cache, budget, cancellation, the failed flag, return |
| `bundle_preparation` | 2 preparers in 1 or 2 processes, 2 artifacts; 136,632 states | ownership of directories, reported copies, partial bundles |
| `pack_publication` | 2 runs, configurations with and without models; 42,494 states | pinned models, no package lost |
| `pack_publication_race` | the same with edits in the window; a counterexample is expected | the second finding |
| `sequential_parts` | see `MCSequentialParts`; about 2.2 million states | the numeric and validating code |
| `pdf_session` | 1 annotation, 2 colours, 3 revisions, 2 history entries, 3 bytes, 1 foreign write; 1,470,924 states | history, backing, files, menus |

A property of a run is often a conjunction of named parts that answer one question
(for instance `MailboxExact == RasterCharged /\ RenderOnce`); the type invariant of
a module is a part of one of them. A state invariant that belongs to a temporal
property is written as a primed conjunct of its action formula.

Why the bounds are enough. *Job:* a second page is the first that can follow a
failed, late or cancelled one; one formula gives three updates to a page, more
than the queue of two holds, so the worker blocks at every emit; a pending
update of 3 bytes leaves no room for a reservation of 3 in 5, two of 1 byte do, so
either the bytes or the count is the binding limit; `InputLimit` 2
leaves an oversized raster (3), a full and a partial one. Source codes: one that
fails the page and one that fails the job; `load` tells no others apart. *Lane:*
one job runs and another waits or is refused while it has not been popped; two
closers are one that joins and one that waits, or one inside a callback and one
outside. *Foreign job:* a second source request can meet a late answer to the
first; one update can be pending when the notice comes. *Registry:* one thread
releases what the other reads; with three ids the space runs out in the middle of an
import as well as of a job start. *Math:* one request is converted and another waits, or
is refused at the limit. *Formula:* 2 slots are full after two
tokens, 4 are the cap; paddings fit, just fit and do not fit. *Bundles:* two
artifacts have a half-moved state. *Session:* three revisions
reach every order of edit, undo, redo and redo-tail truncation in a history of two,
an edit of 3 bytes evicts everything older; one foreign write can fall before,
between and after the two fingerprint checks. *Sequential parts:* every output side up to
eight from up to three times that includes kernels that clip at one border and
at both; three queries are the fewest with a cycle of votes; a raster of three by
two has distinct sides under every map; three axes are the fewest with an axis
between two others. Bounds that are not the code's own are `MaxRevision`,
`MaxWrites`, `MaxRequests`, `MaxUpdates`, `MaxId`, `MaxTotal` and the sets of sizes,
codes and inputs.

Deadlock is checked except in `pdf_session`, where a closed session stops, in
`formula_session`, where a closed one does, and in `sequential_parts`, whose parts
return. Symmetry is used only in runs without liveness.

### Fairness

`DocumentJob`: weak fairness of the worker once the lane started the job, of both
pumps and of a client that already waits. Each is an OS thread that runs while it
is not parked, and weak fairness of their callback steps is the documented
obligation of callers: "a callback that never returns can delay `wait`/`close`"
(`podoco/docs/jobs.md:150-151`). Nothing obliges a client to cancel or to wait.
`AnalyzerLane`: weak fairness of the worker and of the closers together. A thread
blocked on the handle mutex acquires it because only one close ever joins.

`ForeignJob`: weak fairness of the native threads, of the polling steps of `_drive`
and of the 20 ms timer; strong fairness of each kind of Dart event (a wake call, the
completion of a render, of a delivery), because these are enabled only while the
loop is idle, and a Dart event loop serves its queue in order: an event that was
queued is served however many timer events come. It includes that renderer and sink
complete, which is the callers' obligation again. No fairness of the client's
events is used once it has vanished: they are disabled then.
`HandleRegistry`: strong fairness of a call that has begun, since its step is
disabled whenever another thread holds the lock and a mutex is given to every
thread that keeps asking, and of a caller that releases what it was handed.
`MathProcessor`: weak fairness of the worker, of every call that has begun, of the
owner's close and its release. Nobody is obliged to call or to dispose.
`NativeSession` and `FormulaSession`: weak fairness of the owner thread (native
calls return) and of a client that waits.

### Findings

`jobs.md:144-145` promises "Source/sink failures alone do not invalidate an
otherwise healthy model." `crop.rs:406-414` closes the analyzer on any formula
job that ended with `Backend` or `WorkerFailed`, also when the caller's loader
returned that code and the model was never called. `analyzer_lane_source` shows
the path; `analyzer_lane` includes it, so the other properties hold in spite of it.

`package.rs:395` says "Only the verified previous generated tree is removed, after
publication." The tool verifies the published package a last time (378), renames it
into its staging directory (381) and removes that at the end without another look:
what a user changes in between goes with it. `pack_publication_race` shows an edit
removed that way. With `Racing = FALSE` the promise holds (`PackageKept`).

## Proofs

Eight modules hold theorems; `PROJECT.json` lists them with the property of a run
that each states. A theorem holds for every value of the constants that satisfies
the module's assumptions: `LimitsAssumption` and `CodesAssumption`
(`DocumentJob`), `LaneAssumption`, `RegistryAssumption`, `BridgeAssumption`,
`MathAssumption`, `FormulaAssumption`, `BundleAssumption` with `NoneAssumption`,
`PackAssumption`, `HistoryAssumption` with `ColorsAssumption`, `WriterAssumption` and
`PartsAssumption`. They say what constructors enforce (limits and sizes are positive,
one update fits the result budget, the large cache is larger than the small one), what
kind of value an input is (a page map has six numbers), or that values the code tells
apart are different; TLC evaluates each of them. No theorem bounds the number of
pages, threads, jobs, callers, tokens, runs, edits, rows or pixels. Two have a hypothesis,
explained below.

Every invariant was checked by TLC on the instance of its module's run before it
was proved, including the strengthenings, and every proof has the same outline: a
strengthening that is inductive, one lemma per group of actions or, where actions
disturb different conjuncts, per conjunct, and a temporal step at the end.

| Module | Proved | Inductive invariant |
|---|---|---|
| `DocumentJobProofs` | `TypeOK`, `UpdatesCharged`, `MailboxExact`, `QueueExact`, `OutcomeTrue`, `CancelStops`, the refinement `KeepsContract` | `ChargeInv`, `RasterInv`, `LineAll`, `FinalInv` |
| `AnalyzerLaneProofs` | `AcceptedCounted`, `FailureStops`, `StatusTrue` | `LaneInv` |
| `ForeignInterfaceProofs` | `LeaseExact`, `NothingOrphaned`, `StaleStaysStale`, and that callbacks run unlocked; `FinishedClean`, `AcksHonest` | `RegistryInv`; `ForeignInv` |
| `MathProcessorProofs` | `DisposesCleanly`, `SpeechMatchesRequest`, `AnsweredOnce` | `MathInv` |
| `FormulaSessionProofs` | `CacheSound`, `CancelIsPrompt`, the state parts of `SessionEnds` | `FormulaInv` |
| `BundlePreparationProofs` | `TypeOK`, `RemovesItsOwn`, `PublishedStays`, `Withdrawn` | `OwnInv`, `PublishInv`, `TracesInv` |
| `FilePublicationProofs` | `PublishedIsPinned`, `PackageKept`, two of its parts under edits too; `IdsNameModels`, `BackingShowsModel`, `ForeignKept`, `EditsAsShown` | `PackInv`; `SessionInv` |
| `SequentialPartsProofs` | `WithinReservation`, `OnlyPinnedAccepted`, `ResultsAgree`; the resize half of `LayoutRight`; of `FormulaImageRight` the crop, the windows, the aspect and the centring | `WriterInv`, `AssetInv`, `StoryInv`, `RingInv`, `CutTypes`, `ImageTypes` |

### The document job

*Counting updates.* `UpdatesCharged` counts an update as long as the delivery pump
is in the sink or the worker encodes, so it is preserved by every step that moves
one of them, but not by `StartJob`, which sets the pump to its head: it would forget
an update in the sink if one could be there. `ChargeInv` adds that nothing runs
before the job starts. `TypeOK` bounds `left` below by 0, which recognising a formula
would break if it could start with none left: `ChargeInv` adds that it cannot.

*Rasters.* `RenderOnce` and `RasterCharged` speak of the mailbox alone, but what
empties it is where the worker stands: nothing in `SourceReplies` says that the
reservation is still charged. `RasterInv` adds that the mailbox is in use only from
`load` to the join of the source pump (`MailFree`), that the whole budget is charged
for as long, that a worker joining the pump has told it to stop (so that no reply
can come after the mailbox was emptied), and the positions at which the worker may
own a raster (`HoldsRaster`): a worker that resets the reservation stands at none of
them, or drops the raster in the same critical section. A layout decides the
definition: a layout-only job emits it after the raster is dropped, a job that also
recognises formulas before.

*Bytes.* `Bytes(queue)` is a recursive function, and the provers have no induction
over queues. They need none for what the code does to one: `LeastNumber` (the
least-number principle, from the library's well-foundedness of `<` on the naturals)
shows that two running totals that start alike and add alike are equal, and from
that follow, with no operator as a parameter, what the bytes are of an empty queue, a
queue with one more update, a queue without its first, and of a retained backlog
(`BytesEmpty`, `BytesAppend`, `BytesTail`, `BytesRetained`). `ByteInv` then is
`BytesCharged` and that an update is in flight exactly while the pump is in the sink.

*The line of updates.* `DeliveryOrder` says what the sink has seen; whether the next
update fits depends on what the worker has numbered and not queued, on what is
queued and on what is in the sink. `LineInv` ties the three as long as nobody
cancelled and nothing failed (`OnTime`): the next sequence number is what was
delivered plus what is outstanding plus what is due, and every outstanding update
has the number of its place. `Counted` does the same for pages: a function that
says how many pages the sink will have seen after each outstanding update exists.
It is changed by a witness at each step, so that nothing is counted by recursion.
It also says that the notice is published by a worker that then only joins its
pump, and that whoever joins a healthy pump has published it.

*The outcome.* `CourseInv` says of each position of the worker what its locals are
worth: where it still has no failure, that finished and failed pages add up to the
pages it passed, how many formulas are pending, that a summary is what the counts
say, that `spc` and `dpc` have returned where they are joined. With an empty line
and an exact byte count, `finish` finds nothing running or charged (`Quiescent`) and
its outcome agrees with pages, formulas, acknowledgements and the cancellation
(`OutcomeHonest`); `FinalInv` keeps it. `OutcomeIsTrue` adds that no later step
changes it.

*The contract.* `ContractKept` is the refinement `KeepsContract`: a case per action
shows that it is an action of `JobContract` under the mapping, or leaves the mapped
variables alone. The outcome's step needs `OutcomeHonest`, the deliveries need
`DeliveryOrder` and `CancelStops`' guards, the renderings need the mailbox.

*The hypothesis* `"Cancelled" \notin SourceCodes` of the last two: a renderer that
answers with the code `Cancelled` makes `load` end the job as cancelled, though
nobody asked (`engine.rs` treats the code like its own). The Rust API admits it; the
C interface asks for `page_source` or `source_changed` (`podoco-ffi/src/jobs.rs:215-217`),
and the Dart bindings answer nothing else (`analysis_jobs.dart:208-214`, 490). The
transport answers `Cancelled` of its own for a job that is cancelled or abandoned;
the client asked for both, and the call that abandons a job cancels it next
(`jobs.rs:405-406`). `QueueAlwaysExact` does not need the hypothesis.

### The analyzer lane

`AcceptedCounted` follows from the queue alone only for jobs that are queued.
`LaneInv` adds that a job runs exactly if it is the active one and the worker is
where its kind puts it (`OneRuns`), that whoever returned from a close outside a
callback saw the worker gone (`ClosersWait`), and what the run's locals know: the
failure it started with, whether the job has called out (`RunKnows`), and that a
model's failure is held against the lane or is about to be (`FailureKnown`). That a
queue holds a job once is kept by `Append` and `Tail` through two lemmas about
sequences; admission's bound rests on `Len` only.

### The handle registry

The properties relate an entry, the calls about it and a lease's owner. What makes
them inductive is who a call is about: a call that brings a lease in is the only
one about it until it hands the number over (`BroughtByOne`), an accepted lease is in
the table, in use or in its one callback (`ReturnedByOne`), and a reserved number
belongs to one call (`NumbersFresh`). A step lemma says what one call's step does to
its payload and number; the lemmas about the rest of the threads follow from that.

### A job behind the Dart bindings

`FinishedClean` is about the moment a Dart job ends: its wake callable is closed, so
no native thread may still call it. That rests on what everybody else did before, and
`ForeignInv` says it in parts. `Callers` puts the native threads where the contract
says they are. `Owned` says that, until the bridge is abandoned, a task of the client
stands behind every request that was polled and not answered, and behind no other.
`WakesAdd` adds up the wake calls: received, posted or about to be posted they are the ones
counted, and two for a page and one for an update are all there can be, so that the
count the client reads at the end is the last one. `EndKnown` says what the client
knows by then, at which step of `_drive`, and that a finished or fatal transport was
abandoned. `RendersDone` carries the one fact the notice needs: it is accepted only
with no render task left, because the contract sends it after the renderer is gone
and `Owned` ties the task to the request.

`AcksHonest` needs `InOrder`: what was acknowledged, what the sink works on and what
is offered have rising numbers, also where an abandoned bridge still has an old
offer. Each disjunct of `ClientNext` has a lemma of its own.

### The math processor

Callers who wait stand in lines: the queue, the worker's hands, the lists of closers
and of a failing worker. `OnePlace` says that who waits unanswered stands in one
line at one position, and nobody else does; `LineJoined` and its companions say
what joining, serving and handing over a whole line do to that, independently of
the program. `AnsweredOnce` follows, with the guard of every reply. `Spoken`
says which preferences have been set at which position of the worker, and is kept
by a failure because the next request sets both again.

### Formula sessions

`Turns` follows the one request between client, channel, worker and answer.
`Generating` says which positions the live cache holds in each phase; the
promotion keeps them because the capacities differ and the copy covers `pos`
rows. `CacheLimit >= CachePeak` is `Opens`, the check of `open`: a session whose
limit is smaller does not exist. `Prompt` bounds the calls begun after a cancel.

### Bundles and packages

`RemovesItsOwn` is inductive with the types: a preparer creates a directory only
where none is, and every step on a directory keeps its owner, so that steps of
others spare it (`StagingOwn`, `DestinationOwn`). `CopyInv` follows the pinned
content of a copy from the verified staging directory, artifact by artifact, to the
destination; `RemovesItsOwn` supplies that no other step touches either
(`StepSpares`), which splits the proof into a preparer's own steps and everybody
else's. `Traces` does the same for what a preparer leaves behind at each position:
its staging directory and its destination, unless it was killed or could not remove
them.

`PackInv` rests on the lock: one run is between lock and unlock (`OneWorks`), so
that what it found is what it still finds, perhaps edited (`Found`), and what it set
aside is nobody else's (`SetAside`). A crashed run keeps the lock for ever, which
is why its backup is safe. `PackageIsKept` has the hypothesis `~Racing`: without it
`OnlyVerifiedRemoved` is refuted by the run `pack_publication_race`. `NeverLost`,
the other two parts of the property, needs no hypothesis.

### The PDF session

`Tells(history, names, model)` is what makes a history right: every state id that can
still be reached by undo or redo names the model it was created for, the entries link
those ids in a row, the cursor stands at the current one, and each entry's edit leads from
the model of its first id to that of its second. Commit, undo and redo keep it
(`CommitTells`, `UndoTells`, `RedoTells`); commit needs that what eviction retains is a
tail of the entries (`RetainedIsTail`), that undo takes a colour back exactly
(`AppliedBack`), and that new ids are the next numbers. `IdsNameModels` follows, and
`ForeignKept` with the saved id.

`SessionInv` follows the operation that holds the lock. `Pending` says that while
PDFium applies an edit, the history that will be published tells of the model that
will be; `Follows` that the backing equals the model except while it is recovered
and after the session was given up; `Saves` that a save writes the bytes of the model
it started with, and that a target which no longer is what the save looked at was
written by somebody since; `Fresh` that a menu of the current revision shows the current
model. The Save As and menu tasks run without the lock, and these are the facts their
checks rely on.

### The sequential parts

*The bounded writer.* The vector's capacity alone is not inductive: whether an update
was refused only for excess depends on what was asked for before. `WriterInv` adds
that as long as nothing was refused all that was asked for is in the vector, and that a
refusal means more was asked for than is reserved.

*Assets.* `Established` says which checks hold at each phase of a verification, and
that a rejection is the fault of one. The theorem then relates the verdict to
manifest and directory in both directions: nothing foreign accepted, nothing
pinned turned away.

*What a job tells its sink.* `StoryInv` has the page under assembly (`Assembly`: it
passes the validator, and its formulas have ended up to the next one), the counts
(`Balanced`: they add up to the pages gone through and the formulas detected) and the
stream (`Tallied`: nothing was told that is not counted, and nothing counted that
was not told, but for the page about to be; `Story`, `Snapshots`: what was told
of a page is its notice and its formulas in order). Tallies are cardinalities of sets of
positions, so that one more update is one more position, and no fold has to be
induced over.

*The resized page.* `Ring`: the rows from the start of the current tap to the last
one fetched are in the ring, each in its slot modulo four. It is inductive because
starts and ends of taps never fall from a row to the next and no tap is longer than
four, which is arithmetic on quotients (`FirstOf`, `EndOf`). No row is resized twice
follows from the fetched ones increasing (`Increasing`).

*The crop of a formula.* A linear form on a rectangle is extreme at corners, so the
floor of the least and the ceiling of the greatest of four quotients enclose every
pixel corner inside the bounds, whichever sign the map's determinant has; that it is not
zero makes the sides differ. What is trimmed is the hull of the dark pixels, and the
darkest pixel is one of them, so a crop with two grays never trims to nothing.

*The thumbnail.* The crop is scaled until its short side fits and then until its long
one does; rounding down each time loses at most one pixel of the aspect (`TwiceRounded`); `ImageTypes` says that
the rows made so far are placed from the margin down. `WindowsHoldEveryWeight` shows
that the fixed `max_taps` of a window, which its charge relies on, never cuts a
sample with a weight.

### Only model-checked

- Liveness and everything under fairness, out of the prover's reach: `NobodyHangs`,
  `Drains`, `Completes`, `EveryCallReturns`, `LeaseComesBack`, and the temporal part of
  `SessionEnds`.
- The decoding half of `LayoutRight` (`KeepsTheBest`, `FollowsVotes`, `TiesByIndex`,
  `IdsDiffer`): sorted selections and sums of votes, whose meaning for every input is an
  induction over that input. The library's induction theorems take an operator as a
  parameter, which no installed prover instantiates.
- Of `FormulaImageRight`, `WeightsAdd` and `WithinBudget` (sums over a window, sums of
  windows) and `RightRows` (two nested folds over a row's taps), for the same reason.
- `TensorsKept`: products and offsets are folds over any number of axes, and accepted
  strides are judged in sorted order.

For these TLC compares the algorithm with an independent definition on every
input of the run's instance.

## Not modelled

See `components` in `PROJECT.json`; `hazards` without properties name what each
omission leaves open.

- *Dart controllers of the reader* (loaded documents, reader analysis, link
  previews, narration, thumbnails). Single-threaded code full of awaits; much of it
  depends on the widget tree, a database and audio plugins whose event order this
  repository does not fix. The PDF session under the tabs and the native jobs under
  the flights are modelled.
- *PDFium annotation adapter.* Its results (applied, rolled back, broken) are
  inputs of `PdfSession`.
- *Text*: LaTeX to MathML, formula text clean-up, narration planning, link target
  heuristics; *floating point*: weights, normalization, half-precision conversion.
- *Field-by-field decoding and validation* of the C interface and of JSON.
- *Widgets, themes, generated code.*

Within the modelled parts: peak counters, messages and labels, lock poisoning
(recovered by `into_inner` everywhere), sandbox bookmarks, symbolic links except
where verification refuses them, wrap-around of 64-bit tokens.
