---------------------------- MODULE PageResults ----------------------------
(* What an analysis job tells its sink: process_pages and run_job of         *)
(* podoco/src/jobs/engine.rs assemble page snapshots and counts, and the     *)
(* validators of podoco/src/results.rs refuse what contradicts itself.       *)
(* DocumentJob models the threads and queues under this; here the content of *)
(* pages and updates is kept, and the pipeline may answer anything.          *)
EXTENDS Integers, Sequences, SequencesExt, FiniteSets

CONSTANTS
    NumPages,   \* pages of the document
    Kinds,      \* FormulaDisplayKind
    Raw,        \* pages a pipeline may answer: regions, formulas and order
    None        \* absent

(* A region is [id, kind], kind None for what is no formula; a formula       *)
(* result is [id, state].  An outcome is [is, kind], kind None for a         *)
(* recognized expression of blank LaTeX.                                     *)
Outcomes == [is : {"recognized"}, kind : Kinds \cup {None}]
            \cup [is : {"failed", "truncated"}, kind : {None}]
Waiting == {[is |-> "pending", kind |-> None], [is |-> "not requested", kind |-> None]}
Zero == [pages |-> 0, pagesFailed |-> 0, detected |-> 0, recognized |-> 0, failed |-> 0,
         truncated |-> 0, pending |-> 0, notRequested |-> 0]

VARIABLES
    scope,     \* options.formula_scope: "all" or "none"
    at,        \* the page being processed, from 1
    pc,        \* "page", "ready", "recognize", "finish", "last", "summary" or "done"
    page,      \* the page being assembled
    formula,   \* the formula recognized next
    counts,    \* processed
    stream,    \* updates the job published
    error,     \* what ended the pages early
    stop,      \* a cancellation or a dead sink, or None
    refused    \* the validator turned an update of the engine down

vars == <<scope, at, pc, page, formula, counts, stream, error, stop, refused>>

NoPage == [regions |-> <<>>, formulas |-> <<>>, order |-> None]
Init ==
    /\ scope \in {"all", "none"} /\ at = 1
    /\ pc = IF NumPages = 0 THEN "summary" ELSE "page"
    /\ page = NoPage /\ formula = 1 /\ counts = Zero
    /\ stream = <<>> /\ error = None /\ stop = None /\ refused = FALSE

-----------------------------------------------------------------------------
(* The validators.                                                           *)

ValidOutcome(o) == o.is = "recognized" => o.kind # None

Distinct(s) == IsInjective(s)
IdsOf(s) == [i \in DOMAIN s |-> s[i].id]
FormulaRegions(p) == SelectSeq(p.regions, LAMBDA r : r.kind # None)
KindOf(p, id) == (CHOOSE r \in ToSet(p.regions) : r.id = id).kind

ValidState(p, f, final) ==
    \/ scope = "none" /\ f.state.is = "not requested"
    \/ scope = "all" /\ f.state.is = "pending" /\ ~final
    \/ /\ scope = "all" /\ f.state \in Outcomes /\ ValidOutcome(f.state)
       /\ f.state.is = "recognized" => f.state.kind = KindOf(p, f.id)

ValidOrder(p) ==
    p.order # None => Distinct(p.order) /\ ToSet(p.order) = ToSet(IdsOf(p.regions))

ValidPage(p, final) ==
    /\ Distinct(IdsOf(p.regions)) /\ Distinct(IdsOf(p.formulas))
    /\ ToSet(IdsOf(p.formulas)) = ToSet(IdsOf(FormulaRegions(p)))
    /\ \A f \in ToSet(p.formulas) : ValidState(p, f, final)
    /\ ValidOrder(p)

Failures(c) == c.pagesFailed + c.failed + c.truncated
ValidSummary(status, c) ==
    /\ c.pages + c.pagesFailed <= NumPages
    /\ c.recognized + c.failed + c.truncated + c.pending + c.notRequested = c.detected
    /\ status \in {"completed", "partial"} =>
         c.pages + c.pagesFailed = NumPages /\ c.pending = 0
    /\ status = "completed" => Failures(c) = 0
    /\ status = "partial" => Failures(c) # 0

Valid(u) ==
    CASE u.type = "PageLayoutReady"  -> /\ ValidPage(u.page, FALSE)
                                        /\ \A f \in ToSet(u.page.formulas) : f.state \in Waiting
      [] u.type = "PageFinished"     -> ValidPage(u.page, TRUE)
      [] u.type = "FormulaFinished"  -> ValidOutcome(u.outcome)
      [] u.type = "PageFailed"       -> TRUE
      [] u.type = "DocumentFinished" -> ValidSummary(u.status, u.counts)

-----------------------------------------------------------------------------
(* Publishing: a refused update, a dead sink or, for all but the terminal    *)
(* notice, a cancellation ends the pages.                                    *)

Stops(terminal) == stop = "sink" \/ (stop = "cancelled" /\ ~terminal)
Fail(code) == error' = code /\ pc' = "summary" /\ UNCHANGED stream

Emit(u, then) ==
    /\ refused' = (refused \/ ~Valid(u))
    /\ IF ~Valid(u) THEN Fail("invalid")
       ELSE IF Stops(FALSE) THEN Fail(stop)
       ELSE stream' = Append(stream, u) /\ pc' = then /\ UNCHANGED error

-----------------------------------------------------------------------------
(* The pages.                                                                *)

NextAt == IF at < NumPages THEN "page" ELSE "summary"

(* A page without layout: its notice, and the next page.                     *)
PageFails ==
    /\ pc = "page"
    /\ counts' = [counts EXCEPT !.pagesFailed = @ + 1]
    /\ Emit([type |-> "PageFailed", at |-> at], NextAt)
    /\ at' = at + 1
    /\ UNCHANGED <<page, formula, stop>>

(* A native failure of the layout: its notice is tried, then the pages end.  *)
PageBreaks ==
    /\ pc = "page"
    /\ counts' = [counts EXCEPT !.pagesFailed = @ + 1]
    /\ stream' = IF Stops(FALSE) THEN stream ELSE Append(stream, [type |-> "PageFailed", at |-> at])
    /\ error' = "backend" /\ pc' = "summary"
    /\ UNCHANGED <<at, page, formula, stop, refused>>

(* A failure of the source or the recognizer, or a stop that was noticed.    *)
PagesEnd ==
    /\ pc \in {"page", "recognize"}
    /\ \E code \in {"backend", stop} \ {None} : Fail(code)
    /\ UNCHANGED <<at, page, formula, counts, stop, refused>>

Initial == [is |-> IF scope = "all" THEN "pending" ELSE "not requested", kind |-> None]

Detected(c, n) ==
    IF scope = "all" THEN [c EXCEPT !.detected = @ + n, !.pending = @ + n]
                     ELSE [c EXCEPT !.detected = @ + n, !.notRequested = @ + n]

LayoutReturns(raw) ==
    LET fresh == [raw EXCEPT !.formulas =
                    [i \in DOMAIN @ |-> [id |-> @[i], state |-> Initial]]] IN
    /\ pc = "page"
    /\ IF ValidPage(fresh, FALSE)
       THEN /\ page' = fresh /\ counts' = Detected(counts, Len(fresh.formulas))
            /\ pc' = (IF scope = "all" THEN "ready" ELSE "finish") /\ formula' = 1
            /\ UNCHANGED <<stream, error>>
       ELSE Fail("invalid") /\ UNCHANGED <<page, counts, formula>>
    /\ UNCHANGED <<at, stop, refused>>

AfterFormula(next) == IF next > Len(page.formulas) THEN "finish" ELSE "recognize"

LayoutReady ==
    /\ pc = "ready"
    /\ Emit([type |-> "PageLayoutReady", at |-> at, page |-> page], AfterFormula(1))
    /\ UNCHANGED <<at, page, formula, counts, stop>>

Count(c, o) == [c EXCEPT !.pending = @ - 1, ![o.is] = @ + 1]

Accepts(p) == ValidPage(p, FALSE)

StoredAsFailed(o) == IF o.is = "truncated" THEN [is |-> "failed", kind |-> None] ELSE o
Stored(o) == o
Recognized(o) ==
    LET filled == [page EXCEPT !.formulas[formula].state = Stored(o)] IN
    /\ pc = "recognize"
    /\ page' = filled
    /\ IF Accepts(filled)
       THEN /\ counts' = Count(counts, o)
            /\ Emit([type |-> "FormulaFinished", at |-> at, id |-> page.formulas[formula].id,
                     outcome |-> o], AfterFormula(formula + 1))
            /\ formula' = formula + 1
       ELSE Fail("invalid") /\ UNCHANGED <<counts, refused, formula>>
    /\ UNCHANGED <<at, stop>>

FinishPage ==
    /\ pc = "finish"
    /\ counts' = [counts EXCEPT !.pages = @ + 1]
    /\ IF scope = "all"
       THEN pc' = "last" /\ UNCHANGED <<stream, error, refused>>
       ELSE Emit([type |-> "PageLayoutReady", at |-> at, page |-> page], "last")
    /\ UNCHANGED <<at, page, formula, stop>>

LastSnapshot ==
    /\ pc = "last"
    /\ Emit([type |-> "PageFinished", at |-> at, page |-> page], NextAt)
    /\ at' = at + 1 /\ page' = NoPage
    /\ UNCHANGED <<formula, counts, stop>>

-----------------------------------------------------------------------------
(* The end.                                                                  *)

StatusByStop ==
    IF error \notin {None, "cancelled"} THEN "failed"
    ELSE IF stop = "cancelled" \/ error = "cancelled" THEN "cancelled"
    ELSE "completed"
Status ==
    IF StatusByStop = "completed" /\ Failures(counts) > 0 THEN "partial" ELSE StatusByStop

Summarize ==
    LET notice == [type |-> "DocumentFinished", status |-> Status, counts |-> counts] IN
    /\ pc = "summary" /\ pc' = "done"
    /\ refused' = (refused \/ ~Valid(notice))
    /\ stream' = IF Valid(notice) /\ ~Stops(TRUE) THEN Append(stream, notice) ELSE stream
    /\ UNCHANGED <<at, page, formula, counts, error, stop>>

Stop ==
    /\ stop = None /\ pc # "done"
    /\ stop' \in {"cancelled", "sink"}
    /\ UNCHANGED <<at, pc, page, formula, counts, stream, error, refused>>

Next ==
    /\ \/ PageFails \/ PageBreaks \/ PagesEnd \/ LayoutReady \/ FinishPage \/ LastSnapshot
       \/ Summarize \/ Stop
       \/ \E raw \in Raw : LayoutReturns(raw)
       \/ \E o \in Outcomes : Recognized(o)
    /\ UNCHANGED scope

Spec == Init /\ [][Next]_vars

-----------------------------------------------------------------------------
(* Properties.                                                               *)

(* Type invariant.                                                           *)
TypeOK ==
    /\ at \in 1 .. NumPages + 1 /\ formula \in Nat /\ refused \in BOOLEAN
    /\ \A f \in DOMAIN counts : counts[f] \in Nat
    /\ error \in {None, "invalid", "backend", "cancelled", "sink"}
    /\ stop \in {None, "cancelled", "sink"}
    /\ pc = "recognize" => formula <= Len(page.formulas)

(* Whatever a pipeline answers and whenever the job is stopped, the engine   *)
(* never assembles an update that its own validator refuses: a consumer that *)
(* decodes the stream (results.rs:576) accepts all of it.                    *)
NeverRefused == ~refused

(* Where the updates of a type stand in the stream, and the outcomes told.   *)
Updates(type) == {i \in DOMAIN stream : stream[i].type = type}
Told(is) == {i \in DOMAIN stream : stream[i].type = "FormulaFinished" /\ stream[i].outcome.is = is}

(* A completed or partial summary counts what the stream told before it, no  *)
(* more and no less; an interrupted one never counts less than was told.     *)
SummaryTellsStream ==
    \A i \in Updates("DocumentFinished") :
      LET c == stream[i].counts
          told == <<Cardinality(Updates("PageFinished")), Cardinality(Updates("PageFailed")),
                    Cardinality(Told("recognized")), Cardinality(Told("failed")),
                    Cardinality(Told("truncated"))>>
          counted == <<c.pages, c.pagesFailed, c.recognized, c.failed, c.truncated>>
      IN IF stream[i].status \in {"completed", "partial"} THEN told = counted
         ELSE \A k \in 1 .. 5 : told[k] <= counted[k]

(* A final snapshot says what the page's own updates said, which are those   *)
(* right before it: the regions of its layout notice and, for each formula,  *)
(* the outcome reported for it.                                              *)
SnapshotTellsUpdates ==
    \A i \in Updates("PageFinished") :
      LET final == stream[i].page
          told == IF scope = "all" THEN Len(final.formulas) ELSE 0
          first == i - told - 1
      IN /\ first >= 1 /\ stream[first].type = "PageLayoutReady"
         /\ \A j \in 1 .. i - 1 : stream[j].at = stream[i].at <=> j >= first
         /\ stream[first].page.regions = final.regions
         /\ stream[first].page.order = final.order
         /\ \A f \in 1 .. told :
               /\ stream[first + f].type = "FormulaFinished"
               /\ stream[first + f].id = final.formulas[f].id
               /\ stream[first + f].outcome = final.formulas[f].state
=============================================================================
