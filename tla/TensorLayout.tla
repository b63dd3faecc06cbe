--------------------------- MODULE TensorLayout ----------------------------
(* Copying tensors into and out of native storage: Layout, write_elements    *)
(* and read_elements of podoco/src/runtime/coreml/tensor.rs, as predict in   *)
(* runtime/coreml/mod.rs uses and charges them.  Native memory is owned by   *)
(* Core ML, which names the strides; they may differ between the inspection  *)
(* and the scoped access.  Sizes are in elements.                            *)
EXTENDS Integers, Sequences, SequencesExt, FiniteSets, FiniteSetsExt

CONSTANTS
    Shapes,       \* sequences of dimensions tried
    Strides,      \* of one axis
    Capacities,   \* elements accessible
    MaxSpan,      \* isize::MAX
    Budget        \* native elements allowed

VARIABLES
    shape, declared,     \* what the array says of itself
    strides, accessible,   \* what the scoped access is given
    op,                  \* "write", or "read" what was written or was there
    phase,               \* "inspect", "access", "charge", "done" or "refused"
    memory,              \* the storage
    found,              \* what was read
    touched,             \* positions accessed
    charged              \* native elements accounted for

array == <<shape, declared, strides, accessible>>
vars == <<array, op, phase, memory, found, touched, charged>>

StridesOf(s) == [DOMAIN s -> Strides]
Init ==
    /\ shape \in Shapes /\ strides \in StridesOf(shape) /\ accessible \in Capacities
    /\ declared \in {strides, [k \in DOMAIN shape |-> 1]}
    /\ op \in {"write", "read"} /\ phase = "inspect"
    /\ memory = [p \in 0 .. accessible - 1 |-> -p] /\ found = <<>>
    /\ touched = {} /\ charged = 0

-----------------------------------------------------------------------------
(* Layouts.                                                                  *)

Product(s) == FoldLeft(LAMBDA n, dim : n * dim, 1, s)
Wellformed(s, by) ==
    s # <<>> /\ (\A k \in DOMAIN s : s[k] # 0) /\ (\A k \in DOMAIN s : by[k] >= 0)

SpanOf(s, by) == 1 + MapThenSumSet(LAMBDA k : (s[k] - 1) * by[k], DOMAIN s)

(* No two elements share a place: by growing stride, every axis steps over   *)
(* all that the smaller ones reach.                                          *)
ByStride(s, by) ==
    SetToSortSeq({k \in DOMAIN s : s[k] > 1},
                 LAMBDA k, l : by[k] < by[l] \/ (by[k] = by[l] /\ k < l))
Axes(s, by) == ByStride(s, by)

StepsAlong(stride, extent) == stride + 1 >= extent
StepsOver(stride, extent) == stride >= extent
Apart(s, by) ==
    LET axes == Axes(s, by)
        extent[n \in 0 .. Len(axes)] ==
          IF n = 0 THEN 1 ELSE extent[n - 1] + (s[axes[n]] - 1) * by[axes[n]]
    IN \A n \in DOMAIN axes : StepsOver(by[axes[n]], extent[n - 1])

Accepts(s, by, available, writable) ==
    /\ Wellformed(s, by)
    /\ SpanOf(s, by) <= MaxSpan /\ SpanOf(s, by) <= available
    /\ writable => Apart(s, by)

Offset(s, by, index) ==
    LET walk == FoldRight(LAMBDA k, acc : [left |-> acc.left \div s[k],
                                           offset |-> acc.offset + (acc.left % s[k]) * by[k]],
                          [k \in DOMAIN s |-> k], [left |-> index, offset |-> 0])
    IN walk.offset

Contiguous(s, by) ==
    \A k \in DOMAIN s : s[k] > 1 => by[k] = Product(SubSeq(s, k + 1, Len(s)))

-----------------------------------------------------------------------------
(* An access: inspected by what the array declares, checked again and done   *)
(* by what the access is given.                                              *)

Refuse == phase' = "refused" /\ UNCHANGED <<op, memory, found, touched, charged>>

Inspect ==
    /\ phase = "inspect"
    /\ IF Accepts(shape, declared, MaxSpan, FALSE)
       THEN /\ phase' = "access" /\ charged' = Max({charged, SpanOf(shape, declared)})
            /\ UNCHANGED <<op, memory, found, touched>>
       ELSE Refuse
    /\ UNCHANGED array


Indices == 0 .. Product(shape) - 1
Place(index) ==
    IF Contiguous(shape, strides) THEN index ELSE Offset(shape, strides, index)

(* The last write to a place stays; past the capacity nothing is kept.       *)
Written ==
    [p \in DOMAIN memory |->
       LET here == {i \in Indices : Place(i) = p} IN
       IF here = {} THEN memory[p] ELSE Max(here) + 1]

ChargedFor(span) == Max({charged, span})

Write ==
    /\ phase = "access" /\ op = "write"
    /\ IF Accepts(shape, strides, accessible, TRUE)
       THEN /\ memory' = Written /\ touched' = touched \cup {Place(i) : i \in Indices}
            /\ charged' = ChargedFor(SpanOf(shape, strides))
            /\ phase' = "charge" /\ UNCHANGED <<op, found>>
       ELSE Refuse
    /\ UNCHANGED array

Held(p) == IF p \in DOMAIN memory THEN memory[p] ELSE 0
Read ==
    /\ phase = "access" /\ op = "read"
    /\ IF Accepts(shape, strides, accessible, FALSE)
       THEN /\ found' = [i \in 1 .. Product(shape) |-> Held(Place(i - 1))]
            /\ touched' = touched \cup {Place(i) : i \in Indices}
            /\ charged' = ChargedFor(SpanOf(shape, strides))
            /\ phase' = "charge" /\ UNCHANGED <<op, memory>>
       ELSE Refuse
    /\ UNCHANGED array

(* predict compares the spans with its budget after each tensor; what was    *)
(* written is read back next.                                                *)
Charge ==
    /\ phase = "charge"
    /\ IF charged > Budget THEN Refuse
       ELSE /\ phase' = IF op = "write" THEN "inspect" ELSE "done"
            /\ op' = "read"
            /\ UNCHANGED <<memory, found, touched, charged>>
    /\ UNCHANGED array

Next == Inspect \/ Write \/ Read \/ Charge
Spec == Init /\ [][Next]_vars

-----------------------------------------------------------------------------
(* Properties.                                                               *)

(* No access leaves the storage, whatever strides the array declared before  *)
(* or names now: the raw copies of write_elements and read_elements rely on  *)
(* it alone.                                                                 *)
InsideTheStorage == touched \subseteq 0 .. accessible - 1

(* What is read back is what was written, element by element, for every      *)
(* layout that is accepted for writing, padded and transposed ones included. *)
WasWritten == memory # [p \in 0 .. accessible - 1 |-> -p]
RoundTrip ==
    phase = "done" /\ WasWritten => found = [i \in 1 .. Product(shape) |-> i]

(* An element is read at the sum of its coordinates times the strides, its   *)
(* index counting the last axis fastest; broadcast axes repeat.              *)
Coordinates == {c \in [DOMAIN shape -> 0 .. Max(ToSet(shape)) - 1] : \A k \in DOMAIN shape : c[k] < shape[k]}
IndexOf(c) == MapThenSumSet(LAMBDA k : c[k] * Product(SubSeq(shape, k + 1, Len(shape))), DOMAIN shape)
ReadsByCoordinate ==
    phase = "done" =>
      \A c \in Coordinates :
        found[IndexOf(c) + 1] = memory[MapThenSumSet(LAMBDA k : c[k] * strides[k], DOMAIN shape)]

(* A tensor laid out in order, the last axis or the first one fastest, with  *)
(* or without padding, is never refused where its storage and budget hold it.*)
InOrder(s, by) ==
    \/ \A k \in DOMAIN s : by[k] >= (IF k = Len(s) THEN 1 ELSE s[k + 1] * by[k + 1])
    \/ \A k \in DOMAIN s : by[k] >= (IF k = 1 THEN 1 ELSE s[k - 1] * by[k - 1])
PaddedIsAccepted ==
    phase = "refused" /\ shape # <<>> /\ (\A k \in DOMAIN shape : shape[k] > 0) =>
      \/ ~InOrder(shape, strides)
      \/ LET last == MapThenSumSet(LAMBDA k : (shape[k] - 1) * strides[k], DOMAIN shape) IN
         last >= accessible \/ last >= Budget \/ last >= MaxSpan \/ charged > Budget

(* What prediction accounts for covers all it touched and stays within its   *)
(* budget, also where the strides changed after the inspection (mod.rs:152). *)
ChargesTheLarger ==
    phase = "done" => charged <= Budget /\ \A p \in touched : p < charged
=============================================================================
