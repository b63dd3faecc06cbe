------------------------- MODULE LayoutResampling --------------------------
(* Resizing a page raster for the layout model: Preprocessor of              *)
(* podoco/src/pipelines/layout/preprocess.rs.  Each output row draws on up   *)
(* to four source rows, and only four resized rows are kept, one per slot of *)
(* a ring.  A row is its number: what matters is which rows an output row    *)
(* reads and which of the four cubic positions weigh on each of them.        *)
(* Positions are exact rationals; the code computes them in f64 and f32.     *)
EXTENDS Integers, Sequences, SequencesExt, FiniteSetsExt

CONSTANTS
    Sides,    \* output sizes tried; the code's is 800
    Sizes,    \* raster heights (and widths)
    None      \* an empty slot

VARIABLES
    side, size,
    y,        \* the output row being made
    reading,       \* position in its tap
    rows,     \* the ring: the source row each slot holds
    fetched,  \* source rows resized so far, in order
    output    \* for each finished row, the source rows it used

vars == <<side, size, y, reading, rows, fetched, output>>

Slots == 0 .. 3
Init ==
    /\ side \in Sides /\ size \in Sizes
    /\ y = 0 /\ reading = 0
    /\ rows = [slot \in Slots |-> None]
    /\ fetched = <<>> /\ output = <<>>

-----------------------------------------------------------------------------
(* The taps: where output row i reads, and which position weighs on what.    *)

Clamp(v, low, high) == Max({low, Min({v, high})})

(* floor(size / side * (i + 1/2) - 1/2), at most the last row.               *)
Index(i) == Min({(size * (2 * i + 1) - side) \div (2 * side), size - 1})
Start(i) == Max({Index(i) - 1, 0})
Length(i) == Clamp(Min({Index(i) + 3, size}) - Start(i), 0, 4)

(* The destination among the tap's weights of each of the four positions,    *)
(* as the loop over them leaves it.                                          *)
Dest(i) ==
    LET dest[j \in Slots] ==
          LET sample == Index(i) - 1 + j IN
          IF sample <= 0 THEN 0
          ELSE IF sample >= size - 1 THEN Length(i) - 1
          ELSE IF j = 0 THEN 0 ELSE dest[j - 1] + 1
    IN dest

-----------------------------------------------------------------------------
(* One output row after the other.                                           *)

SlotOfThree(row) == row % 3
Slot(row) == row % 4
Wanted == Start(y) + reading

Cached(row) == rows[Slot(row)] = row

Fetch ==
    /\ y < side /\ reading < Length(y)
    /\ IF Cached(Wanted) THEN UNCHANGED <<rows, fetched>>
       ELSE rows' = [rows EXCEPT ![Slot(Wanted)] = Wanted] /\ fetched' = Append(fetched, Wanted)
    /\ reading' = reading + 1
    /\ UNCHANGED <<side, size, y, output>>

Finish ==
    /\ y < side /\ reading = Length(y)
    /\ output' = Append(output, [j \in 1 .. Length(y) |-> rows[Slot(Start(y) + j - 1)]])
    /\ y' = y + 1 /\ reading' = 0
    /\ UNCHANGED <<side, size, rows, fetched>>

Next == Fetch \/ Finish
Spec == Init /\ [][Next]_vars

-----------------------------------------------------------------------------
(* Properties.                                                               *)

(* Every row asked of the image exists, so the expect on it never panics,    *)
(* and no output row is left without a source row.                           *)
RowsExist ==
    /\ \A row \in ToSet(fetched) : row \in 0 .. size - 1
    /\ \A i \in DOMAIN output : output[i] # <<>>

(* When an output row is made, the ring still holds every row of its tap:    *)
(* none has been overwritten by another of the same tap or left by an        *)
(* earlier one, also where the raster is far larger than the output.         *)
UsesItsRows ==
    \A i \in DOMAIN output :
      output[i] = [j \in 1 .. Length(i - 1) |-> Start(i - 1) + j - 1]

(* Four slots are enough: no row is ever resized twice.                      *)
ResizedOnce == IsInjective(fetched)

(* Each of the four cubic positions weighs on the source row it falls on,    *)
(* and beyond an edge on the edge row: as if the border were repeated, for   *)
(* every size, also one of fewer than four rows.                             *)
RepeatsTheBorder ==
    \A i \in DOMAIN output : \A j \in Slots :
      LET dest == Dest(i - 1)[j] IN
      /\ dest \in 0 .. Length(i - 1) - 1
      /\ Start(i - 1) + dest = Clamp(Index(i - 1) - 1 + j, 0, size - 1)
=============================================================================
