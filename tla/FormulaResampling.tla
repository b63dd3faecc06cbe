------------------------- MODULE FormulaResampling -------------------------
(* From a cropped formula to the recognizer's square: Axis, Resize and run   *)
(* of podoco/src/formula/preprocess.rs.  Two resizes stream into one another *)
(* and each keeps a single resized row; the thumbnail is then centred in a   *)
(* square filled with background.  A row is what it was made of; positions   *)
(* are exact rationals where the code uses f64, and colour is left out.      *)
EXTENDS Integers, Sequences, SequencesExt, FiniteSets, FiniteSetsExt

CONSTANTS
    Sides,             \* sides of the square tried; the code's is 768
    Widths, Heights,   \* of the crop
    Limits,            \* bytes allowed for temporaries
    None               \* no row cached: usize::MAX

VARIABLES
    edge, original, budget,
    phase,      \* "sizes", "rows", "done" or "error"
    first,      \* size after the bilinear resize
    thumbnail,  \* size after the bicubic one
    caches,     \* of each resize: last_y and what its row was made of
    made,       \* what each thumbnail row was made of
    placed      \* the thumbnail row each row of the square received

input == <<edge, original, budget>>
vars == <<input, phase, first, thumbnail, caches, made, placed>>

Init ==
    /\ edge \in Sides /\ budget \in Limits
    /\ original \in [w : Widths, h : Heights]
    /\ phase = "sizes" /\ first = original /\ thumbnail = original
    /\ caches = [first |-> [y |-> None, holds |-> None], second |-> [y |-> None, holds |-> None]]
    /\ made = <<>> /\ placed = [r \in {} |-> 0]

-----------------------------------------------------------------------------
(* The sizes: the shorter edge becomes the side, then the longer one shrinks *)
(* to it.                                                                    *)

FirstSize ==
    IF original.w < original.h THEN [w |-> edge, h |-> (original.h * edge) \div original.w]
                       ELSE [w |-> (original.w * edge) \div original.h, h |-> edge]
ThumbnailOf(s) ==
    IF s.w > s.h THEN [w |-> edge, h |-> (s.h * edge) \div s.w]
    ELSE IF s.h > s.w THEN [w |-> (s.w * edge) \div s.h, h |-> edge]
    ELSE [w |-> edge, h |-> edge]

-----------------------------------------------------------------------------
(* One axis: n samples to m, cubic or not.  A weight is taken times          *)
(* 2 * Span(n, m) ^ 3, so that it is an integer.                             *)

Support(cubic) == IF cubic THEN 2 ELSE 1
Span(n, m) == 2 * Max({n, m})
Ceil(a, b) == (a + b - 1) \div b
MaxTaps(n, m, cubic) == 2 * Ceil(Support(cubic) * Span(n, m), 2 * m) + 1

(* center -+ support + 1/2, times 2 * m                                      *)
Low(n, m, cubic, i) == n * (2 * i + 1) - Support(cubic) * Span(n, m) + m
High(n, m, cubic, i) == n * (2 * i + 1) + Support(cubic) * Span(n, m) + m
TapStart(n, m, cubic, i) == Max({Low(n, m, cubic, i) \div (2 * m), 0})
TapEnd(n, m, cubic, i) ==
    Min({High(n, m, cubic, i) \div (2 * m), n, TapStart(n, m, cubic, i) + MaxTaps(n, m, cubic)})
Tap(n, m, cubic, i) == TapStart(n, m, cubic, i) .. TapEnd(n, m, cubic, i) - 1

Abs(v) == IF v < 0 THEN -v ELSE v
Distance(n, m, i, j) == Abs(m * (2 * j + 1) - n * (2 * i + 1))
Weight(n, m, cubic, i, j) ==
    LET x == Distance(n, m, i, j)  u == Span(n, m) IN
    IF cubic
    THEN IF x < u THEN (3 * x - 5 * u) * x * x + 2 * u * u * u
         ELSE IF x < 2 * u THEN ((5 * u - x) * x - 8 * u * u) * x + 4 * u * u * u
         ELSE 0
    ELSE Max({u - x, 0}) * 2 * u * u

-----------------------------------------------------------------------------
(* Charging the temporaries before they are allocated: coefficients while    *)
(* they are floats and integers, their headers, and the rows of a resize.    *)

ChargeAxis(n, m, cubic) == m * MaxTaps(n, m, cubic) * 12 + m * 64
ChargeRows(from, to) == 3 * from.w + 27 * to.w
ChargeResize(from, to, cubic) ==
    IF from = to THEN 0
    ELSE ChargeRows(from, to) + ChargeAxis(from.w, to.w, cubic) + ChargeAxis(from.h, to.h, cubic)
Charged(a, b) == ChargeResize(original, a, FALSE) + ChargeResize(a, b, TRUE) + 3 * b.w

Empty(s) == s.w = 0 \/ s.h = 0

Start ==
    /\ phase = "sizes"
    /\ LET a == FirstSize  b == ThumbnailOf(a) IN
       /\ first' = a /\ thumbnail' = b
       /\ phase' = IF Empty(a) \/ Empty(b) THEN "error"
                   ELSE IF Charged(a, b) > budget THEN "error" ELSE "rows"
    /\ UNCHANGED <<input, caches, made, placed>>

-----------------------------------------------------------------------------
(* The rows.  A resize asks its source for the rows of the tap, except the   *)
(* one it made last; a resize to the same size is left out.                  *)

Rows(from, to, cubic, r) ==
    LET low == TapStart(from.h, to.h, cubic, r) IN
    [k \in 1 .. TapEnd(from.h, to.h, cubic, r) - low |-> low + k - 1]

StillHasForward(cache, sy) == cache.y # None /\ sy <= cache.y
StillHas(cache, sy) == sy = cache.y

(* A row of the first resize: what it is made of, and the cache it leaves.   *)
FirstRow(cache, r) ==
    IF first = original THEN [cache |-> cache, row |-> <<r>>]
    ELSE FoldLeft(LAMBDA acc, sy :
                    LET now == IF StillHas(acc.cache, sy) THEN acc.cache ELSE [y |-> sy, holds |-> sy]
                    IN [cache |-> now, row |-> Append(acc.row, now.holds)],
                  [cache |-> cache, row |-> <<>>], Rows(original, first, FALSE, r))

(* A row of the second, which streams rows of the first.                     *)
SecondRow(r) ==
    IF thumbnail = first
    THEN LET source == FirstRow(caches.first, r) IN
         [caches |-> [caches EXCEPT !.first = source.cache], row |-> <<source.row>>]
    ELSE FoldLeft(LAMBDA acc, sy :
                    LET source == FirstRow(acc.caches.first, sy)
                        now == IF StillHas(acc.caches.second, sy) THEN acc.caches
                               ELSE [first |-> source.cache, second |-> [y |-> sy, holds |-> source.row]]
                    IN [caches |-> now, row |-> Append(acc.row, now.second.holds)],
                  [caches |-> caches, row |-> <<>>], Rows(first, thumbnail, TRUE, r))

Margin(length) == (edge - length) \div 2

MakeRow ==
    LET y == Len(made)  result == SecondRow(y)  line == y + Margin(thumbnail.h) IN
    /\ phase = "rows"
    /\ caches' = result.caches /\ made' = Append(made, result.row)
    /\ placed' = [r \in DOMAIN placed \cup {line} |-> IF r = line THEN y ELSE placed[r]]
    /\ phase' = IF y + 1 = thumbnail.h THEN "done" ELSE "rows"
    /\ UNCHANGED <<input, first, thumbnail>>

Next == Start \/ MakeRow
Spec == Init /\ [][Next]_vars

-----------------------------------------------------------------------------
(* Properties.                                                               *)

Axes ==
    {<<original.w, first.w, FALSE>>, <<original.h, first.h, FALSE>>,
     <<first.w, thumbnail.w, TRUE>>, <<first.h, thumbnail.h, TRUE>>}

(* A window of coefficients lies in the source and holds every sample that   *)
(* has a weight, its cap of max_taps included.                               *)
WindowsCover ==
    phase = "rows" =>
      \A axis \in Axes : LET n == axis[1]  m == axis[2]  cubic == axis[3] IN
        \A i \in 0 .. m - 1 :
          /\ Tap(n, m, cubic, i) \subseteq 0 .. n - 1
          /\ \A j \in 0 .. n - 1 : Weight(n, m, cubic, i, j) # 0 => j \in Tap(n, m, cubic, i)

(* The weights of a window do not cancel out, so normalizing them never      *)
(* divides by zero.                                                          *)
WeightsAdd ==
    phase = "rows" =>
      \A axis \in Axes : LET n == axis[1]  m == axis[2]  cubic == axis[3] IN
        \A i \in 0 .. m - 1 :
          MapThenSumSet(LAMBDA j : Weight(n, m, cubic, i, j), Tap(n, m, cubic, i)) > 0

(* A thumbnail row is made of the rows its taps name, through both resizes,  *)
(* although each keeps a single row and windows overlap backwards.           *)
Source(r) == IF first = original THEN <<r>> ELSE Rows(original, first, FALSE, r)
RightRows ==
    \A i \in DOMAIN made :
      made[i] = IF thumbnail = first THEN <<Source(i - 1)>>
                ELSE LET tap == Rows(first, thumbnail, TRUE, i - 1) IN
                     [k \in DOMAIN tap |-> Source(tap[k])]

(* The thumbnail fits the square with one edge as long, keeps the crop's     *)
(* aspect ratio to one pixel although it is rounded twice, and lies in the   *)
(* middle of the square, every row of it once (Centred).                     *)
KeepsTheAspect ==
    phase = "done" =>
      LET long == Max({original.w, original.h})  short == Min({original.w, original.h}) IN
      /\ thumbnail.w \in 1 .. edge /\ thumbnail.h \in 1 .. edge
      /\ Max({thumbnail.w, thumbnail.h}) = edge
      /\ Abs(Min({thumbnail.w, thumbnail.h}) * long - edge * short) <= long
Centred ==
    phase = "done" =>
      LET top == Min(DOMAIN placed)  bottom == edge - 1 - Max(DOMAIN placed) IN
      /\ DOMAIN placed \subseteq 0 .. edge - 1 /\ Abs(bottom - top) <= 1
      /\ \A r \in DOMAIN placed : placed[r] = r - top
      /\ Cardinality(DOMAIN placed) = thumbnail.h

(* What the resizes allocate is within the budget, whatever the crop.        *)
Taps(n, m, cubic) == MapThenSumSet(LAMBDA i : Cardinality(Tap(n, m, cubic, i)) * 12 + 64, 0 .. m - 1)
Allocated(from, to, cubic) ==
    IF from = to THEN 0
    ELSE 3 * from.w + 27 * to.w + Taps(from.w, to.w, cubic) + Taps(from.h, to.h, cubic)
WithinBudget ==
    phase = "rows" =>
      Allocated(original, first, FALSE) + Allocated(first, thumbnail, TRUE) + 3 * thumbnail.w <= budget
=============================================================================
