---------------------------- MODULE FormulaCrop ----------------------------
(* From a formula's bounds on the page to the pixels the recognizer sees:    *)
(* Affine.crop_pixels of podoco/src/geometry.rs, then Pixels.crop_margin of  *)
(* podoco/src/formula/preprocess.rs.  Coordinates are integers and their     *)
(* quotients by the determinant, where the code uses f64.                    *)
EXTENDS Integers, FiniteSets, FiniteSetsExt

CONSTANTS
    Maps,             \* pixel_to_page: <<a, b, c, d, tx, ty>>
    Bounds,           \* of a region: <<left, top, right, bottom>>
    Width, Height,    \* of the raster
    White, Grays      \* a gray level is out of 0 .. White; 255 in the code

Columns == 0 .. Width - 1
Lines == 0 .. Height - 1

VARIABLES
    map, bounds, gray,
    phase,    \* "region", "cropped", "trimmed" or "error"
    crop,     \* [left, top, right, bottom], right and bottom exclusive
    region    \* the crop before trimming

input == <<map, bounds, gray>>
vars == <<input, phase, crop, region>>

Whole == [left |-> 0, top |-> 0, right |-> Width, bottom |-> Height]
Det(m) == m[1] * m[4] - m[2] * m[3]
Init ==
    /\ map \in {m \in Maps : Det(m) # 0} /\ gray \in [Columns \X Lines -> Grays]
    /\ bounds \in {r \in Bounds : r[1] < r[3] /\ r[2] < r[4]}
    /\ phase = "region" /\ crop = Whole /\ region = Whole

-----------------------------------------------------------------------------
(* The crop covers the image of the bounds under the inverse map.            *)

Floor(n, d) == IF d > 0 THEN n \div d ELSE (-n) \div (-d)
Ceiling(n, d) == -Floor(-n, d)
Clamp(v, high) == Max({0, Min({v, high})})

(* The inverse of a point, times the determinant.                            *)
InverseX(p) == map[4] * p[1] - map[3] * p[2] + map[3] * map[6] - map[4] * map[5]
InverseY(p) == map[1] * p[2] - map[2] * p[1] + map[2] * map[5] - map[1] * map[6]

Corners(r) == {r[1], r[3]} \X {r[2], r[4]}

Covering(r) ==
    LET d == Det(map) IN
    [left   |-> Clamp(Min({Floor(InverseX(p), d) : p \in Corners(r)}), Width),
     top    |-> Clamp(Min({Floor(InverseY(p), d) : p \in Corners(r)}), Height),
     right  |-> Clamp(Max({Ceiling(InverseX(p), d) : p \in Corners(r)}), Width),
     bottom |-> Clamp(Max({Ceiling(InverseY(p), d) : p \in Corners(r)}), Height)]

Nonempty(c) == c.left < c.right /\ c.top < c.bottom

CropPixels ==
    /\ phase = "region"
    /\ IF Nonempty(Covering(bounds))
       THEN crop' = Covering(bounds) /\ region' = Covering(bounds) /\ phase' = "cropped"
       ELSE phase' = "error" /\ UNCHANGED <<crop, region>>
    /\ UNCHANGED input

-----------------------------------------------------------------------------
(* Trimming to what is dark, measured between the crop's own extremes; a     *)
(* crop of one level is left alone.                                          *)

InsideX(c) == c.left .. c.right - 1
InsideY(c) == c.top .. c.bottom - 1
Inside(c) == InsideX(c) \X InsideY(c)
Low(c) == Min({gray[p] : p \in Inside(c)})
High(c) == Max({gray[p] : p \in Inside(c)})

Dark(c) == {p \in Inside(c) : (gray[p] - Low(c)) * 255 < 200 * (High(c) - Low(c))}

(* l, t, r and b are within the crop; the crop is moved by them.             *)
Trimmed(c) ==
    LET l == Min({p[1] - c.left : p \in Dark(c)})  r == Max({p[1] - c.left + 1 : p \in Dark(c)})
        t == Min({p[2] - c.top : p \in Dark(c)})   b == Max({p[2] - c.top + 1 : p \in Dark(c)})
    IN [left |-> c.left + l, top |-> c.top + t, right |-> c.left + r, bottom |-> c.top + b]

CropMargin ==
    /\ phase = "cropped"
    /\ crop' = IF Low(crop) = High(crop) THEN crop ELSE Trimmed(crop)
    /\ phase' = "trimmed"
    /\ UNCHANGED <<input, region>>

Next == CropPixels \/ CropMargin
Spec == Init /\ [][Next]_vars

-----------------------------------------------------------------------------
(* Properties.                                                               *)

ToPage(x, y) == <<map[1] * x + map[3] * y + map[5], map[2] * x + map[4] * y + map[6]>>
Within(p, r) == r[1] <= p[1] /\ p[1] <= r[3] /\ r[2] <= p[2] /\ p[2] <= r[4]
PixelCorners == (0 .. Width) \X (0 .. Height)

(* The crop misses nothing of the region: a pixel corner that the page map   *)
(* puts inside the bounds is inside the crop, also when the map turns, flips *)
(* or shears; and a region is refused only when no such corner is interior.  *)
CoversTheRegion ==
    \A k \in PixelCorners : Within(ToPage(k[1], k[2]), bounds) =>
      /\ phase = "cropped" => /\ crop.left <= k[1] /\ k[1] <= crop.right
                              /\ crop.top <= k[2] /\ k[2] <= crop.bottom
      /\ phase = "error" => k[1] \in {0, Width} \/ k[2] \in {0, Height}

(* What reaches the resize is a nonempty part of the region's crop, so the   *)
(* sizes it divides by are never zero and no row outside is read.            *)
NeverEmpty ==
    phase \in {"cropped", "trimmed"} =>
      /\ Nonempty(crop)
      /\ region.left <= crop.left /\ crop.right <= region.right
      /\ region.top <= crop.top /\ crop.bottom <= region.bottom
      /\ region.right <= Width /\ region.bottom <= Height

(* Trimming leaves out no ink and all the margin: the dark pixels are all    *)
(* inside and every edge of the crop touches one.                            *)
FitsTheInk ==
    phase = "trimmed" /\ Cardinality({gray[p] : p \in Inside(region)}) > 1 =>
      LET ink == {p \in Inside(region) : (gray[p] - Low(region)) * 255 < 200 * (High(region) - Low(region))} IN
      /\ ink \subseteq Inside(crop)
      /\ \E p \in ink : p[1] = crop.left
      /\ \E p \in ink : p[1] = crop.right - 1
      /\ \E p \in ink : p[2] = crop.top
      /\ \E p \in ink : p[2] = crop.bottom - 1
=============================================================================
