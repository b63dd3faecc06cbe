------------------------- MODULE MCSequentialParts -------------------------
(* SequentialParts on inputs small enough to try all of them: one path of    *)
(* each role an asset can have; output sizes up to eight and raster sizes up *)
(* to three times that; three queries of two classes with ties and half-sure *)
(* votes; a raster of three by two under maps that shift, scale, flip, turn  *)
(* and shear; squares up to five; tensors of up to three axes; and the pages *)
(* a careless pipeline could answer.                                         *)
EXTENDS SequentialParts

Roles == {"weights", "safetensors", "stray", "compiled", "notes"}
RoleLocation == [p \in Roles |-> CASE p = "compiled" -> "compiled"
                                   [] p = "notes"    -> "elsewhere"
                                   [] OTHER          -> "upstream"]

UpToEight == 1 .. 8
ThreeTimes == 1 .. 24
UpToFive == 1 .. 5
UpToEleven == 1 .. 11
TightAndAmple == {2500, 1000000}
ThreeScores == 0 .. 2

SomeMaps == {<<1, 0, 0, 1, 0, 0>>, <<2, 0, 0, 2, -1, 1>>, <<1, 0, 0, -1, 0, 2>>,
             <<0, 1, -1, 0, 2, 0>>, <<1, 1, -1, 1, 0, 0>>, <<3, 0, 1, 2, 0, 0>>}
SomeBounds == {-2, 1, 3} \X {-1, 1} \X {0, 2, 5} \X {0, 2, 4}
SomeGrays == {0, 79, 100}

SomeShapes == {<<>>, <<0>>, <<2, 0>>, <<1>>, <<3>>} \cup ((1 .. 3) \X (1 .. 3))
              \cup {<<2, 2, 2>>, <<2, 1, 3>>, <<1, 2, 2>>}
SomeStrides == -1 .. 6
SomeCapacities == {0, 3, 6, 9, 24}

Text(i) == [id |-> i, kind |-> Nothing]
Formula(i, k) == [id |-> i, kind |-> k]
RawRegions == {<<>>, <<Text(1)>>, <<Formula(1, "inline")>>,
               <<Formula(1, "display"), Formula(2, "inline")>>,
               <<Formula(1, "inline"), Formula(1, "inline")>>}
RawFormulas == {<<>>, <<1>>, <<2>>, <<1, 2>>, <<1, 1>>}
RawOrders == {Nothing, <<1>>, <<1, 2>>, <<2, 1>>, <<1, 1>>}
RawPages == [regions : RawRegions, formulas : RawFormulas, order : RawOrders]

SmallLimits == 0 .. 20
=============================================================================
