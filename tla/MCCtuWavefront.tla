--------------------------- MODULE MCCtuWavefront ---------------------------
(* Instances of CtuWavefront for TLC: one picture under every layout of    *)
(* tiles, and two pictures in flight with inter-frame parallelism.         *)
EXTENDS CtuWavefront

One(n) == [i \in 0 .. n - 1 |-> n - 1]

(* Tiles that end at element e and at the end. *)
Two(n, e) == [i \in 0 .. n - 1 |-> IF i <= e THEN e ELSE n - 1]

Untiled ==
  [ pics : {{1}}, lastCol : {One(Cols)}, lastRow : {One(Rows)},
    acrossTiles : {TRUE}, tileParallel : {TRUE}, wppSync : BOOLEAN,
    encDelay : {1, 2}, ifpLines : {0}, asuHeight : {1} ]

Tiled ==
  [ pics : {{1}}, lastCol : {Two(Cols, 0)}, lastRow : {Two(Rows, 0)},
    acrossTiles : BOOLEAN, tileParallel : BOOLEAN, wppSync : {FALSE},
    encDelay : {1}, ifpLines : {0}, asuHeight : {1} ]

(* IFP allows a single tile row and sets the ALF unit to the CTU size. *)
Ifp(lastCol, option) ==
  [ pics : {Pics}, lastCol : {lastCol}, lastRow : {One(Rows)},
    acrossTiles : {option}, tileParallel : {option}, wppSync : {TRUE},
    encDelay : {1}, ifpLines : {1}, asuHeight : {1} ]

(* Picture 2 predicts from picture 1. *)
Chain == [p \in Pics |-> IF p = 1 THEN {} ELSE {p - 1}]

AllModes ==
  Untiled \cup Tiled \cup Ifp(One(Cols), TRUE)
    \cup Ifp(Two(Cols, 0), TRUE) \cup Ifp(Two(Cols, 0), FALSE)
=============================================================================
