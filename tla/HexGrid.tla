------------------------------- MODULE HexGrid -------------------------------
(***************************************************************************)
(* The odd-q, flat-top hex grid of aonw_domain: a tile is a pair           *)
(* <<col, row>>, shifted half a row down in the odd columns.  The machine  *)
(* width of a coordinate plays no part: content validation keeps a map     *)
(* within 40 x 30 tiles.                                                   *)
(***************************************************************************)
EXTENDS Integers

CONSTANTS Cols, Rows    \* the dimensions of the map

ASSUME GridAssumption == Cols \in Nat \ {0} /\ Rows \in Nat \ {0}

Tiles == {<<col, row>> : col \in 0 .. Cols - 1, row \in 0 .. Rows - 1}

EvenColumnOffsets ==
    <<<<1, -1>>, <<1, 0>>, <<0, 1>>, <<-1, 0>>, <<-1, -1>>, <<0, -1>>>>
OddColumnOffsets ==
    <<<<1, 0>>, <<1, 1>>, <<0, 1>>, <<-1, 1>>, <<-1, 0>>, <<0, -1>>>>

Directions == 1 .. 6

\* The coordinate next to c in a direction.
Toward(c, direction) ==
    LET offset == (IF c[1] % 2 = 0 THEN EvenColumnOffsets ELSE OddColumnOffsets)[direction]
    IN  <<c[1] + offset[1], c[2] + offset[2]>>

\* The six coordinates around c, inside the map or not.
Around(c) == {Toward(c, direction) : direction \in Directions}

\* The neighbours of c on the map; an origin off the map has none.
Neighbors(c) == IF c \in Tiles THEN Around(c) \cap Tiles ELSE {}

\* Cube coordinates, and the distance between two tiles in hexes.
CubeZ(c) == c[2] - ((c[1] - (c[1] % 2)) \div 2)
CubeY(c) == 0 - c[1] - CubeZ(c)
Apart(m, n) == IF m < n THEN n - m ELSE m - n
Larger(m, n) == IF m < n THEN n ELSE m
Distance(a, b) ==
    Larger(Apart(a[1], b[1]),
           Larger(Apart(CubeY(a), CubeY(b)), Apart(CubeZ(a), CubeZ(b))))
=============================================================================
