------------------------------- MODULE Terrain -------------------------------
(***************************************************************************)
(* What a tile costs to enter and to see across.  A tile's terrain is a    *)
(* record: its base, its set of features and its height.  Costs are the    *)
(* engine's fixed-point movement units, two of them to a displayed point;  *)
(* Blocked is the cost of a tile that cannot be entered.                   *)
(***************************************************************************)
EXTENDS Integers

Bases == {"grassland", "plains", "coast", "desert", "tundra", "wetlands",
          "snow", "ocean", "lake", "mountain"}
Features == {"forest", "jungle", "wetlands", "hills", "river"}
Domains == {"land", "naval", "air"}
TerrainRecord == [base : Bases, features : SUBSET Features, height : 0 .. 5]

Blocked == 0
PerPoint == 2

BaseLandCost(base) ==
    CASE base \in {"grassland", "plains", "coast"}  -> 2
      [] base \in {"desert", "tundra", "wetlands"} -> 4
      [] base = "snow" -> 6
      [] OTHER -> Blocked

\* A forest costs nothing extra on snow unless some other feature is there.
ForestSlows(tile) ==
    /\ "forest" \in tile.features
    /\ \/ tile.base # "snow"
       \/ tile.features \cap {"jungle", "wetlands", "hills"} # {}

FeatureCost(tile) ==
    (IF ForestSlows(tile) THEN PerPoint ELSE 0)
    + (IF "jungle" \in tile.features THEN PerPoint ELSE 0)
    + (IF "wetlands" \in tile.features THEN PerPoint ELSE 0)
    + (IF "hills" \in tile.features THEN PerPoint ELSE 0)

\* terrain_entry_cost: aircraft pay what land units pay.
EntryCost(tile, domain) ==
    CASE tile.base = "mountain" -> Blocked
      [] tile.base # "mountain" /\ domain = "naval" ->
            IF tile.base \in {"coast", "ocean"} THEN 2 ELSE Blocked
      [] OTHER -> IF BaseLandCost(tile.base) = Blocked THEN Blocked
                  ELSE BaseLandCost(tile.base) + FeatureCost(tile)

\* sight_cost: what looking across a tile uses up, and which tiles end a view.
SightCost(tile) ==
    1 + (IF "forest" \in tile.features THEN 1 ELSE 0)
      + (IF "jungle" \in tile.features THEN 1 ELSE 0)
      + (IF "hills" \in tile.features THEN 1 ELSE 0)
BlocksSight(tile) == tile.base = "mountain"
=============================================================================
