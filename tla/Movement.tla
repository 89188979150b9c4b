------------------------------ MODULE Movement ------------------------------
(***************************************************************************)
(* Movement planning of aonw_engine: what a player knows of the world, the *)
(* routes a unit may plan under that knowledge, the best of them, and the  *)
(* part of a route the current turn pays for.  Everything here is an       *)
(* operator of one game record g, which stands for the canonical GameState *)
(* (its slices are typed in module GameState).                             *)
(*                                                                         *)
(* Here a route search returns any route of least score; how the engine's  *)
(* binary heap comes to one is module RouteSearch.                         *)
(***************************************************************************)
EXTENDS HexGrid, Terrain, Sequences, FiniteSets

CONSTANTS
    Players, Units, Artifacts, Cities,  \* entities a game may hold
    UnitIds,                            \* unit identifiers a caller may name
    None,                               \* an absent optional value
    Owner, MovementDomain,              \* of a unit
    Maximum, ArtifactMaximum,           \* a unit's movement allowance
    Defined,                            \* the units whose kind has a definition
    Traders,                            \* the units that use trade routes
    CityOwner, CityCenter, CityHexes,   \* of a city
    RoadOwners,                         \* who knows a tile's road by owning it
    TileTerrain,                        \* the terrain of a tile
    MaxCost,                            \* the largest u32
    MovementLimit                       \* MAX_MOVEMENT_BALANCE_UNITS

ASSUME EntityAssumption ==
    /\ Units \subseteq UnitIds
    /\ None \notin UnitIds \cup Artifacts \cup Cities \cup Players
    /\ Owner \in [Units -> Players]
    /\ MovementDomain \in [Units -> Domains]
    /\ Defined \subseteq Units
    /\ Traders \subseteq Units

ASSUME WorldAssumption ==
    /\ CityOwner \in [Cities -> Players]
    /\ CityCenter \in [Cities -> Tiles]
    /\ CityHexes \in [Cities -> SUBSET Tiles]
    /\ \A c, d \in Cities : CityCenter[c] = CityCenter[d] => c = d
    /\ RoadOwners \in [Tiles -> SUBSET Players]
    /\ TileTerrain \in [Tiles -> TerrainRecord]

ASSUME BalanceAssumption ==
    /\ MovementLimit \in Nat
    /\ MaxCost \in Nat
    /\ MovementLimit <= MaxCost
    /\ Maximum \in [Units -> 0 .. MovementLimit]
    /\ ArtifactMaximum \in [Units -> 0 .. MovementLimit]

-----------------------------------------------------------------------------
(* Knowledge.  A player the fog does not track sees everything.            *)

Visibility(g, p, tile) ==
    IF ~g.fog[p].tracked \/ tile \in g.fog[p].visible THEN "visible"
    ELSE IF tile \in g.fog[p].discovered THEN "discovered" ELSE "hidden"

Position(g, u) == g.units[u].position

\* unit u's owner knows where unit v stands
Observes(g, u, v) ==
    \/ Owner[v] = Owner[u]
    \/ Visibility(g, Owner[u], Position(g, v)) = "visible"

\* Fault: a plan looks through the fog.
KnownOccupied_SeesThroughFog(g, u, tile) == \E v \in Units \ {u} : Position(g, v) = tile

KnownOccupied(g, u, tile) ==
    \E v \in Units \ {u} : Position(g, v) = tile /\ Observes(g, u, v)

CityBlocks(g, u, tile) ==
    \E c \in g.cities : CityCenter[c] = tile /\ CityOwner[c] # Owner[u]

CityBlockKnown(g, u, tile) ==
    CityBlocks(g, u, tile) /\ Visibility(g, Owner[u], tile) # "hidden"

\* Fog may be planned into, but not further than three hexes away.
CanPlanThrough(g, u, tile) ==
    \/ Visibility(g, Owner[u], tile) # "hidden"
    \/ Distance(Position(g, u), tile) <= 3

KnownRoad(g, p, tile) ==
    /\ tile \in g.roads
    /\ p \in RoadOwners[tile] \/ Visibility(g, p, tile) # "hidden"

KnownCityCenter(g, p, tile) ==
    \E c \in g.cities :
        /\ CityCenter[c] = tile
        /\ CityOwner[c] = p \/ Visibility(g, p, tile) # "hidden"

-----------------------------------------------------------------------------
(* Allowances and costs.                                                   *)

MaximumMovement(g, u) ==
    IF u \notin Defined THEN 0
    ELSE IF g.units[u].carried # None THEN ArtifactMaximum[u] ELSE Maximum[u]

\* A fortified unit plans, and moves, as if its turn had not started.
Available(g, u) ==
    IF g.units[u].posture = "fortified" THEN MaximumMovement(g, u)
    ELSE g.units[u].movement

OnKnownRoad(g, p, from, to) ==
    \/ KnownRoad(g, p, from) /\ KnownRoad(g, p, to)
    \/ KnownCityCenter(g, p, from) /\ KnownRoad(g, p, to)
    \/ KnownRoad(g, p, from) /\ KnownCityCenter(g, p, to)

EnterCost(g, u, from, to) ==
    LET base == EntryCost(TileTerrain[to], MovementDomain[u])
    IN  IF /\ MovementDomain[u] = "land"
           /\ base # Blocked
           /\ OnKnownRoad(g, Owner[u], from, to)
        THEN 1 ELSE base

\* The tiles unit u's owner would plan a route over.
Open(g, u) ==
    {t \in Tiles : /\ ~KnownOccupied(g, u, t)
                   /\ CanPlanThrough(g, u, t)
                   /\ ~CityBlockKnown(g, u, t)}

\* An artifact carrier may overdraw its allowance on any terrain.
CanPay(g, u, from, to, maximum) ==
    /\ EnterCost(g, u, from, to) # Blocked
    /\ EnterCost(g, u, from, to) <= maximum \/ g.units[u].carried # None

-----------------------------------------------------------------------------
(* Routes.  A step of a route is the tile entered, what it cost, and what  *)
(* the route cost so far; a best route visits no tile twice.               *)

MovementStep == [tile : Tiles, enter : 0 .. MaxCost, cumulative : 0 .. MaxCost]

\* The paths, and the paths that go one open tile further.
Extended(paths, open) ==
    paths \cup UNION {{Append(path, t) :
                          t \in {u \in Neighbors(path[Len(path)]) \cap open :
                                    \A i \in DOMAIN path : path[i] # u}} :
                      path \in paths}

\* The paths of distinct tiles that leave start and go on over open tiles,
\* grown tile by tile.
SimplePaths(start, open) ==
    LET grown[n \in 1 .. Cols * Rows] ==
            IF n = 1 THEN {<<start>>} ELSE Extended(grown[n - 1], open)
    IN  grown[Cols * Rows]

\* The cost of a path up to each of its tiles, the first being free.
CostSoFar(g, u, path) ==
    LET total[i \in 1 .. Len(path)] ==
            IF i = 1 THEN 0 ELSE total[i - 1] + EnterCost(g, u, path[i - 1], path[i])
    IN  total

\* The steps of a path for unit u, as reconstruct_route lists them.
Priced(g, u, path) ==
    LET total == CostSoFar(g, u, path)
    IN  [i \in 1 .. Len(path) |->
            [tile |-> path[i],
             enter |-> IF i = 1 THEN 0 ELSE EnterCost(g, u, path[i - 1], path[i]),
             cumulative |-> total[i]]]

\* Routes for u to one of the targets; a sum past MaxCost is not followed.
Routes(g, u, targets, maximum) ==
    LET paths == {path \in SimplePaths(Position(g, u), Open(g, u)) :
                    /\ path[Len(path)] \in targets
                    /\ \A i \in 2 .. Len(path) : CanPay(g, u, path[i - 1], path[i], maximum)}
    IN  {route \in {Priced(g, u, path) : path \in paths} : route \in Seq(MovementStep)}

\* The turns a route takes and the movement left at each of its steps: a
\* unit with any movement left may enter a tile it cannot fully pay.
Pace(route, available, maximum) ==
    LET pace[i \in 1 .. Len(route)] ==
            IF i = 1 THEN [turns |-> 0, remaining |-> available]
            ELSE LET before == pace[i - 1]
                     cost == route[i].enter
                     turns == IF i = 2 THEN 1 ELSE before.turns
                 IN  IF cost <= before.remaining
                     THEN [turns |-> turns, remaining |-> before.remaining - cost]
                     ELSE IF before.remaining > 0 THEN [turns |-> turns, remaining |-> 0]
                     ELSE [turns |-> turns + 1,
                           remaining |-> IF cost <= maximum THEN maximum - cost ELSE 0]
    IN  pace

Score(route, available, maximum) ==
    <<Pace(route, available, maximum)[Len(route)].turns,
      route[Len(route)].cumulative, Len(route)>>

NoWorse(a, b) ==
    \/ a[1] < b[1]
    \/ a[1] = b[1] /\ a[2] < b[2]
    \/ a[1] = b[1] /\ a[2] = b[2] /\ a[3] <= b[3]

\* The routes of least (turns, cost, steps): a search returns one of them.
BestRoutes(g, u, targets) ==
    LET maximum == MaximumMovement(g, u)
        scored == {<<Score(route, Available(g, u), maximum), route>> :
                      route \in Routes(g, u, targets, maximum)}
    IN  {entry[2] : entry \in
            {e \in scored : \A other \in scored : NoWorse(e[1], other[1])}}

\* The allowance that would carry unit u onto the dearest tile of the map.
DearestTile(g, u) ==
    LET costs == {EntryCost(TileTerrain[t], MovementDomain[u]) : t \in Tiles} \ {Blocked}
    IN  IF costs = {} THEN Available(g, u)
        ELSE CHOOSE c \in costs : \A d \in costs : d <= c

ReachableIgnoringCapacity(g, u, target) ==
    u \in Defined /\ Routes(g, u, {target}, DearestTile(g, u)) # {}

-----------------------------------------------------------------------------
(* What one turn pays for.                                                 *)

PaidFor(step, available) ==
    step.cumulative <= available \/ step.cumulative - step.enter < available

\* The index of the last step the turn reaches, 1 being the tile of
\* departure: the set holds that one index.
ReachedIndex(route, available) ==
    {k \in DOMAIN route :
        /\ \A i \in 2 .. k : PaidFor(route[i], available)
        /\ k < Len(route) => ~PaidFor(route[k + 1], available)}

\* Fault: an overdraft goes below zero.
Remaining_Unsaturated(available, spent) == available - spent

Remaining(available, spent) == IF spent <= available THEN available - spent ELSE 0

\* Fault: the rest of a route keeps the costs counted from its start.
Rebased_KeepsCost(route, k) == SubSeq(route, k, Len(route))

\* What is left of a route after its k-th step, as a path of its own.
Rebased(route, k) ==
    LET paid == route[k].cumulative
    IN  [i \in 1 .. Len(route) - k + 1 |->
            [tile |-> route[i + k - 1].tile,
             enter |-> IF i = 1 THEN 0 ELSE route[i + k - 1].enter,
             cumulative |-> route[i + k - 1].cumulative - paid]]

\* QueuedMovePath::try_new
ValidQueuedPath(path) ==
    /\ Len(path) >= 2
    /\ path[1].enter = 0 /\ path[1].cumulative = 0
    /\ \A i \in 2 .. Len(path) :
          /\ path[i].enter > 0
          /\ path[i].tile \in Neighbors(path[i - 1].tile)
          /\ path[i].cumulative = path[i - 1].cumulative + path[i].enter

\* Fault: a unit with nothing left goes one tile further.
ReachableTiles_Spent(g, u) ==
    {route[Len(route)].tile : route \in
        {r \in Routes(g, u, Tiles \ {Position(g, u)}, MaximumMovement(g, u)) :
            \A i \in 1 .. Len(r) - 1 : r[i].cumulative <= Available(g, u)}}

\* The tiles find_reachable_tiles reports, other than the unit's own.
ReachableTiles(g, u) ==
    {route[Len(route)].tile : route \in
        {r \in Routes(g, u, Tiles \ {Position(g, u)}, MaximumMovement(g, u)) :
            \A i \in 1 .. Len(r) - 1 : r[i].cumulative < Available(g, u)}}
=============================================================================
