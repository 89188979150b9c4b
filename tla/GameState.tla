----------------------------- MODULE GameState -----------------------------
(***************************************************************************)
(* The canonical aggregate of aonw_domain: the slices of a GameState, what *)
(* try_new_with_world refuses, and the pure updates the engine applies to  *)
(* a unit, to the interaction slice, to the fog and to the contacts.       *)
(* Entities are never created or destroyed by the commands of this engine, *)
(* so a game's units are all of Units; its cities and its operational      *)
(* roads are part of the game and no command changes them.                 *)
(***************************************************************************)
EXTENDS Movement

CONSTANTS
    MaxRevision,       \* the last representable revision (u64::MAX)
    Stacking           \* TRUE: UnitOccupancyPolicy::FriendlyStacking

ASSUME PolicyAssumption == MaxRevision \in Nat /\ Stacking \in BOOLEAN

Postures == {"active", "fortified", "autoExploring", "autoWorking"}

\* busy stands for a worker job, a founding job or a worker assignment.
Unit ==
    [position : Tiles, movement : 0 .. MovementLimit, queued : Seq(MovementStep),
     tradeRoute : BOOLEAN, busy : BOOLEAN, excavating : Artifacts \cup {None},
     posture : Postures, carried : Artifacts \cup {None}]

\* Where an artifact is: at names the unit that carries or excavates it, or
\* the city that stores it; tile is where it lies or is dug up.
Location ==
    [kind : {"map", "excavation"}, tile : Tiles, at : UnitIds \cup {None}]
    \cup [kind : {"carried", "stored"}, tile : {None}, at : UnitIds \cup Cities]

\* "unit" is any pending selection owned by a unit, "city" one that names a
\* city, "research" one that names neither.
Pending ==
    [kind : {"none", "research", "city", "unit", "skip"}, owner : Players \cup {None},
     unit : UnitIds \cup {None}, city : Cities \cup {None},
     restore : 0 .. MovementLimit]
NoPending == [kind |-> "none", owner |-> None, unit |-> None, city |-> None, restore |-> 0]

Draft == [owner : Players \cup {None}, unit : UnitIds \cup {None}]
NoDraft == [owner |-> None, unit |-> None]

PlayerFog == [tracked : BOOLEAN, discovered : SUBSET Tiles, visible : SUBSET Tiles]

Game ==
    [revision : 0 .. MaxRevision, units : [Units -> Unit],
     artifacts : [Artifacts -> Location], pending : Pending, draft : Draft,
     fog : [Players -> PlayerFog], contacts : SUBSET (SUBSET Players),
     cities : SUBSET Cities, roads : SUBSET Tiles]

-----------------------------------------------------------------------------
(* What the aggregate's constructor refuses.                               *)

Permits(p, q) == Stacking /\ p = q

ValidUnits(g) ==
    /\ \A u, v \in Units :
          Position(g, u) = Position(g, v) /\ u # v => Permits(Owner[u], Owner[v])
    /\ \A u \in Units :
          LET path == g.units[u].queued
          IN  path # <<>> => ValidQueuedPath(path) /\ path[1].tile = Position(g, u)

ValidArtifacts(g) ==
    /\ \A a \in Artifacts :
          LET place == g.artifacts[a]
          IN  /\ place.kind = "carried" =>
                    place.at \in Units /\ g.units[place.at].carried = a
              /\ place.kind = "stored" => place.at \in g.cities
              /\ place.kind = "excavation" =>
                    place.at \in Units /\ g.units[place.at].excavating = a
    /\ \A u \in Units :
          LET carried == g.units[u].carried
              dug == g.units[u].excavating
          IN  /\ carried # None =>
                    g.artifacts[carried].kind = "carried" /\ g.artifacts[carried].at = u
              /\ dug # None =>
                    g.artifacts[dug].kind = "excavation" /\ g.artifacts[dug].at = u

OwnedUnit(u, p) == u \in Units /\ Owner[u] = p

ValidInteraction(g) ==
    /\ g.draft # NoDraft => OwnedUnit(g.draft.unit, g.draft.owner)
    /\ g.pending.kind \in {"unit", "skip"} => OwnedUnit(g.pending.unit, g.pending.owner)
    /\ g.pending.kind = "skip" =>
          /\ g.units[g.pending.unit].movement = 0
          /\ g.units[g.pending.unit].posture = "active"
    /\ g.pending.kind = "city" =>
          g.pending.city \in g.cities /\ CityOwner[g.pending.city] = g.pending.owner

ValidGame(g) == ValidUnits(g) /\ ValidArtifacts(g) /\ ValidInteraction(g)

-----------------------------------------------------------------------------
(* Units and the interaction slice.                                        *)

BlocksManualMovement(unit) == unit.busy \/ unit.excavating # None

AfterMovement(unit, position, movement, queued) ==
    [unit EXCEPT !.position = position, !.movement = movement,
                 !.queued = queued, !.posture = "active"]

AfterSkipTurn(unit) ==
    [unit EXCEPT !.movement = 0, !.queued = <<>>, !.posture = "active"]

AfterFortify(unit) ==
    [unit EXCEPT !.movement = 0, !.queued = <<>>, !.posture = "fortified"]

\* A pending skip of the unit gives its movement back, a fortified unit
\* wakes with its allowance, and any other unit keeps what it has.
AfterCancelAction(unit, movement) ==
    [unit EXCEPT !.movement = movement, !.queued = <<>>, !.tradeRoute = FALSE,
                 !.busy = FALSE, !.excavating = None, !.posture = "active"]

\* Fault: the restored movement goes to whichever unit is cancelled.
CancelMovement_AnySkip(g, u) ==
    IF g.pending.kind = "skip" THEN g.pending.restore
    ELSE IF g.units[u].posture = "fortified" THEN MaximumMovement(g, u)
    ELSE g.units[u].movement

CancelMovement(g, u) ==
    IF g.pending.kind = "skip" /\ g.pending.unit = u THEN g.pending.restore
    ELSE IF g.units[u].posture = "fortified" THEN MaximumMovement(g, u)
    ELSE g.units[u].movement

\* Fault: the pending interaction outlives the order it belongs to.
PendingWithoutUnit_Kept(g, u) == g.pending

DraftWithoutUnit(g, u) == IF g.draft.unit = u THEN NoDraft ELSE g.draft
PendingWithoutUnit(g, u) == IF g.pending.unit = u THEN NoPending ELSE g.pending

\* The one pending interaction of the game is replaced, whoever owned it.
PendingAfterSkip(g, u) ==
    [kind |-> "skip", owner |-> Owner[u], unit |-> u, city |-> None,
     restore |-> g.units[u].movement]

RestoreExcavation(place, u) ==
    IF place.kind = "excavation" /\ place.at = u
    THEN [kind |-> "map", tile |-> place.tile, at |-> None] ELSE place

-----------------------------------------------------------------------------
(* Fog and contacts.                                                       *)

UnitVisionRange == 2
CityCenterVisionRange == 2
MaxVisionRange == 3

SightRange(tile) ==
    LET range == UnitVisionRange + TileTerrain[tile].height \div 2
    IN  IF range < MaxVisionRange THEN range ELSE MaxVisionRange

\* Looking goes on beyond a tile that is neither a mountain nor more than
\* one level above the observer.
SeesPast(tile, height) ==
    ~BlocksSight(TileTerrain[tile]) /\ TileTerrain[tile].height <= height + 1

\* The tiles seen from origin: itself, its neighbours, and what lies within
\* range along tiles one can look past.  lit[k] is looked past at cost <= k.
VisibleFromSource(origin, range, height) ==
    LET cost(tile) == SightCost(TileTerrain[tile])
        lit[k \in 0 .. MaxVisionRange] ==
            IF k = 0 THEN {origin}
            ELSE lit[k - 1] \cup
                 {t \in Tiles : /\ SeesPast(t, height) /\ cost(t) <= k
                                /\ Neighbors(t) \cap lit[k - cost(t)] # {}}
    IN  {origin} \cup Neighbors(origin) \cup
        {t \in Tiles : /\ cost(t) <= range
                       /\ Neighbors(t) \cap lit[range - cost(t)] # {}}

SeenBy(g, p) ==
    UNION ({VisibleFromSource(Position(g, u), SightRange(Position(g, u)),
                              TileTerrain[Position(g, u)].height) :
                u \in {v \in Units : Owner[v] = p}}
           \cup {VisibleFromSource(CityCenter[c], CityCenterVisionRange, 0) :
                    c \in {d \in g.cities : CityOwner[d] = p}}
           \cup {UNION {VisibleFromSource(hex, 0, 0) : hex \in CityHexes[c]} :
                    c \in {d \in g.cities : CityOwner[d] = p}})

\* Faults: what was visible stays so; what was discovered is forgotten.
RecomputedFog_Lingers(g, p) ==
    LET visible == SeenBy(g, p) \cup g.fog[p].visible
    IN  [g.fog EXCEPT ![p] = [tracked |-> TRUE, visible |-> visible,
                              discovered |-> g.fog[p].discovered \cup visible]]
RecomputedFog_Forgets(g, p) ==
    LET seen == SeenBy(g, p)
    IN  [g.fog EXCEPT ![p] = [tracked |-> TRUE, discovered |-> seen, visible |-> seen]]

\* recompute_after_move: the player is tracked from now on, and what was
\* visible before stays discovered.
RecomputedFog(g, p) ==
    LET seen == SeenBy(g, p)
        before == IF g.fog[p].tracked THEN g.fog[p].discovered ELSE {}
    IN  [g.fog EXCEPT ![p] =
            [tracked |-> TRUE, discovered |-> before \cup seen, visible |-> seen]]

\* The players the contact scan looks for: those with fog, units or cities.
Observers(g) ==
    {p \in Players : \/ g.fog[p].tracked
                     \/ \E u \in Units : Owner[u] = p
                     \/ \E c \in g.cities : CityOwner[c] = p}

Sights(g, p, q) ==
    \/ \E c \in g.cities :
          CityOwner[c] = q /\ Visibility(g, p, CityCenter[c]) # "hidden"
    \/ \E u \in Units :
          Owner[u] = q /\ Visibility(g, p, Position(g, u)) = "visible"

SightedPairs(g) ==
    {pair \in SUBSET Players :
        \E p \in Observers(g), q \in Players :
            p # q /\ pair = {p, q} /\ Sights(g, p, q)}
=============================================================================
