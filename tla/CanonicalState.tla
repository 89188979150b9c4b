--------------------------- MODULE CanonicalState ---------------------------
(***************************************************************************)
(* The whole canonical game state of aonw_domain as data, identifiers      *)
(* included, and everything its constructors refuse.  GameState holds the  *)
(* slices that the engine's commands act on; this module holds every field *)
(* that is kept in a file.  A coordinate is a pair <<col, row>> of any two *)
(* integers; enumerations are numbered from 0 in their declared order.     *)
(***************************************************************************)
EXTENDS Bytes

MaxNameBytes == 256

Active == 0             \* UnitPosture::Active
FriendlyStacking == 1   \* UnitOccupancyPolicy::FriendlyStacking

Grid(cols, rows) == INSTANCE HexGrid WITH Cols <- cols, Rows <- rows
InBounds(g, c) == c \in Grid(g.cols, g.rows)!Tiles
Adjacent(a, b) == b \in Grid(1, 1)!Around(a)

-----------------------------------------------------------------------------
(* What the types of aonw_domain hold.  The alternatives of an enumeration *)
(* are one record whose fields are None where an alternative has none.     *)

HexCoord == SignedNumbers \X SignedNumbers
Dimensions == ShortNumbers \ {0}      \* of HexGridBounds
MovementStep == [tile : HexCoord, enter : Numbers, total : Numbers]
QueuedMovePath == [target : HexCoord, steps : ListsOf(MovementStep)]
MerchantTradeRoute ==
    [origin : Ids, destination : Ids, steps : ListsOf(MovementStep), fingerprint : Texts]
ArmyTroop == [kind : 0 .. 2, count : Numbers]
WorkerJob ==
    [target : HexCoord, improvement : Optional(0 .. 18), remaining : Numbers, total : Numbers]
CityFoundingJob ==
    [center : HexCoord, hexes : ListsOf(HexCoord), remaining : Numbers, total : Numbers]
UnitActivity ==
    [job : Optional(WorkerJob), founding : Optional(CityFoundingJob),
     assignment : Optional(HexCoord), excavating : Optional(Ids)]
Unit ==
    [id : Ids, owner : Ids, kind : 0 .. 16, name : Texts, position : HexCoord,
     movement : Numbers, army : ListsOf(ArmyTroop), queued : Optional(QueuedMovePath),
     merchant : Optional(MerchantTradeRoute), activity : UnitActivity, charges : Numbers,
     hitPoints : Optional(Numbers), experience : Numbers, posture : 0 .. 3,
     carried : Optional(Ids)]

\* City::new takes the center out of the controlled hexes.
City ==
    {c \in [id : Ids, owner : Ids, center : HexCoord, hexes : SortedSets(HexCoord)] :
        c.center \notin c.hexes}

Only(condition, S) == IF condition THEN S ELSE {None}
WorldArtifactLocation ==
    {l \in [kind : {"map", "carried", "stored", "excavation"}, unit : Optional(Ids),
            city : Optional(Ids), tile : Optional(HexCoord), remaining : Optional(Numbers)] :
        /\ l.unit \in Only(l.kind \in {"carried", "excavation"}, Ids)
        /\ l.city \in Only(l.kind = "stored", Ids)
        /\ l.tile \in Only(l.kind \in {"map", "excavation"}, HexCoord)
        /\ l.remaining \in Only(l.kind = "excavation", Numbers)}
WorldArtifact == [id : Ids, type : 0 .. 7, location : WorldArtifactLocation]

CityFoundingDraft ==
    [unit : Ids, owner : Ids, center : HexCoord, hexes : ListsOf(HexCoord)]
CityKinds == {"cityWorkedHexSelection", "cityExpansionSelection"}
SelectionKinds ==
    {"workerActionSelection", "merchantTradeRouteSelection", "merchantMoveToCitySelection",
     "unitTurnSkip", "attackTargeting", "commanderMergeSelection"}
PendingInteraction ==
    {p \in [kind : {"researchSelection"} \cup CityKinds \cup SelectionKinds, owner : Ids,
            city : Optional(Ids), unit : Optional(Ids), restore : Optional(Numbers),
            improvement : Optional(0 .. 18), defender : Optional(HexCoord)] :
        /\ p.city \in Only(p.kind \in CityKinds, Ids)
        /\ p.unit \in Only(p.kind \in SelectionKinds, Ids)
        /\ p.restore \in Only(p.kind = "unitTurnSkip", Numbers)
        /\ p.improvement # None => p.kind = "workerActionSelection"
        /\ p.defender # None => p.kind = "attackTargeting"}

\* What a player sees is discovered.
PlayerFog ==
    {f \in [player : Ids, discovered : SortedSets(HexCoord), visible : SortedSets(HexCoord)] :
        f.visible \subseteq f.discovered}
PlayerPair == {p \in Ids \X Ids : Before(p[1], p[2])}
TransportSegment ==
    [coordinate : HexCoord, condition : 0 .. 1, builder : Ids, city : Optional(Ids)]

\* GameState.  Fog is kept by player and roads by coordinate.
State ==
    {g \in [revision : LongNumbers, turn : Numbers, cols : Dimensions, rows : Dimensions,
            policy : 0 .. 1, units : ListsOf(Unit), cities : ListsOf(City),
            artifacts : ListsOf(WorldArtifact), draft : Optional(CityFoundingDraft),
            pending : Optional(PendingInteraction), fog : SortedSets(PlayerFog),
            contacts : SortedSets(PlayerPair), roads : SortedSets(TransportSegment)] :
        /\ \A f, h \in g.fog : f.player = h.player => f = h
        /\ \A r, s \in g.roads : r.coordinate = s.coordinate => r = s}

-----------------------------------------------------------------------------
(* QueuedMovePath::try_new and UnitBuilder::build.                         *)

ValidQueuedPath(path) ==
    LET steps == path.steps
    IN  /\ Len(steps) >= 2
        /\ steps[1].enter = 0 /\ steps[1].total = 0
        /\ \A i \in 2 .. Len(steps) :
              /\ steps[i].enter > 0
              /\ Adjacent(steps[i - 1].tile, steps[i].tile)
              /\ steps[i].total = steps[i - 1].total + steps[i].enter
        /\ Last(steps).tile = path.target

ValidDuration(job) ==
    job # None => job.total > 0 /\ job.remaining <= job.total

ValidUnit(unit) ==
    /\ ~ IsBlank(unit.name) /\ Len(unit.name) <= MaxNameBytes
    /\ \A i \in DOMAIN unit.army : unit.army[i].count > 0
    /\ Distinct(LAMBDA troop : troop.kind, unit.army)
    /\ ValidDuration(unit.activity.job) /\ ValidDuration(unit.activity.founding)
    /\ unit.hitPoints # 0
    /\ unit.queued # None =>
          ValidQueuedPath(unit.queued) /\ unit.queued.steps[1].tile = unit.position

-----------------------------------------------------------------------------
(* GameState::try_new_with_world.                                          *)

Unique(entities) == Distinct(LAMBDA entity : entity.id, entities)

\* The entity of this identifier satisfies Test.
Finds(entities, id, Test(_)) ==
    \E i \in DOMAIN entities : entities[i].id = id /\ Test(entities[i])

Shares(g, u, v) == g.policy = FriendlyStacking /\ u.owner = v.owner

ValidUnits(g) ==
    /\ \A i \in DOMAIN g.units : InBounds(g, g.units[i].position)
    /\ Unique(g.units)
    /\ \A i, j \in DOMAIN g.units :
          g.units[i].position = g.units[j].position /\ i # j =>
              Shares(g, g.units[i], g.units[j])

ValidCities(g) ==
    /\ \A i \in DOMAIN g.cities :
          \A c \in {g.cities[i].center} \cup g.cities[i].hexes : InBounds(g, c)
    /\ Unique(g.cities)

ValidLocation(g, artifact) ==
    LET place == artifact.location
    IN  /\ place.kind \in {"map", "excavation"} => InBounds(g, place.tile)
        /\ place.kind = "carried" =>
              Finds(g.units, place.unit, LAMBDA u : u.carried = artifact.id)
        /\ place.kind = "stored" => Finds(g.cities, place.city, LAMBDA c : TRUE)
        /\ place.kind = "excavation" =>
              Finds(g.units, place.unit, LAMBDA u : u.activity.excavating = artifact.id)

IsAt(artifact, kind, unit) ==
    artifact.location.kind = kind /\ artifact.location.unit = unit.id

ValidArtifacts(g) ==
    /\ Unique(g.artifacts)
    /\ \A i \in DOMAIN g.artifacts : ValidLocation(g, g.artifacts[i])
    /\ \A i \in DOMAIN g.units :
          LET unit == g.units[i]
          IN  /\ unit.carried # None =>
                    Finds(g.artifacts, unit.carried, LAMBDA a : IsAt(a, "carried", unit))
              /\ unit.activity.excavating # None =>
                    Finds(g.artifacts, unit.activity.excavating,
                          LAMBDA a : IsAt(a, "excavation", unit))

Owned(entities, id, owner) == Finds(entities, id, LAMBDA entity : entity.owner = owner)

ValidDraft(g) ==
    g.draft # None =>
        /\ Owned(g.units, g.draft.unit, g.draft.owner)
        /\ InBounds(g, g.draft.center)
        /\ \A i \in DOMAIN g.draft.hexes : InBounds(g, g.draft.hexes[i])

ValidPending(g) ==
    g.pending # None =>
        /\ g.pending.unit # None => Owned(g.units, g.pending.unit, g.pending.owner)
        /\ g.pending.kind = "unitTurnSkip" =>
              Finds(g.units, g.pending.unit,
                    LAMBDA u : u.movement = 0 /\ u.posture = Active)
        /\ g.pending.city # None => Owned(g.cities, g.pending.city, g.pending.owner)
        /\ g.pending.defender # None => InBounds(g, g.pending.defender)

ValidEnvironment(g) ==
    /\ \A fog \in g.fog : \A c \in fog.discovered : InBounds(g, c)
    /\ \A road \in g.roads : InBounds(g, road.coordinate)

ValidState(g) ==
    /\ \A i \in DOMAIN g.units : ValidUnit(g.units[i])
    /\ ValidUnits(g) /\ ValidCities(g) /\ ValidArtifacts(g)
    /\ ValidDraft(g) /\ ValidPending(g) /\ ValidEnvironment(g)

-----------------------------------------------------------------------------
\* The same game: entities are found by identifier, so the order in which
\* they are listed tells no two games apart.
Content(g) ==
    [g EXCEPT !.units = ToSet(g.units), !.cities = ToSet(g.cities),
              !.artifacts = ToSet(g.artifacts)]
SameGame(g, h) == Content(g) = Content(h)
=============================================================================
