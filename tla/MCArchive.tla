----------------------------- MODULE MCArchive -----------------------------
(***************************************************************************)
(* A map of 5 by 5 in several versions, scenarios, and states that use    *)
(* every kind of entity; and the changes that a file may come back with.   *)
(***************************************************************************)
EXTENDS Archive

P1 == <<112>>          \* "p"
P2 == <<112, 113>>     \* "pq"
Long(n) == [i \in 1 .. n |-> 97]

-----------------------------------------------------------------------------
(* Maps.                                                                   *)

TileAt(i) ==
    [col |-> (i - 1) % 5, row |-> (i - 1) \div 5, height |-> IF i = 9 THEN 5 ELSE 0,
     terrains |-> IF i = 1 THEN <<"ocean">>
                  ELSE IF i = 4 THEN <<"plains", "hills", "forest">> ELSE <<"plains">>,
     resources |-> IF i = 7 THEN <<"wheat", "iron">> ELSE <<>>]
Ruins == [id |-> <<114>>, type |-> "ruins", hex |-> [col |-> 1, row |-> 2],
          requiredHoldTurns |-> 1, victoryPoints |-> 0, goldPerTurn |-> 2]
BaseMap ==
    [schemaVersion |-> 1, gridLayout |-> "oddQFlatTop", cols |-> 5, rows |-> 5,
     mapName |-> <<109>>, defaultZoom |-> 1,
     objectives |-> <<Ruins, [Ruins EXCEPT !.id = <<104>>, !.hex.col = 0]>>,
     tiles |-> [i \in 1 .. 25 |-> TileAt(i)]]
SameMaps ==
    {BaseMap, [BaseMap EXCEPT !.tiles = Reverse(BaseMap.tiles), !.defaultZoom = 2],
     [BaseMap EXCEPT !.tiles[7].resources = <<"iron", "wheat">>,
                     !.objectives = Reverse(BaseMap.objectives)]}
OtherMaps ==
    {[BaseMap EXCEPT !.tiles[9].height = 4], [BaseMap EXCEPT !.mapName = <<110>>],
     [BaseMap EXCEPT !.cols = 4, !.tiles = SelectSeq(BaseMap.tiles, LAMBDA t : t.col < 4)]}
BadMaps ==
    {[BaseMap EXCEPT !.tiles[3] = TileAt(2)], [BaseMap EXCEPT !.tiles = Tail(BaseMap.tiles)],
     [BaseMap EXCEPT !.tiles[2].terrains = <<"hills">>],
     [BaseMap EXCEPT !.objectives[2].hex.col = 1], [BaseMap EXCEPT !.defaultZoom = 0]}
MCMaps == SameMaps \cup OtherMaps \cup BadMaps

-----------------------------------------------------------------------------
(* Scenarios.                                                              *)

Scout == [id |-> <<97>>, ownerPlayerId |-> P1, kind |-> "scout", name |-> <<110>>,
          col |-> 2, row |-> 2]
ScenarioWith(units) ==
    [schemaVersion |-> 1, scenarioId |-> <<115>>, mapId |-> <<109>>,
     rulesetId |-> StandardRules.rulesetId, initialUnits |-> units]
Second == [Scout EXCEPT !.id = <<98>>, !.kind = "reconPlane"]
MCScenarios ==
    {ScenarioWith(units) : units \in
        {<<Scout, Second>>, <<Scout, [Second EXCEPT !.ownerPlayerId = P2]>>, <<Scout, Scout>>,
         <<[Scout EXCEPT !.col = 5]>>, <<[Scout EXCEPT !.name = <<32>>]>>,
         <<[Scout EXCEPT !.name = Long(256), !.id = Long(128)]>>,
         <<[Scout EXCEPT !.name = Long(257)]>>, <<[Scout EXCEPT !.id = Long(129)]>>}}

-----------------------------------------------------------------------------
(* States.                                                                 *)

Troop(kind, count) == [kind |-> kind, count |-> count]
StepTo(c, enter, total) == [tile |-> c, enter |-> enter, total |-> total]
Plain(id, owner, c) ==
    [id |-> id, owner |-> owner, kind |-> 1, name |-> <<110>>, position |-> c,
     movement |-> 6, army |-> <<>>, queued |-> None, merchant |-> None, activity |-> Idle,
     charges |-> 0, hitPoints |-> None, experience |-> 0, posture |-> 0, carried |-> None]
Route == <<StepTo(<<1, 1>>, 0, 0), StepTo(<<1, 2>>, 2, 2), StepTo(<<1, 3>>, 2, 4)>>
Commander ==
    [Plain(<<97>>, P1, <<1, 1>>) EXCEPT
        !.kind = 0, !.army = <<Troop(0, 2), Troop(2, 1)>>, !.hitPoints = 3,
        !.queued = [target |-> <<1, 3>>, steps |-> Route], !.carried = <<120>>]
Worker ==
    [Plain(<<98>>, P1, <<2, 2>>) EXCEPT
        !.kind = 4, !.activity.excavating = <<121>>, !.charges = 2, !.posture = 3,
        !.activity.job = [target |-> <<2, 2>>, improvement |-> 3, remaining |-> 1, total |-> 2],
        !.activity.assignment = <<2, 1>>]
Merchant ==
    [Plain(<<99>>, P2, <<3, 3>>) EXCEPT
        !.kind = 5, !.movement = 0,
        !.merchant = [origin |-> <<107>>, destination |-> <<107>>, steps |-> Route,
                      fingerprint |-> <<102>>],
        !.activity.founding = [center |-> <<3, 3>>, hexes |-> <<<<3, 2>>, <<2, 3>>>>,
                               remaining |-> 2, total |-> 2]]
Place(kind, unit, city, tile, remaining) ==
    [kind |-> kind, unit |-> unit, city |-> city, tile |-> tile, remaining |-> remaining]
Relics ==
    <<[id |-> <<121>>, type |-> 0, location |-> Place("excavation", <<98>>, None, <<2, 2>>, 2)],
      [id |-> <<120>>, type |-> 1, location |-> Place("carried", <<97>>, None, None, None)],
      [id |-> <<122>>, type |-> 2, location |-> Place("stored", None, <<107>>, None, None)],
      [id |-> <<119>>, type |-> 7, location |-> Place("map", None, None, <<0, 4>>, None)]>>
Town(id, owner, c, hexes) == [id |-> id, owner |-> owner, center |-> c, hexes |-> hexes]
Pend(kind, unit, city) ==
    [kind |-> kind, owner |-> P2, unit |-> unit, city |-> city, restore |-> None,
     improvement |-> None, defender |-> None]
Busy ==
    [revision |-> 300, turn |-> 2, cols |-> 5, rows |-> 5, policy |-> FriendlyStacking,
     units |-> <<Worker, Commander, Merchant>>,
     cities |-> <<Town(<<107>>, P2, <<3, 2>>, {<<3, 3>>, <<2, 2>>})>>, artifacts |-> Relics,
     draft |-> [unit |-> <<97>>, owner |-> P1, center |-> <<1, 1>>, hexes |-> <<<<1, 0>>>>],
     pending |-> [Pend("unitTurnSkip", <<99>>, None) EXCEPT !.restore = 14],
     fog |-> {[player |-> P1, discovered |-> {<<1, 1>>, <<2, 1>>}, visible |-> {<<1, 1>>}],
              [player |-> P2, discovered |-> {<<3, 3>>}, visible |-> {}]},
     contacts |-> {<<P1, P2>>, <<P1, <<113>>>>},
     roads |-> {[coordinate |-> <<1, 1>>, condition |-> 0, builder |-> P1, city |-> None],
                [coordinate |-> <<3, 2>>, condition |-> 1, builder |-> P2, city |-> <<107>>]}]
Quiet ==
    [Busy EXCEPT !.units = <<Plain(<<97>>, P2, <<4, 4>>)>>, !.cities = <<>>, !.artifacts = <<>>,
                 !.draft = None, !.pending = None, !.fog = {}, !.contacts = {}, !.roads = {}]
\* More movement than a document may hold.
Restless == [Quiet EXCEPT !.units[1].movement = 15]
Choosing(pending) ==
    [Quiet EXCEPT !.pending = pending, !.units[1].id = <<99>>,
                  !.cities = <<Town(<<107>>, P2, <<3, 2>>, {})>>]
MCGames ==
    {Busy, Quiet, Restless, Choosing(Pend("cityExpansionSelection", None, <<107>>)),
     Choosing([Pend("attackTargeting", <<99>>, None) EXCEPT !.defender = <<1, 1>>]),
     Choosing([Pend("workerActionSelection", <<99>>, None) EXCEPT !.improvement = 0])}
MCActors == {P1}

-----------------------------------------------------------------------------
(* Changes.                                                                *)

With(w, field, S) == {[w EXCEPT ![field] = x] : x \in S}
Without(w, field) == Restrict(w, DOMAIN w \ {field})
Relisted(s) == {Reverse(s)} \cup (IF s = <<>> THEN {} ELSE {Tail(s), Append(s, s[1])})
Somewhere(s, Change(_)) ==
    UNION {{[s EXCEPT ![i] = x] : x \in Change(s[i])} : i \in DOMAIN s}
Inside(w, field, Change(_)) ==
    IF w[field] = None THEN {} ELSE With(w, field, Change(w[field]))
Lists(w, field, Change(_)) ==
    With(w, field, Relisted(w[field]) \cup Somewhere(w[field], Change))

\* A byte moves from the start of one text to the end of the one before it.
Shifted(w, first, second) ==
    IF Len(w[second]) < 2 THEN {}
    ELSE {[w EXCEPT ![first] = Append(w[first], w[second][1]), ![second] = Tail(w[second])]}

HexChanges(c) == With(c, "col", {c.col + 1, 5})
StepChanges(s) == With(s, "enterCostUnits", {s.enterCostUnits + 1}) \cup With(s, "row", {0})
PathChanges(p) == Lists(p, "steps", StepChanges) \cup With(p, "targetRow", {p.targetRow - 1})
MerchantChanges(m) ==
    Lists(m, "steps", StepChanges) \cup With(m, "originCityId", {<<>>, <<120, 102>>})
    \cup With(m, "transportNetworkFingerprint", {<<>>})
JobChanges(j) ==
    With(j, "remainingTurns", {0, 3}) \cup With(j, "improvement", {"farm", "moat"})
    \cup {[Without(j, "improvement") EXCEPT !.kind = "roadConstruction"], Without(j, "target")}
ActivityChanges(a) ==
    Inside(a, "workerJob", JobChanges) \cup With(a, "workerJob", {None})
    \cup Inside(a, "cityFoundingJob", LAMBDA j : Lists(j, "controlledHexes", HexChanges))
    \cup With(a, "excavatingArtifactId", {None, <<120>>}) \cup {Without(a, "workerAssignment")}
TroopChanges(t) == With(t, "count", {0, t.count + 256}) \cup With(t, "kind", {"archer"})
UnitChanges(u) ==
    With(u, "name", {<<32>>, <<110, 110>>, Long(257)}) \cup With(u, "movementUnits", {15, 1})
    \cup With(u, "kind", {"tank"}) \cup With(u, "posture", {"fortified"})
    \cup With(u, "hitPoints", {0, 1, None}) \cup With(u, "carriedArtifactId", {None, <<122>>})
    \cup With(u, "id", {<<>>, Long(129)}) \cup With(u, "col", {1, 5})
    \cup Shifted(u, "id", "ownerPlayerId")
    \cup Lists(u, "army", TroopChanges) \cup Inside(u, "queuedPath", PathChanges)
    \cup Inside(u, "merchantTradeRoute", MerchantChanges)
    \cup With(u, "activity", ActivityChanges(u.activity))
    \cup {Without(u, "carriedArtifactId"), Without(u, "id"), u @@ [extra |-> None]}
CityChanges(c) ==
    Lists(c, "controlledHexes", HexChanges) \cup With(c, "ownerPlayerId", {P1})
    \cup With(c, "controlledHexes", {Append(c.controlledHexes, c.center)})
LocationChanges(l) ==
    CASE l.kind = "map" -> With(l, "coordinate", HexChanges(l.coordinate))
      [] l.kind = "excavation" -> With(l, "remainingTurns", {0, 258})
      [] l.kind = "carried" -> {[kind |-> "stored", cityId |-> <<107>>], Without(l, "unitId")}
      [] OTHER -> With(l, "cityId", {<<97>>})
ArtifactChanges(a) ==
    With(a, "type", {"heroSword"}) \cup With(a, "location", LocationChanges(a.location))
PendingChanges(p) ==
    With(p, "ownerPlayerId", {P1})
    \cup (CASE p.type = "unitTurnSkip" -> With(p, "restoreMovementUnits", {15, 1})
            [] p.type = "attackTargeting" -> With(p, "defender", {None, [col |-> 9, row |-> 0]})
            [] p.type = "workerActionSelection" -> With(p, "improvement", {None, "mine"})
            [] OTHER -> With(p, "type", {"cityWorkedHexSelection", "unitTurnSkip"}))
DraftChanges(d) ==
    Lists(d, "controlledHexes", HexChanges) \cup With(d, "unitId", {<<98>>, <<99>>})
InteractionChanges(i) ==
    Inside(i, "pending", PendingChanges) \cup Inside(i, "cityFoundingDraft", DraftChanges)
    \cup With(i, "pending", {None}) \cup {Without(i, "cityFoundingDraft")}
FogChanges(f) ==
    Lists(f, "visibleHexes", HexChanges) \cup Lists(f, "discoveredHexes", HexChanges)
    \cup (IF Len(f.discoveredHexes) < 2 THEN {}
          ELSE {[f EXCEPT !.visibleHexes = Append(@, f.discoveredHexes[2]),
                          !.discoveredHexes = <<f.discoveredHexes[1]>>]})
PairChanges(p) ==
    {[firstPlayerId |-> p.secondPlayerId, secondPlayerId |-> p.firstPlayerId],
     [p EXCEPT !.secondPlayerId = p.firstPlayerId]}
    \cup Shifted(p, "firstPlayerId", "secondPlayerId")
RoadChanges(r) == With(r, "condition", {"operational"}) \cup With(r, "builtByCityId", {P1, None})
StateChanges(w) ==
    With(w, "revision", {301, 0}) \cup With(w, "turn", {0}) \cup With(w, "cols", {0, 6})
    \cup With(w, "occupancyPolicy", {"exclusive"}) \cup With(w, "schemaVersion", {2})
    \cup Lists(w, "units", UnitChanges) \cup Lists(w, "cities", CityChanges)
    \cup Lists(w, "artifacts", ArtifactChanges)
    \cup With(w, "interaction", InteractionChanges(w.interaction))
    \cup Lists(w, "fogOfWar", FogChanges) \cup Lists(w, "diplomaticContacts", PairChanges)
    \cup Lists(w, "transportNetwork", RoadChanges)
HeaderChanges(w) ==
    With(w, "schemaVersion", {1}) \cup With(w, "behaviorVersion", {3})
    \cup With(w, "mapId", {<<110>>}) \cup With(w, "mapHash", {<<>>})
    \cup With(w, "rulesetId", {<<110>>}) \cup With(w, "rulesetHash", {<<>>})
    \cup With(w, "actorPlayerId", {<<>>, P2}) \cup {Without(w, "mapId")}
MCVariants(w) ==
    HeaderChanges(w)
    \cup (IF "state" \in DOMAIN w
          THEN With(w, "state", StateChanges(w.state)) \cup With(w, "stateDigest", {<<>>})
               \cup With(w, "eventOffset", {7}) \cup With(w, "rngState", {[seed |-> 1]})
          ELSE With(w, "initialState", Lists(w.initialState, "units", LAMBDA u : {}))
               \cup With(w, "initialStateDigest", {<<>>}))
=============================================================================
