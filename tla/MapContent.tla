----------------------------- MODULE MapContent -----------------------------
(***************************************************************************)
(* aonw_content: the strict map document, the logical map it describes and *)
(* the identity of that map; the built-in ruleset; scenarios.  A text is a *)
(* sequence of bytes; names of enumeration values are strings.  The SHA-256*)
(* of canonical JSON is represented by the value that is serialised.       *)
(***************************************************************************)
EXTENDS StateDocument

MapVersion == 1
ScenarioVersion == 1
MaxCols == 40
MaxRows == 30
MaxHeight == 5
MinAuthored == 5
MaxScenarioUnits == 4096

PrimaryTerrains ==
    <<"ocean", "coast", "lake", "plains", "grassland", "desert", "tundra", "snow",
      "mountain">>
Features == <<"hills", "wetlands", "jungle", "forest", "river">>
Resources ==
    <<"wheat", "fish", "deer", "sheep", "rice", "cow", "apple", "banana", "citrus", "gold",
      "silver", "gems", "silk", "spices", "cotton", "grapes", "ivory", "pearls", "coffee",
      "cocoa", "tobacco", "sugar", "iron", "coal", "oil", "aluminium", "uranium", "horses",
      "marble">>
ObjectiveTypes == {"ruins", "strategicPass", "holySite", "legendaryResource"}

-----------------------------------------------------------------------------
(* The document: its shape, its numbers and the values of its tiles.       *)

NoRepeats(s) == Distinct(LAMBDA x : x, s)

IsTile(w) ==
    /\ Fields(w, {"col", "row", "terrains", "resources", "height"}, {})
    /\ w.terrains # <<>> /\ NoRepeats(w.terrains)
    /\ w.terrains[1] \in Names(PrimaryTerrains)
    /\ ToSet(Tail(w.terrains)) \subseteq Names(Features)
    /\ ToSet(w.resources) \subseteq Names(Resources) /\ NoRepeats(w.resources)
    /\ {w.col, w.row} \subseteq SignedNumbers /\ w.height \in 0 .. MaxHeight

IsObjective(w) ==
    /\ Fields(w, {"id", "type", "hex", "requiredHoldTurns", "victoryPoints",
                  "goldPerTurn"}, {})
    /\ w.type \in ObjectiveTypes /\ IsCoordinate(w.hex)
    /\ IsText(w.id) /\ IsContentId(w.id)
    /\ w.requiredHoldTurns > 0
    /\ Unsigned(w.victoryPoints) /\ Unsigned(w.goldPerTurn)

Cell(w) == <<w.col, w.row>>

\* Fault: tiles that cover one coordinate twice are counted, not compared.
Covers_Counted(tiles, cols, rows) == Len(tiles) = cols * rows

\* As many tiles as the map has coordinates, each of them one of these.
Covers(tiles, cols, rows) ==
    /\ Len(tiles) = cols * rows
    /\ ToSet(Each(Cell, tiles)) = Grid(cols, rows)!Tiles

Objectives(w) ==
    /\ Every(IsObjective, w.objectives)
    /\ Distinct(LAMBDA o : o.id, w.objectives)
    /\ Distinct(LAMBDA o : Cell(o.hex), w.objectives)
    /\ \A i \in DOMAIN w.objectives :
          Cell(w.objectives[i].hex) \in Grid(w.cols, w.rows)!Tiles

\* MapDocument::from_json returns a document, and not an error.
IsMapDocument(w) ==
    /\ Fields(w, {"schemaVersion", "gridLayout", "cols", "rows", "mapName", "defaultZoom",
                  "objectives", "tiles"}, {})
    /\ w.schemaVersion = MapVersion /\ w.gridLayout = "oddQFlatTop"
    /\ w.cols \in 1 .. MaxCols /\ w.rows \in 1 .. MaxRows
    /\ Every(IsTile, w.tiles)
    /\ IsText(w.mapName) /\ IsContentId(w.mapName)
    /\ Covers(w.tiles, w.cols, w.rows)
    /\ Objectives(w)
    /\ w.cols >= MinAuthored /\ w.rows >= MinAuthored
    /\ w.defaultZoom > 0

-----------------------------------------------------------------------------
(* The logical map: tiles by row, resources by rank, objectives by id.     *)

Rank(resource) == Valued(Resources, resource)

\* Fault: resources stay in the order in which they are authored.
TileOf_Authored(w) == w

TileOf(w) ==
    [w EXCEPT !.resources = Sorted(LAMBDA r, s : Rank(r) < Rank(s), ToSet(w.resources))]

\* MapDefinition: everything of the document but its version and its zoom.
MapOf(w) ==
    [mapId |-> w.mapName, cols |-> w.cols, rows |-> w.rows,
     tiles |-> Sorted(LAMBDA t, u : Before(<<t.row, t.col>>, <<u.row, u.col>>),
                      ToSet(Each(TileOf, w.tiles))),
     objectives |-> Sorted(LAMBDA o, q : Before(o.id, q.id), ToSet(w.objectives))]

MapHash(map) == <<"CanonicalMap", MapVersion, "oddQFlatTop", map>>

-----------------------------------------------------------------------------
(* The built-in ruleset, as far as opening a game depends on it.           *)

PerPoint == 2      \* MovementUnits::PER_POINT

\* maximum_movement_units of the unit kinds in their declared order.
Allowances ==
    LET points == <<5, 3, 3, 3, 3, 3, 3, 3, 5, 2, 3, 2, 3, 5, 5, 5, 7>>
    IN  Each(LAMBDA p : p * PerPoint, points)

\* "aonw-standard"
StandardRules ==
    [rulesetId |-> <<97, 111, 110, 119, 45, 115, 116, 97, 110, 100, 97, 114, 100>>,
     policy |-> FriendlyStacking, allowances |-> Allowances]
RulesetHash(rules) == <<"RulesetDefinition", 1, rules>>

-----------------------------------------------------------------------------
(* Scenarios.                                                              *)

IsScenarioUnit(w) ==
    /\ Fields(w, {"id", "ownerPlayerId", "kind", "name", "col", "row"}, {})
    /\ IsText(w.id) /\ IsText(w.ownerPlayerId) /\ IsText(w.name)
    /\ IsIdentifier(w.id) /\ IsIdentifier(w.ownerPlayerId)
    /\ {w.col, w.row} \subseteq SignedNumbers
    /\ w.kind \in Names(UnitKinds)

\* Fault: two units share a tile whoever owns them.
MayShare_Anyone(u, v, rules) == rules.policy = FriendlyStacking

\* UnitOccupancyPolicy::permits.
MayShare(u, v, rules) ==
    rules.policy = FriendlyStacking /\ u.ownerPlayerId = v.ownerPlayerId

\* ScenarioDefinition::from_json returns a scenario for this content.
IsScenario(w, map, rules) ==
    /\ Fields(w, {"schemaVersion", "scenarioId", "mapId", "rulesetId", "initialUnits"}, {})
    /\ w.schemaVersion = ScenarioVersion
    /\ w.mapId = map.mapId /\ w.rulesetId = rules.rulesetId
    /\ Len(w.initialUnits) <= MaxScenarioUnits
    /\ Every(IsScenarioUnit, w.initialUnits)
    /\ IsText(w.scenarioId) /\ IsContentId(w.scenarioId)
    /\ \A i \in DOMAIN w.initialUnits :
          /\ ~ IsBlank(w.initialUnits[i].name)
          /\ Cell(w.initialUnits[i]) \in Grid(map.cols, map.rows)!Tiles
    /\ Unique(w.initialUnits)
    /\ \A i, j \in DOMAIN w.initialUnits :
          i # j /\ Cell(w.initialUnits[i]) = Cell(w.initialUnits[j]) =>
              MayShare(w.initialUnits[i], w.initialUnits[j], rules)

\* ScenarioDefinition: a scenario bound to the content that it is for.
ScenarioOf(w, map, rules) ==
    [scenarioId |-> w.scenarioId, units |-> w.initialUnits,
     mapId |-> map.mapId, mapHash |-> MapHash(map),
     rulesetId |-> rules.rulesetId, rulesetHash |-> RulesetHash(rules)]

Binds(scenario, map, rules) ==
    /\ scenario.mapId = map.mapId /\ scenario.mapHash = MapHash(map)
    /\ scenario.rulesetId = rules.rulesetId /\ scenario.rulesetHash = RulesetHash(rules)

Idle == [job |-> None, founding |-> None, assignment |-> None, excavating |-> None]
InitialUnit(w, rules) ==
    LET kind == Valued(UnitKinds, w.kind)
    IN  [id |-> w.id, owner |-> w.ownerPlayerId, kind |-> kind, name |-> w.name,
         position |-> Cell(w), movement |-> rules.allowances[kind + 1], army |-> <<>>,
         queued |-> None, merchant |-> None, activity |-> Idle, charges |-> 0,
         hitPoints |-> None, experience |-> 0, posture |-> Active, carried |-> None]

\* The state of revision zero that a scenario becomes.
Bootstrap(scenario, map, rules) ==
    [revision |-> 0, turn |-> 0, cols |-> map.cols, rows |-> map.rows,
     policy |-> rules.policy,
     units |-> Each(LAMBDA w : InitialUnit(w, rules), scenario.units),
     cities |-> <<>>, artifacts |-> <<>>, draft |-> None, pending |-> None,
     fog |-> {}, contacts |-> {}, roads |-> {}]

Bootstraps(scenario, map, rules) ==
    Binds(scenario, map, rules) /\ ValidState(Bootstrap(scenario, map, rules))
=============================================================================
