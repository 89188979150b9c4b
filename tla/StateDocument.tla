--------------------------- MODULE StateDocument ---------------------------
(***************************************************************************)
(* The versioned document of a canonical game state: the strict shape of   *)
(* aonw_contracts, and the mapping of aonw_contract_mapping between it and *)
(* the canonical state.  A document is a record whose fields are those of  *)
(* the JSON object; it names enumeration values and it holds coordinates   *)
(* as objects.  A field that may be null may also be missing.              *)
(***************************************************************************)
EXTENDS CanonicalState

CONSTANTS
    MaxUnits,       \* MAX_GAME_STATE_UNIT_COUNT
    MaxSteps,       \* MAX_QUEUED_PATH_STEP_COUNT
    MaxBalance      \* MAX_MOVEMENT_BALANCE_UNITS

ASSUME LimitAssumption == {MaxUnits, MaxSteps, MaxBalance} \subseteq Nat

GameStateVersion == 3

-----------------------------------------------------------------------------
(* Enumerations: the names on the wire, in the order of the domain values. *)

UnitKinds ==
    <<"commander", "warrior", "archer", "settler", "worker", "merchant", "scout",
      "spearman", "cavalry", "catapult", "heavyInfantry", "fieldCannon", "rifleman",
      "tank", "scoutShip", "warship", "reconPlane">>
Postures == <<"active", "fortified", "autoExploring", "autoWorking">>
TroopKinds == <<"warrior", "archer", "settler">>
Improvements ==
    <<"farm", "riverFarm", "mine", "lumberMill", "pasture", "camp", "quarry",
      "fishingBoats", "orchard", "plantation", "vineyard", "tradingPost",
      "prospectorCamp", "horseRanch", "pearlDivers", "coalShaft", "oilWell",
      "bauxiteMine", "uraniumMine">>
ArtifactTypes ==
    <<"ancientImperialCrown", "astronomersTablets", "prophetMask", "heroSword",
      "merchantsSeal", "firstPeoplesChronicle", "templeReliquary", "queensMirror">>
Conditions == <<"operational", "pillaged">>
Policies == <<"exclusive", "friendlyStacking">>

Names(enumeration) == ToSet(enumeration)

ASSUME NamesAssumption == None \notin Names(Improvements)

Valued(enumeration, name) ==
    (CHOOSE i \in DOMAIN enumeration : enumeration[i] = name) - 1
Named(enumeration, value) == enumeration[value + 1]

-----------------------------------------------------------------------------
(* The strict codec: exactly the fields of the contract, numbers in range. *)

Fields(r, required, optional) ==
    required \subseteq DOMAIN r /\ DOMAIN r \subseteq required \cup optional
Get(r, field) == IF field \in DOMAIN r THEN r[field] ELSE None
Absent(r, field) == Get(r, field) = None

\* The fields of r, and those of q that r does not have.
Merge(r, q) ==
    [f \in DOMAIN r \cup DOMAIN q |-> IF f \in DOMAIN r THEN r[f] ELSE q[f]]

\* Serde of an optional value: missing, null, or as Test wants it.
Opt(r, field, Test(_)) == Absent(r, field) \/ Test(r[field])
IsList(s) == Len(s) \in Lengths /\ DOMAIN s = 1 .. Len(s)
Every(Test(_), s) == IsList(s) /\ \A i \in DOMAIN s : Test(s[i])
IsText(t) == t \in Texts
Unsigned(n) == n \in Numbers

IsCoordinate(w) == Fields(w, {"col", "row"}, {}) /\ {w.col, w.row} \subseteq SignedNumbers
IsStep(w) ==
    /\ Fields(w, {"col", "row", "enterCostUnits", "cumulativeCostUnits"}, {})
    /\ {w.col, w.row} \subseteq SignedNumbers
    /\ Unsigned(w.enterCostUnits) /\ Unsigned(w.cumulativeCostUnits)
IsPath(w) ==
    /\ Fields(w, {"targetCol", "targetRow", "steps"}, {})
    /\ {w.targetCol, w.targetRow} \subseteq SignedNumbers /\ Every(IsStep, w.steps)
IsMerchant(w) ==
    /\ Fields(w, {"originCityId", "destinationCityId", "steps",
                  "transportNetworkFingerprint"}, {})
    /\ IsText(w.originCityId) /\ IsText(w.destinationCityId) /\ Every(IsStep, w.steps)
    /\ IsText(w.transportNetworkFingerprint)
IsTimed(w) == Unsigned(w.remainingTurns) /\ Unsigned(w.totalTurns)
IsJob(w) ==
    /\ \/ /\ w.kind = "fieldImprovement"
          /\ Fields(w, {"kind", "target", "improvement", "remainingTurns", "totalTurns"}, {})
          /\ w.improvement \in Names(Improvements)
       \/ /\ w.kind = "roadConstruction"
          /\ Fields(w, {"kind", "target", "remainingTurns", "totalTurns"}, {})
    /\ IsCoordinate(w.target) /\ IsTimed(w)
IsFounding(w) ==
    /\ Fields(w, {"center", "controlledHexes", "remainingTurns", "totalTurns"}, {})
    /\ IsCoordinate(w.center) /\ Every(IsCoordinate, w.controlledHexes) /\ IsTimed(w)
IsActivity(w) ==
    /\ Fields(w, {}, {"workerJob", "cityFoundingJob", "workerAssignment",
                      "excavatingArtifactId"})
    /\ Opt(w, "workerJob", IsJob) /\ Opt(w, "cityFoundingJob", IsFounding)
    /\ Opt(w, "workerAssignment", IsCoordinate) /\ Opt(w, "excavatingArtifactId", IsText)
IsTroop(w) ==
    /\ Fields(w, {"kind", "count"}, {})
    /\ w.kind \in Names(TroopKinds) /\ Unsigned(w.count)
IsUnit(w) ==
    /\ Fields(w, {"id", "ownerPlayerId", "kind", "name", "col", "row", "movementUnits",
                  "army", "activity", "workerBuildCharges", "experiencePoints", "posture"},
                 {"queuedPath", "merchantTradeRoute", "hitPoints", "carriedArtifactId"})
    /\ IsText(w.id) /\ IsText(w.ownerPlayerId) /\ IsText(w.name)
    /\ {w.col, w.row} \subseteq SignedNumbers /\ Opt(w, "carriedArtifactId", IsText)
    /\ w.kind \in Names(UnitKinds) /\ w.posture \in Names(Postures)
    /\ Unsigned(w.movementUnits) /\ Unsigned(w.workerBuildCharges)
    /\ Unsigned(w.experiencePoints) /\ Opt(w, "hitPoints", Unsigned)
    /\ Every(IsTroop, w.army) /\ IsActivity(w.activity)
    /\ Opt(w, "queuedPath", IsPath) /\ Opt(w, "merchantTradeRoute", IsMerchant)

IsCity(w) ==
    /\ Fields(w, {"id", "ownerPlayerId", "center", "controlledHexes"}, {})
    /\ IsText(w.id) /\ IsText(w.ownerPlayerId)
    /\ IsCoordinate(w.center) /\ Every(IsCoordinate, w.controlledHexes)
IsLocation(w) ==
    \/ w.kind = "map" /\ Fields(w, {"kind", "coordinate"}, {}) /\ IsCoordinate(w.coordinate)
    \/ w.kind = "carried" /\ Fields(w, {"kind", "unitId"}, {}) /\ IsText(w.unitId)
    \/ w.kind = "stored" /\ Fields(w, {"kind", "cityId"}, {}) /\ IsText(w.cityId)
    \/ /\ w.kind = "excavation"
       /\ Fields(w, {"kind", "unitId", "coordinate", "remainingTurns"}, {})
       /\ IsText(w.unitId) /\ IsCoordinate(w.coordinate) /\ Unsigned(w.remainingTurns)
IsArtifact(w) ==
    /\ Fields(w, {"id", "type", "location"}, {}) /\ IsText(w.id)
    /\ w.type \in Names(ArtifactTypes) /\ IsLocation(w.location)

\* The kinds of pending interaction from 1, and the fields of each.
PendingKinds ==
    <<"researchSelection", "cityWorkedHexSelection", "cityExpansionSelection",
      "workerActionSelection", "merchantTradeRouteSelection",
      "merchantMoveToCitySelection", "unitTurnSkip", "attackTargeting",
      "commanderMergeSelection">>
PendingFields(kind) ==
    {"type", "ownerPlayerId"}
    \cup (IF kind \in CityKinds THEN {"cityId"}
          ELSE IF kind = "researchSelection" THEN {} ELSE {"unitId"})
    \cup (IF kind = "unitTurnSkip" THEN {"restoreMovementUnits"} ELSE {})
PendingOptions(kind) ==
    (IF kind = "workerActionSelection" THEN {"improvement"} ELSE {})
    \cup (IF kind = "attackTargeting" THEN {"defender"} ELSE {})
IsPending(w) ==
    /\ w.type \in Names(PendingKinds)
    /\ Fields(w, PendingFields(w.type), PendingOptions(w.type))
    /\ \A f \in {"ownerPlayerId", "cityId", "unitId"} \cap DOMAIN w : IsText(w[f])
    /\ "restoreMovementUnits" \in DOMAIN w => Unsigned(w.restoreMovementUnits)
    /\ Opt(w, "defender", IsCoordinate)
    /\ Opt(w, "improvement", LAMBDA i : i \in Names(Improvements))
IsDraft(w) ==
    /\ Fields(w, {"unitId", "ownerPlayerId", "center", "controlledHexes"}, {})
    /\ IsText(w.unitId) /\ IsText(w.ownerPlayerId)
    /\ IsCoordinate(w.center) /\ Every(IsCoordinate, w.controlledHexes)
IsInteraction(w) ==
    /\ Fields(w, {}, {"cityFoundingDraft", "pending"})
    /\ Opt(w, "cityFoundingDraft", IsDraft) /\ Opt(w, "pending", IsPending)
IsFog(w) ==
    /\ Fields(w, {"playerId", "discoveredHexes", "visibleHexes"}, {}) /\ IsText(w.playerId)
    /\ Every(IsCoordinate, w.discoveredHexes) /\ Every(IsCoordinate, w.visibleHexes)
IsPair(w) ==
    /\ Fields(w, {"firstPlayerId", "secondPlayerId"}, {})
    /\ IsText(w.firstPlayerId) /\ IsText(w.secondPlayerId)
IsRoad(w) ==
    /\ Fields(w, {"coordinate", "condition", "builtByPlayerId"}, {"builtByCityId"})
    /\ IsCoordinate(w.coordinate) /\ w.condition \in Names(Conditions)
    /\ IsText(w.builtByPlayerId) /\ Opt(w, "builtByCityId", IsText)

IsStateDocument(w) ==
    /\ Fields(w, {"schemaVersion", "revision", "turn", "cols", "rows", "occupancyPolicy",
                  "units", "cities", "artifacts", "interaction", "fogOfWar",
                  "diplomaticContacts", "transportNetwork"}, {})
    /\ {w.schemaVersion, w.cols, w.rows} \subseteq ShortNumbers
    /\ w.revision \in LongNumbers /\ Unsigned(w.turn)
    /\ w.occupancyPolicy \in Names(Policies)
    /\ Every(IsUnit, w.units) /\ Every(IsCity, w.cities) /\ Every(IsArtifact, w.artifacts)
    /\ IsInteraction(w.interaction) /\ Every(IsFog, w.fogOfWar)
    /\ Every(IsPair, w.diplomaticContacts) /\ Every(IsRoad, w.transportNetwork)
=============================================================================
