---------------------------- MODULE StateMapping ----------------------------
(***************************************************************************)
(* aonw_contract_mapping: the canonical state that a state document says,  *)
(* and the document that a canonical state is written as.  Sorted lists of *)
(* the domain (controlled hexes, fog, contacts, roads) are sets here.      *)
(***************************************************************************)
EXTENDS StateDocument

Optionally(op(_), x) == IF x = None THEN None ELSE op(x)

-----------------------------------------------------------------------------
(* Decoding.                                                               *)

DecodeCoordinate(w) == <<w.col, w.row>>
DecodeHexes(s) == ToSet(Each(DecodeCoordinate, s))
DecodeStep(w) ==
    [tile |-> DecodeCoordinate(w), enter |-> w.enterCostUnits, total |-> w.cumulativeCostUnits]
DecodePath(w) ==
    [target |-> <<w.targetCol, w.targetRow>>, steps |-> Each(DecodeStep, w.steps)]
DecodeMerchant(w) ==
    [origin |-> w.originCityId, destination |-> w.destinationCityId,
     steps |-> Each(DecodeStep, w.steps), fingerprint |-> w.transportNetworkFingerprint]
DecodeTroop(w) == [kind |-> Valued(TroopKinds, w.kind), count |-> w.count]
DecodeJob(w) ==
    [target |-> DecodeCoordinate(w.target), remaining |-> w.remainingTurns,
     total |-> w.totalTurns,
     improvement |-> Optionally(LAMBDA i : Valued(Improvements, i), Get(w, "improvement"))]
DecodeFounding(w) ==
    [center |-> DecodeCoordinate(w.center), hexes |-> Each(DecodeCoordinate, w.controlledHexes),
     remaining |-> w.remainingTurns, total |-> w.totalTurns]
DecodeActivity(w) ==
    [job |-> Optionally(DecodeJob, Get(w, "workerJob")),
     founding |-> Optionally(DecodeFounding, Get(w, "cityFoundingJob")),
     assignment |-> Optionally(DecodeCoordinate, Get(w, "workerAssignment")),
     excavating |-> Get(w, "excavatingArtifactId")]
DecodeUnit(w) ==
    [id |-> w.id, owner |-> w.ownerPlayerId, kind |-> Valued(UnitKinds, w.kind),
     name |-> w.name, position |-> DecodeCoordinate(w), movement |-> w.movementUnits,
     army |-> Each(DecodeTroop, w.army),
     queued |-> Optionally(DecodePath, Get(w, "queuedPath")),
     merchant |-> Optionally(DecodeMerchant, Get(w, "merchantTradeRoute")),
     activity |-> DecodeActivity(w.activity), charges |-> w.workerBuildCharges,
     hitPoints |-> Get(w, "hitPoints"), experience |-> w.experiencePoints,
     posture |-> Valued(Postures, w.posture), carried |-> Get(w, "carriedArtifactId")]

DecodeCity(w) ==
    [id |-> w.id, owner |-> w.ownerPlayerId, center |-> DecodeCoordinate(w.center),
     hexes |-> DecodeHexes(w.controlledHexes) \ {DecodeCoordinate(w.center)}]
DecodeLocation(w) ==
    [kind |-> w.kind, unit |-> Get(w, "unitId"), city |-> Get(w, "cityId"),
     tile |-> IF w.kind \in {"map", "excavation"} THEN DecodeCoordinate(w.coordinate) ELSE None,
     remaining |-> Get(w, "remainingTurns")]
DecodeArtifact(w) ==
    [id |-> w.id, type |-> Valued(ArtifactTypes, w.type),
     location |-> DecodeLocation(w.location)]
DecodeDraft(w) ==
    [unit |-> w.unitId, owner |-> w.ownerPlayerId, center |-> DecodeCoordinate(w.center),
     hexes |-> Each(DecodeCoordinate, w.controlledHexes)]
DecodePending(w) ==
    [kind |-> w.type, owner |-> w.ownerPlayerId, city |-> Get(w, "cityId"),
     unit |-> Get(w, "unitId"), restore |-> Get(w, "restoreMovementUnits"),
     improvement |-> Optionally(LAMBDA i : Valued(Improvements, i), Get(w, "improvement")),
     defender |-> Optionally(DecodeCoordinate, Get(w, "defender"))]
DecodeFog(w) ==
    [player |-> w.playerId, visible |-> DecodeHexes(w.visibleHexes),
     discovered |-> DecodeHexes(w.discoveredHexes) \cup DecodeHexes(w.visibleHexes)]

DecodePair(w) ==
    IF Before(w.firstPlayerId, w.secondPlayerId)
    THEN <<w.firstPlayerId, w.secondPlayerId>> ELSE <<w.secondPlayerId, w.firstPlayerId>>
DecodeRoad(w) ==
    [coordinate |-> DecodeCoordinate(w.coordinate),
     condition |-> Valued(Conditions, w.condition),
     builder |-> w.builtByPlayerId, city |-> Get(w, "builtByCityId")]

DecodeState(w) ==
    [revision |-> w.revision, turn |-> w.turn, cols |-> w.cols, rows |-> w.rows,
     policy |-> Valued(Policies, w.occupancyPolicy),
     units |-> Each(DecodeUnit, w.units), cities |-> Each(DecodeCity, w.cities),
     artifacts |-> Each(DecodeArtifact, w.artifacts),
     draft |-> Optionally(DecodeDraft, Get(w.interaction, "cityFoundingDraft")),
     pending |-> Optionally(DecodePending, Get(w.interaction, "pending")),
     fog |-> ToSet(Each(DecodeFog, w.fogOfWar)),
     contacts |-> ToSet(Each(DecodePair, w.diplomaticContacts)),
     roads |-> ToSet(Each(DecodeRoad, w.transportNetwork))]

-----------------------------------------------------------------------------
(* What decoding refuses of a document with the right shape.               *)

ActivityIds(w) == {Get(w, "excavatingArtifactId")}
UnitIds(w) ==
    {w.id, w.ownerPlayerId, Get(w, "carriedArtifactId")} \cup ActivityIds(w.activity)
    \cup (IF Absent(w, "merchantTradeRoute") THEN {}
          ELSE {w.merchantTradeRoute.originCityId, w.merchantTradeRoute.destinationCityId})
ReferenceIds(w) ==
    {Get(w, f) : f \in {"unitId", "cityId", "ownerPlayerId", "builtByPlayerId",
                        "builtByCityId", "playerId", "firstPlayerId", "secondPlayerId"}}
\* Every identifier of the document, and None for those that are absent.
Identifiers(w) ==
    LET of(In(_), s) == UNION {In(s[i]) : i \in DOMAIN s}
        inner(f) == IF Absent(w.interaction, f) THEN {} ELSE ReferenceIds(w.interaction[f])
    IN  of(UnitIds, w.units)
        \cup of(LAMBDA c : {c.id, c.ownerPlayerId}, w.cities)
        \cup of(LAMBDA a : {a.id} \cup ReferenceIds(a.location), w.artifacts)
        \cup inner("cityFoundingDraft") \cup inner("pending")
        \cup UNION {of(ReferenceIds, list) :
                      list \in {w.fogOfWar, w.diplomaticContacts, w.transportNetwork}}

UnitWithinLimits(w) ==
    /\ w.movementUnits <= MaxBalance
    /\ \A f \in {"queuedPath", "merchantTradeRoute"} :
          Opt(w, f, LAMBDA route : Len(route.steps) <= MaxSteps)
WithinLimits(w) ==
    /\ Len(w.units) <= MaxUnits /\ Every(UnitWithinLimits, w.units)
    /\ Opt(w.interaction, "pending",
           LAMBDA p : Opt(p, "restoreMovementUnits", LAMBDA n : n <= MaxBalance))

\* decode_game_state returns a state, and not an error.
Decodable(w) ==
    /\ IsStateDocument(w)
    /\ w.schemaVersion = GameStateVersion
    /\ w.cols > 0 /\ w.rows > 0
    /\ WithinLimits(w)
    /\ \A id \in Identifiers(w) \ {None} : IsIdentifier(id)
    /\ Distinct(LAMBDA fog : fog.playerId, w.fogOfWar)
    /\ \A i \in DOMAIN w.diplomaticContacts :
          w.diplomaticContacts[i].firstPlayerId # w.diplomaticContacts[i].secondPlayerId
    /\ Distinct(LAMBDA road : DecodeCoordinate(road.coordinate), w.transportNetwork)
    /\ ValidState(DecodeState(w))

-----------------------------------------------------------------------------
(* Encoding: an absent optional field is written as null.                  *)

EncodeCoordinate(c) == [col |-> c[1], row |-> c[2]]
EncodeHexes(S) == Each(EncodeCoordinate, Sorted(Before, S))
EncodeStep(s) ==
    [col |-> s.tile[1], row |-> s.tile[2],
     enterCostUnits |-> s.enter, cumulativeCostUnits |-> s.total]
EncodePath(p) ==
    [targetCol |-> p.target[1], targetRow |-> p.target[2], steps |-> Each(EncodeStep, p.steps)]
EncodeMerchant(m) ==
    [originCityId |-> m.origin, destinationCityId |-> m.destination,
     steps |-> Each(EncodeStep, m.steps), transportNetworkFingerprint |-> m.fingerprint]
EncodeTroop(t) == [kind |-> Named(TroopKinds, t.kind), count |-> t.count]

EncodeJob(job) ==
    Merge([target |-> EncodeCoordinate(job.target), remainingTurns |-> job.remaining,
           totalTurns |-> job.total],
          IF job.improvement = None THEN [kind |-> "roadConstruction"]
          ELSE [kind |-> "fieldImprovement",
                improvement |-> Named(Improvements, job.improvement)])
EncodeFounding(job) ==
    [center |-> EncodeCoordinate(job.center),
     controlledHexes |-> Each(EncodeCoordinate, job.hexes),
     remainingTurns |-> job.remaining, totalTurns |-> job.total]
EncodeActivity(a) ==
    [workerJob |-> Optionally(EncodeJob, a.job),
     cityFoundingJob |-> Optionally(EncodeFounding, a.founding),
     workerAssignment |-> Optionally(EncodeCoordinate, a.assignment),
     excavatingArtifactId |-> a.excavating]
EncodeUnit(u) ==
    [id |-> u.id, ownerPlayerId |-> u.owner, kind |-> Named(UnitKinds, u.kind),
     name |-> u.name, col |-> u.position[1], row |-> u.position[2],
     movementUnits |-> u.movement, army |-> Each(EncodeTroop, u.army),
     queuedPath |-> Optionally(EncodePath, u.queued),
     merchantTradeRoute |-> Optionally(EncodeMerchant, u.merchant),
     activity |-> EncodeActivity(u.activity), workerBuildCharges |-> u.charges,
     hitPoints |-> u.hitPoints, experiencePoints |-> u.experience,
     posture |-> Named(Postures, u.posture), carriedArtifactId |-> u.carried]
EncodeCity(c) ==
    [id |-> c.id, ownerPlayerId |-> c.owner, center |-> EncodeCoordinate(c.center),
     controlledHexes |-> EncodeHexes(c.hexes)]
EncodeLocation(l) ==
    CASE l.kind = "map"     -> [kind |-> l.kind, coordinate |-> EncodeCoordinate(l.tile)]
      [] l.kind = "carried" -> [kind |-> l.kind, unitId |-> l.unit]
      [] l.kind = "stored"  -> [kind |-> l.kind, cityId |-> l.city]
      [] OTHER -> [kind |-> l.kind, unitId |-> l.unit, coordinate |-> EncodeCoordinate(l.tile),
                   remainingTurns |-> l.remaining]
EncodeArtifact(a) ==
    [id |-> a.id, type |-> Named(ArtifactTypes, a.type), location |-> EncodeLocation(a.location)]
EncodeDraft(d) ==
    [unitId |-> d.unit, ownerPlayerId |-> d.owner, center |-> EncodeCoordinate(d.center),
     controlledHexes |-> Each(EncodeCoordinate, d.hexes)]

PendingValues(p) ==
    [type |-> p.kind, ownerPlayerId |-> p.owner, cityId |-> p.city, unitId |-> p.unit,
     restoreMovementUnits |-> p.restore,
     improvement |-> Optionally(LAMBDA i : Named(Improvements, i), p.improvement),
     defender |-> Optionally(EncodeCoordinate, p.defender)]
EncodePending(p) ==
    Restrict(PendingValues(p), PendingFields(p.kind) \cup PendingOptions(p.kind))
EncodeFog(f) ==
    [playerId |-> f.player, discoveredHexes |-> EncodeHexes(f.discovered),
     visibleHexes |-> EncodeHexes(f.visible)]
EncodePair(p) == [firstPlayerId |-> p[1], secondPlayerId |-> p[2]]
EncodeRoad(r) ==
    [coordinate |-> EncodeCoordinate(r.coordinate),
     condition |-> Named(Conditions, r.condition),
     builtByPlayerId |-> r.builder, builtByCityId |-> r.city]

FogList(g) == Sorted(LAMBDA f, h : Before(f.player, h.player), g.fog)
ContactList(g) == Sorted(PairBefore, g.contacts)
RoadList(g) == Sorted(LAMBDA r, s : Before(r.coordinate, s.coordinate), g.roads)

EncodeState(g) ==
    [schemaVersion |-> GameStateVersion, revision |-> g.revision, turn |-> g.turn,
     cols |-> g.cols, rows |-> g.rows, occupancyPolicy |-> Named(Policies, g.policy),
     units |-> Each(EncodeUnit, g.units), cities |-> Each(EncodeCity, g.cities),
     artifacts |-> Each(EncodeArtifact, g.artifacts),
     interaction |-> [cityFoundingDraft |-> Optionally(EncodeDraft, g.draft),
                      pending |-> Optionally(EncodePending, g.pending)],
     fogOfWar |-> Each(EncodeFog, FogList(g)),
     diplomaticContacts |-> Each(EncodePair, ContactList(g)),
     transportNetwork |-> Each(EncodeRoad, RoadList(g))]
=============================================================================
