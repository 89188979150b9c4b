--------------------------- MODULE ArchiveProofs ---------------------------
(***************************************************************************)
(* For any documents, games, actors and changes to a file: sessions are of *)
(* valid states on whole maps, scenarios that load can be started, and a   *)
(* file that opens under the digest of its export brings back the game     *)
(* that was saved.                                                         *)
(*                                                                         *)
(* The second half is about files nobody touched: they open, with the very *)
(* state that was exported, against exactly the map documents that         *)
(* describe the session's map.  Encoding a state and decoding it again is  *)
(* the identity, field by field: a set is written in its order, without    *)
(* repetition, and read back as the set.  A map's tiles and objectives are *)
(* put in order, so that it is determined by what its document says.       *)
(***************************************************************************)
EXTENDS Archive, DigestProofs

-----------------------------------------------------------------------------
(* The numbers of enumeration values.                                      *)

LEMMA ValueTyping ==
  ASSUME NEW kinds, NEW n \in Nat, DOMAIN kinds = 1 .. n,
         NEW name \in Names(kinds)
  PROVE  Valued(kinds, name) \in 0 .. n - 1
  <1>1. \E i \in DOMAIN kinds : kinds[i] = name
    BY DEF Names, ToSet
  <1>2. (CHOOSE i \in DOMAIN kinds : kinds[i] = name) \in 1 .. n
    BY <1>1
  <1>3. \A i \in 1 .. n : i - 1 \in 0 .. n - 1
    OBVIOUS
  <1> QED BY <1>2, <1>3 DEF Valued

\* The number of values of each enumeration.
LEMMA EnumerationsAreCounted ==
  /\ DOMAIN UnitKinds = 1 .. 17 /\ DOMAIN Postures = 1 .. 4 /\ DOMAIN TroopKinds = 1 .. 3
  /\ DOMAIN Improvements = 1 .. 19 /\ DOMAIN ArtifactTypes = 1 .. 8
  /\ DOMAIN Conditions = 1 .. 2 /\ DOMAIN Policies = 1 .. 2 /\ DOMAIN PendingKinds = 1 .. 9
  BY DEF UnitKinds, Postures, TroopKinds, Improvements, ArtifactTypes, Conditions, Policies,
         PendingKinds

LEMMA EnumerationTyping ==
  /\ \A name \in Names(UnitKinds) : Valued(UnitKinds, name) \in 0 .. 16
  /\ \A name \in Names(Postures) : Valued(Postures, name) \in 0 .. 3
  /\ \A name \in Names(TroopKinds) : Valued(TroopKinds, name) \in 0 .. 2
  /\ \A name \in Names(Improvements) : Valued(Improvements, name) \in 0 .. 18
  /\ \A name \in Names(ArtifactTypes) : Valued(ArtifactTypes, name) \in 0 .. 7
  /\ \A name \in Names(Conditions) : Valued(Conditions, name) \in 0 .. 1
  /\ \A name \in Names(Policies) : Valued(Policies, name) \in 0 .. 1
  <1> DEFINE kinds == UnitKinds  postures == Postures  troops == TroopKinds
             fields == Improvements  types == ArtifactTypes  conditions == Conditions
             policies == Policies
  <1>1. /\ DOMAIN kinds = 1 .. 17 /\ DOMAIN postures = 1 .. 4 /\ DOMAIN troops = 1 .. 3
        /\ DOMAIN fields = 1 .. 19 /\ DOMAIN types = 1 .. 8
        /\ DOMAIN conditions = 1 .. 2 /\ DOMAIN policies = 1 .. 2
    BY EnumerationsAreCounted
  <1> HIDE DEF kinds, postures, troops, fields, types, conditions, policies
  <1>2. 17 - 1 = 16 /\ 4 - 1 = 3 /\ 3 - 1 = 2 /\ 19 - 1 = 18 /\ 8 - 1 = 7 /\ 2 - 1 = 1
    OBVIOUS
  <1>3. 17 \in Nat /\ 4 \in Nat /\ 3 \in Nat /\ 19 \in Nat /\ 8 \in Nat /\ 2 \in Nat
    OBVIOUS
  <1>4. \A name \in Names(kinds) : Valued(kinds, name) \in 0 .. 17 - 1
    BY <1>1, <1>3, ValueTyping
  <1>5. \A name \in Names(postures) : Valued(postures, name) \in 0 .. 4 - 1
    BY <1>1, <1>3, ValueTyping
  <1>6. \A name \in Names(troops) : Valued(troops, name) \in 0 .. 3 - 1
    BY <1>1, <1>3, ValueTyping
  <1>7. \A name \in Names(fields) : Valued(fields, name) \in 0 .. 19 - 1
    BY <1>1, <1>3, ValueTyping
  <1>8. \A name \in Names(types) : Valued(types, name) \in 0 .. 8 - 1
    BY <1>1, <1>3, ValueTyping
  <1>9. \A name \in Names(conditions) : Valued(conditions, name) \in 0 .. 2 - 1
    BY <1>1, <1>3, ValueTyping
  <1>10. \A name \in Names(policies) : Valued(policies, name) \in 0 .. 2 - 1
    BY <1>1, <1>3, ValueTyping
  <1> QED BY <1>2, <1>4, <1>5, <1>6, <1>7, <1>8, <1>9, <1>10
          DEF kinds, postures, troops, fields, types, conditions, policies

-----------------------------------------------------------------------------
(* What a scenario starts as.                                              *)

LEMMA AllowancesAreNumbers == \A k \in 0 .. 16 : Allowances[k + 1] \in Numbers
  <1> DEFINE points == <<5, 3, 3, 3, 3, 3, 3, 3, 5, 2, 3, 2, 3, 5, 5, 5, 7>>
  <1>1. DOMAIN points = 1 .. 17
    OBVIOUS
  <1>2. \A i \in 1 .. 17 : points[i] \in 0 .. 7
    OBVIOUS
  <1>3. Allowances = [i \in DOMAIN points |-> points[i] * PerPoint]
    BY DEF Allowances, Each
  <1> HIDE DEF points
  <1>4. \A i \in 1 .. 17 : points[i] * 2 \in Nat /\ points[i] * 2 < 65536
    BY <1>2
  <1>5. \A i \in 1 .. 17 : points[i] * 2 \in Numbers
    BY <1>4, NumberTyping
  <1> QED BY <1>1, <1>3, <1>5 DEF PerPoint

LEMMA InitialUnitTyping ==
  ASSUME NEW w, IsScenarioUnit(w)
  PROVE  InitialUnit(w, StandardRules) \in Unit
  <1> DEFINE kind == Valued(UnitKinds, w.kind)
  <1>1. kind \in 0 .. 16
    BY EnumerationTyping DEF IsScenarioUnit
  <1> HIDE DEF kind
  <1>2. StandardRules.allowances[kind + 1] \in Numbers
    BY <1>1, AllowancesAreNumbers DEF StandardRules
  <1>3. w.id \in Ids /\ w.ownerPlayerId \in Ids /\ w.name \in Texts
    BY DEF IsScenarioUnit, IsText, Ids
  <1>4. Cell(w) \in HexCoord
    BY DEF IsScenarioUnit, Cell, HexCoord
  <1>5. <<>> \in ListsOf(ArmyTroop)
    BY NumberTyping DEF ListsOf
  <1>6. Idle \in UnitActivity
    BY DEF Idle, UnitActivity, Optional
  <1>7. 0 \in Numbers /\ 0 \in 0 .. 3
    BY NumberTyping
  <1>8. \A S : None \in Optional(S)
    BY DEF Optional
  <1> QED BY <1>1, <1>2, <1>3, <1>4, <1>5, <1>6, <1>7, <1>8 DEF InitialUnit, Unit, Active, kind

\* A scenario that fits a map of the size that a state may have.
LEMMA BootstrapTyping ==
  ASSUME NEW s, NEW map, IsScenario(s, map, StandardRules),
         map.cols \in Dimensions, map.rows \in Dimensions
  PROVE  Bootstrap(ScenarioOf(s, map, StandardRules), map, StandardRules) \in State
  <1> DEFINE n == Len(s.initialUnits)
             units == [i \in 1 .. n |-> InitialUnit(s.initialUnits[i], StandardRules)]
             b == Bootstrap(ScenarioOf(s, map, StandardRules), map, StandardRules)
  <1>1. IsList(s.initialUnits) /\ DOMAIN s.initialUnits = 1 .. n
    BY DEF IsScenario, Every, IsList
  <1>2. \A i \in 1 .. n : InitialUnit(s.initialUnits[i], StandardRules) \in Unit
    BY <1>1, InitialUnitTyping DEF IsScenario, Every
  <1>3. b.units = units
    BY <1>1 DEF Bootstrap, ScenarioOf, Each
  <1>4. units \in ListsOf(Unit)
    <2> HIDE DEF n
    <2>1. \A i \in DOMAIN s.initialUnits : units[i] \in Unit
      BY <1>1, <1>2
    <2>2. units = [i \in DOMAIN s.initialUnits |-> units[i]]
      BY <1>1
    <2> HIDE DEF units
    <2> QED BY <1>1, <2>1, <2>2, EachIsList
  <1>5. b = [revision |-> 0, turn |-> 0, cols |-> map.cols, rows |-> map.rows,
             policy |-> FriendlyStacking, units |-> units, cities |-> <<>>,
             artifacts |-> <<>>, draft |-> None, pending |-> None,
             fog |-> {}, contacts |-> {}, roads |-> {}]
    BY <1>3 DEF Bootstrap, StandardRules
  <1> HIDE DEF b, units
  <1>6. \A S : <<>> \in ListsOf(S) /\ {} \in SortedSets(S) /\ None \in Optional(S)
    BY NumberTyping, FS_EmptySet DEF ListsOf, SortedSets, Optional
  <1>7. 0 \in Numbers /\ 0 \in LongNumbers /\ FriendlyStacking \in 0 .. 1
    BY NumberTyping DEF FriendlyStacking
  <1>8. b.fog = {} /\ b.roads = {}
    BY <1>5
  <1> HIDE DEF b, units
  <1>9. map.cols \in Dimensions /\ map.rows \in Dimensions
    OBVIOUS
  <1>10. b \in [revision : LongNumbers, turn : Numbers, cols : Dimensions, rows : Dimensions,
                policy : 0 .. 1, units : ListsOf(Unit), cities : ListsOf(City),
                artifacts : ListsOf(WorldArtifact), draft : Optional(CityFoundingDraft),
                pending : Optional(PendingInteraction), fog : SortedSets(PlayerFog),
                contacts : SortedSets(PlayerPair), roads : SortedSets(TransportSegment)]
    BY <1>4, <1>5, <1>6, <1>7, <1>9, Zenon
  <1> QED BY <1>8, <1>10 DEF State, b

\* The aggregate refuses a scenario's units for the length of a name only.
LEMMA BootstrapIsValid ==
  ASSUME NEW s, NEW map, IsScenario(s, map, StandardRules)
  PROVE  Bootstraps(ScenarioOf(s, map, StandardRules), map, StandardRules)
            <=> \A i \in DOMAIN s.initialUnits :
                    Len(s.initialUnits[i].name) <= MaxNameBytes
  <1> DEFINE b == Bootstrap(ScenarioOf(s, map, StandardRules), map, StandardRules)
  <1>1. b.units = [i \in DOMAIN s.initialUnits |->
                     InitialUnit(s.initialUnits[i], StandardRules)]
    BY DEF Bootstrap, ScenarioOf, Each
  <1>2. /\ b.cols = map.cols /\ b.rows = map.rows /\ b.policy = FriendlyStacking
        /\ b.cities = <<>> /\ b.artifacts = <<>> /\ b.draft = None /\ b.pending = None
        /\ b.fog = {} /\ b.contacts = {} /\ b.roads = {}
    BY DEF Bootstrap, ScenarioOf, StandardRules
  <1> HIDE DEF b
  <1>3. DOMAIN b.units = DOMAIN s.initialUnits
    BY <1>1
  <1>4. \A i \in DOMAIN b.units :
           /\ b.units[i].id = s.initialUnits[i].id
           /\ b.units[i].owner = s.initialUnits[i].ownerPlayerId
           /\ b.units[i].name = s.initialUnits[i].name
           /\ b.units[i].position = Cell(s.initialUnits[i])
           /\ b.units[i].army = <<>> /\ b.units[i].activity = Idle
           /\ b.units[i].hitPoints = None /\ b.units[i].queued = None
           /\ b.units[i].carried = None
    <2> SUFFICES ASSUME NEW i \in DOMAIN b.units
                 PROVE  /\ b.units[i].id = s.initialUnits[i].id
                        /\ b.units[i].owner = s.initialUnits[i].ownerPlayerId
                        /\ b.units[i].name = s.initialUnits[i].name
                        /\ b.units[i].position = Cell(s.initialUnits[i])
                        /\ b.units[i].army = <<>> /\ b.units[i].activity = Idle
                        /\ b.units[i].hitPoints = None /\ b.units[i].queued = None
                        /\ b.units[i].carried = None
      OBVIOUS
    <2>1. b.units[i] = InitialUnit(s.initialUnits[i], StandardRules)
      BY <1>1, <1>3
    <2> QED BY <2>1 DEF InitialUnit
  <1>5. DOMAIN <<>> = {} /\ None # 0
    BY AbsenceAssumption
  <1>6. \A i \in DOMAIN b.units :
           ValidUnit(b.units[i]) <=> Len(s.initialUnits[i].name) <= MaxNameBytes
    BY <1>3, <1>4, <1>5 DEF ValidUnit, Distinct, ValidDuration, Idle, IsScenario
  <1>7. ValidUnits(b)
    <2>1. \A i \in DOMAIN b.units : InBounds(b, b.units[i].position)
      BY <1>2, <1>3, <1>4 DEF InBounds, IsScenario
    <2>2. Unique(b.units)
      BY <1>3, <1>4 DEF Unique, Distinct, IsScenario
    <2>3. \A i, j \in DOMAIN b.units :
             b.units[i].position = b.units[j].position /\ i # j =>
                 Shares(b, b.units[i], b.units[j])
      <3> SUFFICES ASSUME NEW i \in DOMAIN b.units, NEW j \in DOMAIN b.units,
                          b.units[i].position = b.units[j].position, i # j
                   PROVE  Shares(b, b.units[i], b.units[j])
        OBVIOUS
      <3>1. Cell(s.initialUnits[i]) = Cell(s.initialUnits[j])
        BY <1>4
      <3>2. MayShare(s.initialUnits[i], s.initialUnits[j], StandardRules)
        BY <1>3, <3>1 DEF IsScenario
      <3>3. b.units[i].owner = b.units[j].owner
        BY <1>4, <3>2 DEF MayShare
      <3> QED BY <1>2, <3>3 DEF Shares
    <2> QED BY <2>1, <2>2, <2>3 DEF ValidUnits
  <1>8. ValidCities(b)
    BY <1>2, <1>5 DEF ValidCities, Unique, Distinct
  <1>9. ValidArtifacts(b)
    <2>1. Unique(b.artifacts)
      BY <1>2, <1>5 DEF Unique, Distinct
    <2>2. \A i \in DOMAIN b.artifacts : ValidLocation(b, b.artifacts[i])
      BY <1>2, <1>5
    <2>3. \A i \in DOMAIN b.units :
             b.units[i].carried = None /\ b.units[i].activity.excavating = None
      BY <1>4 DEF Idle
    <2> QED BY <2>1, <2>2, <2>3, Zenon DEF ValidArtifacts
  <1>10. ValidDraft(b) /\ ValidPending(b) /\ ValidEnvironment(b)
    BY <1>2 DEF ValidDraft, ValidPending, ValidEnvironment
  <1>11. ValidState(b) <=> \A i \in DOMAIN s.initialUnits :
                               Len(s.initialUnits[i].name) <= MaxNameBytes
    BY <1>3, <1>6, <1>7, <1>8, <1>9, <1>10 DEF ValidState
  <1>12. Binds(ScenarioOf(s, map, StandardRules), map, StandardRules)
    BY DEF Binds, ScenarioOf
  <1> QED BY <1>11, <1>12 DEF Bootstraps, b

\* Whatever a scenario's own checks let through starts, but for a unit whose
\* name is too long: ScenarioDefinition::from_json and bootstrap agree.
THEOREM ScenariosStart == Spec => []ScenariosOpen
  <1>1. ScenariosOpen
    BY BootstrapIsValid DEF ScenariosOpen
  <1> QED BY <1>1, PTL

-----------------------------------------------------------------------------
(* What a state document of the right shape decodes to.                    *)

LEMMA Presence ==
  /\ \A w, f : Absent(w, f) <=> Get(w, f) = None
  /\ \A w, f : ~ Absent(w, f) => f \in DOMAIN w /\ Get(w, f) = w[f]
  /\ \A w, f : f \in DOMAIN w => Get(w, f) = w[f]
  /\ \A w, f : f \notin DOMAIN w => Get(w, f) = None
  BY DEF Absent, Get

LEMMA OptionalTyping == \A S, x : x = None \/ x \in S <=> x \in Optional(S)
  BY DEF Optional

\* Every text of S is an identifier.
Identified(S) == \A id \in S \ {None} : IsIdentifier(id)

LEMMA IdTyping ==
  ASSUME NEW S, Identified(S)
  PROVE  /\ \A t \in S : t \in Texts => t \in Ids
         /\ \A w, f : Opt(w, f, IsText) /\ Get(w, f) \in S => Get(w, f) \in Optional(Ids)
  <1>1. \A t \in S : t \in Texts => t \in Ids
    BY AbsenceAssumption DEF Identified, Ids
  <1>2. ASSUME NEW w, NEW f, Opt(w, f, IsText), Get(w, f) \in S
        PROVE  Get(w, f) \in Optional(Ids)
    BY <1>1, <1>2, Presence, OptionalTyping DEF Opt, IsText
  <1> QED BY <1>1, <1>2

LEMMA ReferencedIds ==
  \A w : \A f \in {"unitId", "cityId", "ownerPlayerId", "builtByPlayerId", "builtByCityId",
                   "playerId", "firstPlayerId", "secondPlayerId"} :
      Get(w, f) \in ReferenceIds(w)
  BY DEF ReferenceIds

LEMMA ReferenceTyping ==
  ASSUME NEW w, Identified(ReferenceIds(w))
  PROVE  \A f \in {"unitId", "cityId", "ownerPlayerId", "builtByPlayerId", "builtByCityId",
                   "playerId", "firstPlayerId", "secondPlayerId"} :
             f \in DOMAIN w /\ w[f] \in Texts => w[f] \in Ids
  <1>1. \A t \in ReferenceIds(w) : t \in Texts => t \in Ids
    BY IdTyping
  <1> QED BY <1>1, ReferencedIds, Presence

LEMMA CoordinateTyping == \A w : IsCoordinate(w) => DecodeCoordinate(w) \in HexCoord
  BY DEF IsCoordinate, DecodeCoordinate, HexCoord

LEMMA CoordinatesTyping ==
  ASSUME NEW s, Every(IsCoordinate, s)
  PROVE  /\ Each(DecodeCoordinate, s) \in ListsOf(HexCoord)
         /\ DecodeHexes(s) \in SortedSets(HexCoord)
  <1> DEFINE f == [i \in DOMAIN s |-> DecodeCoordinate(s[i])]
  <1>1. IsList(s) /\ \A i \in DOMAIN s : IsCoordinate(s[i])
    BY DEF Every
  <1>2. f = [i \in DOMAIN s |-> f[i]] /\ \A i \in DOMAIN s : f[i] \in HexCoord
    BY <1>1, CoordinateTyping
  <1>3. Each(DecodeCoordinate, s) = f
    BY DEF Each
  <1> HIDE DEF f
  <1> QED BY <1>1, <1>2, <1>3, EachIsList, ElementsAreSet DEF DecodeHexes

LEMMA StepsTyping ==
  ASSUME NEW s, Every(IsStep, s)
  PROVE  Each(DecodeStep, s) \in ListsOf(MovementStep)
  <1> DEFINE f == [i \in DOMAIN s |-> DecodeStep(s[i])]
  <1>1. IsList(s) /\ \A i \in DOMAIN s : IsStep(s[i])
    BY DEF Every
  <1>2. \A w : IsStep(w) => DecodeStep(w) \in MovementStep
    BY DEF IsStep, DecodeStep, MovementStep, DecodeCoordinate, HexCoord, Unsigned
  <1>3. f = [i \in DOMAIN s |-> f[i]] /\ \A i \in DOMAIN s : f[i] \in MovementStep
    BY <1>1, <1>2
  <1>4. Each(DecodeStep, s) = f
    BY DEF Each
  <1> HIDE DEF f
  <1> QED BY <1>1, <1>3, <1>4, EachIsList

LEMMA ArmyTyping ==
  ASSUME NEW s, Every(IsTroop, s)
  PROVE  Each(DecodeTroop, s) \in ListsOf(ArmyTroop)
  <1> DEFINE f == [i \in DOMAIN s |-> DecodeTroop(s[i])]
  <1>1. IsList(s) /\ \A i \in DOMAIN s : IsTroop(s[i])
    BY DEF Every
  <1>2. \A w : IsTroop(w) => DecodeTroop(w) \in ArmyTroop
    BY EnumerationTyping DEF IsTroop, DecodeTroop, ArmyTroop, Unsigned
  <1>3. f = [i \in DOMAIN s |-> f[i]] /\ \A i \in DOMAIN s : f[i] \in ArmyTroop
    BY <1>1, <1>2
  <1>4. Each(DecodeTroop, s) = f
    BY DEF Each
  <1> HIDE DEF f
  <1> QED BY <1>1, <1>3, <1>4, EachIsList

LEMMA QueuedTyping ==
  ASSUME NEW w, Opt(w, "queuedPath", IsPath)
  PROVE  Optionally(DecodePath, Get(w, "queuedPath")) \in Optional(QueuedMovePath)
  <1>1. CASE Absent(w, "queuedPath")
    BY <1>1, Presence, OptionalTyping DEF Optionally
  <1>2. CASE ~ Absent(w, "queuedPath")
    <2>1. IsPath(w.queuedPath) /\ Get(w, "queuedPath") = w.queuedPath
      BY <1>2, Presence DEF Opt
    <2>2. Each(DecodeStep, w.queuedPath.steps) \in ListsOf(MovementStep)
      BY <2>1, StepsTyping DEF IsPath
    <2>3. DecodePath(w.queuedPath) \in QueuedMovePath
      BY <2>1, <2>2 DEF IsPath, DecodePath, QueuedMovePath, HexCoord
    <2> QED BY <2>1, <2>3, OptionalTyping DEF Optionally
  <1> QED BY <1>1, <1>2

LEMMA MerchantTyping ==
  ASSUME NEW w, Opt(w, "merchantTradeRoute", IsMerchant),
         ~ Absent(w, "merchantTradeRoute") =>
             Identified({w.merchantTradeRoute.originCityId,
                         w.merchantTradeRoute.destinationCityId})
  PROVE  Optionally(DecodeMerchant, Get(w, "merchantTradeRoute")) \in Optional(MerchantTradeRoute)
  <1>1. CASE Absent(w, "merchantTradeRoute")
    BY <1>1, Presence, OptionalTyping DEF Optionally
  <1>2. CASE ~ Absent(w, "merchantTradeRoute")
    <2>1. IsMerchant(w.merchantTradeRoute) /\ Get(w, "merchantTradeRoute") = w.merchantTradeRoute
      BY <1>2, Presence DEF Opt
    <2>2. Each(DecodeStep, w.merchantTradeRoute.steps) \in ListsOf(MovementStep)
      BY <2>1, StepsTyping DEF IsMerchant
    <2>4. w.merchantTradeRoute.originCityId \in Ids
          /\ w.merchantTradeRoute.destinationCityId \in Ids
      BY <1>2, <2>1, IdTyping DEF IsMerchant, IsText
    <2>3. DecodeMerchant(w.merchantTradeRoute) \in MerchantTradeRoute
      BY <2>1, <2>2, <2>4 DEF IsMerchant, DecodeMerchant, MerchantTradeRoute, IsText
    <2> QED BY <2>1, <2>3, OptionalTyping DEF Optionally
  <1> QED BY <1>1, <1>2

LEMMA JobTyping ==
  ASSUME NEW w, Opt(w, "workerJob", IsJob)
  PROVE  Optionally(DecodeJob, Get(w, "workerJob")) \in Optional(WorkerJob)
  <1>1. CASE Absent(w, "workerJob")
    BY <1>1, Presence, OptionalTyping DEF Optionally
  <1>2. CASE ~ Absent(w, "workerJob")
    <2> DEFINE job == w.workerJob
               improvement == Optionally(LAMBDA i : Valued(Improvements, i),
                                         Get(job, "improvement"))
    <2>1. IsJob(job) /\ Get(w, "workerJob") = job
      BY <1>2, Presence DEF Opt
    <2> HIDE DEF job
    <2>2. "improvement" \in DOMAIN job => job.improvement \in Names(Improvements)
      BY <2>1 DEF IsJob, Fields
    <2>3. improvement \in Optional(0 .. 18)
      BY <2>2, Presence, OptionalTyping, EnumerationTyping DEF Optionally
    <2>4. DecodeCoordinate(job.target) \in HexCoord
          /\ job.remainingTurns \in Numbers /\ job.totalTurns \in Numbers
      BY <2>1, CoordinateTyping DEF IsJob, IsTimed, Unsigned
    <2>5. DecodeJob(job) = [target |-> DecodeCoordinate(job.target),
                            remaining |-> job.remainingTurns, total |-> job.totalTurns,
                            improvement |-> improvement]
      BY DEF DecodeJob
    <2> HIDE DEF improvement
    <2>6. DecodeJob(job) \in WorkerJob
      BY <2>3, <2>4, <2>5 DEF WorkerJob
    <2> QED BY <2>1, <2>6, OptionalTyping DEF Optionally
  <1> QED BY <1>1, <1>2

LEMMA FoundingTyping ==
  ASSUME NEW w, Opt(w, "cityFoundingJob", IsFounding)
  PROVE  Optionally(DecodeFounding, Get(w, "cityFoundingJob")) \in Optional(CityFoundingJob)
  <1>1. CASE Absent(w, "cityFoundingJob")
    BY <1>1, Presence, OptionalTyping DEF Optionally
  <1>2. CASE ~ Absent(w, "cityFoundingJob")
    <2>1. IsFounding(w.cityFoundingJob) /\ Get(w, "cityFoundingJob") = w.cityFoundingJob
      BY <1>2, Presence DEF Opt
    <2>2. Each(DecodeCoordinate, w.cityFoundingJob.controlledHexes) \in ListsOf(HexCoord)
      BY <2>1, CoordinatesTyping DEF IsFounding
    <2>3. DecodeCoordinate(w.cityFoundingJob.center) \in HexCoord
      BY <2>1, CoordinateTyping DEF IsFounding
    <2>4. DecodeFounding(w.cityFoundingJob) \in CityFoundingJob
      BY <2>1, <2>2, <2>3 DEF IsFounding, DecodeFounding, CityFoundingJob, IsTimed, Unsigned
    <2> QED BY <2>1, <2>4, OptionalTyping DEF Optionally
  <1> QED BY <1>1, <1>2

LEMMA ActivityTyping ==
  ASSUME NEW w, IsActivity(w), Identified(ActivityIds(w))
  PROVE  DecodeActivity(w) \in UnitActivity
  <1>1. Optionally(DecodeJob, Get(w, "workerJob")) \in Optional(WorkerJob)
    BY JobTyping DEF IsActivity
  <1>2. Optionally(DecodeFounding, Get(w, "cityFoundingJob")) \in Optional(CityFoundingJob)
    BY FoundingTyping DEF IsActivity
  <1>3. Optionally(DecodeCoordinate, Get(w, "workerAssignment")) \in Optional(HexCoord)
    BY Presence, OptionalTyping, CoordinateTyping DEF IsActivity, Opt, Optionally
  <1>4. Get(w, "excavatingArtifactId") \in Optional(Ids)
    BY IdTyping DEF IsActivity, ActivityIds
  <1> QED BY <1>1, <1>2, <1>3, <1>4 DEF DecodeActivity, UnitActivity

LEMMA UnitTyping ==
  ASSUME NEW w, IsUnit(w), Identified(UnitIds(w))
  PROVE  DecodeUnit(w) \in Unit
  <1>1. w.id \in Ids /\ w.ownerPlayerId \in Ids /\ w.name \in Texts
    BY IdTyping DEF IsUnit, IsText, UnitIds
  <1>2. Valued(UnitKinds, w.kind) \in 0 .. 16 /\ Valued(Postures, w.posture) \in 0 .. 3
    BY EnumerationTyping DEF IsUnit
  <1>3. DecodeCoordinate(w) \in HexCoord
    BY DEF IsUnit, DecodeCoordinate, HexCoord
  <1>4. /\ w.movementUnits \in Numbers /\ w.workerBuildCharges \in Numbers
        /\ w.experiencePoints \in Numbers
    BY DEF IsUnit, Unsigned
  <1>5. Each(DecodeTroop, w.army) \in ListsOf(ArmyTroop)
    BY ArmyTyping DEF IsUnit
  <1>6. Optionally(DecodePath, Get(w, "queuedPath")) \in Optional(QueuedMovePath)
    BY QueuedTyping DEF IsUnit
  <1>7. Optionally(DecodeMerchant, Get(w, "merchantTradeRoute")) \in Optional(MerchantTradeRoute)
    BY MerchantTyping DEF IsUnit, UnitIds, Identified
  <1>8. DecodeActivity(w.activity) \in UnitActivity
    BY ActivityTyping DEF IsUnit, UnitIds, Identified
  <1>9. Get(w, "hitPoints") \in Optional(Numbers)
    BY Presence, OptionalTyping DEF IsUnit, Opt, Unsigned
  <1>10. Get(w, "carriedArtifactId") \in Optional(Ids)
    BY IdTyping DEF IsUnit, UnitIds
  <1> QED BY <1>1, <1>2, <1>3, <1>4, <1>5, <1>6, <1>7, <1>8, <1>9, <1>10 DEF DecodeUnit, Unit

LEMMA CityTyping ==
  ASSUME NEW w, IsCity(w), Identified({w.id, w.ownerPlayerId})
  PROVE  DecodeCity(w) \in City
  <1>1. w.id \in Ids /\ w.ownerPlayerId \in Ids
    BY IdTyping DEF IsCity, IsText
  <1>2. DecodeCoordinate(w.center) \in HexCoord
    BY CoordinateTyping DEF IsCity
  <1>3. DecodeHexes(w.controlledHexes) \in SortedSets(HexCoord)
    BY CoordinatesTyping DEF IsCity
  <1>4. DecodeHexes(w.controlledHexes) \ {DecodeCoordinate(w.center)} \in SortedSets(HexCoord)
    BY <1>3, PartsAreSets
  <1> QED BY <1>1, <1>2, <1>4 DEF DecodeCity, City

LEMMA LocationTyping ==
  ASSUME NEW w, IsLocation(w), Identified(ReferenceIds(w))
  PROVE  DecodeLocation(w) \in WorldArtifactLocation
  <1> DEFINE l == DecodeLocation(w)
  <1>1. /\ l.kind = w.kind /\ l.unit = Get(w, "unitId") /\ l.city = Get(w, "cityId")
        /\ l.tile = IF w.kind \in {"map", "excavation"} THEN DecodeCoordinate(w.coordinate)
                    ELSE None
        /\ l.remaining = Get(w, "remainingTurns")
        /\ l = [kind |-> l.kind, unit |-> l.unit, city |-> l.city, tile |-> l.tile,
                remaining |-> l.remaining]
    BY DEF DecodeLocation
  <1> HIDE DEF l
  <1>4. /\ \A t : t = Get(w, "unitId") /\ t \in Texts => t \in Ids
        /\ \A t : t = Get(w, "cityId") /\ t \in Texts => t \in Ids
    BY IdTyping, ReferencedIds
  <1>2. /\ w.kind \in {"map", "carried", "stored", "excavation"}
        /\ Get(w, "unitId") \in Only(w.kind \in {"carried", "excavation"}, Ids)
        /\ Get(w, "cityId") \in Only(w.kind = "stored", Ids)
        /\ l.tile \in Only(w.kind \in {"map", "excavation"}, HexCoord)
        /\ Get(w, "remainingTurns") \in Only(w.kind = "excavation", Numbers)
    <2>1. CASE /\ w.kind = "map" /\ Fields(w, {"kind", "coordinate"}, {})
               /\ IsCoordinate(w.coordinate)
      <3>1. /\ "unitId" \notin DOMAIN w /\ "cityId" \notin DOMAIN w
            /\ "remainingTurns" \notin DOMAIN w
        BY <2>1 DEF Fields
      <3> QED BY <1>1, <1>4, <2>1, <3>1, Presence, CoordinateTyping DEF Only
    <2>2. CASE w.kind = "carried" /\ Fields(w, {"kind", "unitId"}, {}) /\ IsText(w.unitId)
      <3>1. "unitId" \in DOMAIN w /\ "cityId" \notin DOMAIN w /\ "remainingTurns" \notin DOMAIN w
        BY <2>2 DEF Fields
      <3> QED BY <1>1, <1>4, <2>2, <3>1, Presence DEF Only, IsText
    <2>3. CASE w.kind = "stored" /\ Fields(w, {"kind", "cityId"}, {}) /\ IsText(w.cityId)
      <3>1. "unitId" \notin DOMAIN w /\ "cityId" \in DOMAIN w /\ "remainingTurns" \notin DOMAIN w
        BY <2>3 DEF Fields
      <3> QED BY <1>1, <1>4, <2>3, <3>1, Presence DEF Only, IsText
    <2>4. CASE /\ w.kind = "excavation"
               /\ Fields(w, {"kind", "unitId", "coordinate", "remainingTurns"}, {})
               /\ IsText(w.unitId) /\ IsCoordinate(w.coordinate) /\ Unsigned(w.remainingTurns)
      <3>1. "unitId" \in DOMAIN w /\ "cityId" \notin DOMAIN w /\ "remainingTurns" \in DOMAIN w
        BY <2>4 DEF Fields
      <3> QED BY <1>1, <1>4, <2>4, <3>1, Presence, CoordinateTyping DEF Only, IsText, Unsigned
    <2> QED BY <2>1, <2>2, <2>3, <2>4 DEF IsLocation
  <1>3. \A condition, S, x : x \in Only(condition, S) => x \in Optional(S)
    BY DEF Only, Optional
  <1> QED BY <1>1, <1>2, <1>3 DEF WorldArtifactLocation, l

LEMMA ArtifactTyping ==
  ASSUME NEW w, IsArtifact(w), Identified({w.id} \cup ReferenceIds(w.location))
  PROVE  DecodeArtifact(w) \in WorldArtifact
  <1>1. w.id \in Ids /\ Valued(ArtifactTypes, w.type) \in 0 .. 7
    BY IdTyping, EnumerationTyping DEF IsArtifact, IsText
  <1>2. DecodeLocation(w.location) \in WorldArtifactLocation
    BY LocationTyping DEF IsArtifact, Identified
  <1> QED BY <1>1, <1>2 DEF DecodeArtifact, WorldArtifact

LEMMA DraftTyping ==
  ASSUME NEW w, Opt(w, "cityFoundingDraft", IsDraft),
         ~ Absent(w, "cityFoundingDraft") => Identified(ReferenceIds(w.cityFoundingDraft))
  PROVE  Optionally(DecodeDraft, Get(w, "cityFoundingDraft")) \in Optional(CityFoundingDraft)
  <1>1. CASE Absent(w, "cityFoundingDraft")
    BY <1>1, Presence, OptionalTyping DEF Optionally
  <1>2. CASE ~ Absent(w, "cityFoundingDraft")
    <2> DEFINE d == w.cityFoundingDraft
    <2>1. IsDraft(d) /\ Get(w, "cityFoundingDraft") = d
      BY <1>2, Presence DEF Opt
    <2>5. Identified(ReferenceIds(d))
      BY <1>2
    <2> HIDE DEF d
    <2>6. d.unitId \in Ids /\ d.ownerPlayerId \in Ids
      BY <2>1, <2>5, ReferenceTyping DEF IsDraft, IsText, Fields
    <2>2. Each(DecodeCoordinate, d.controlledHexes) \in ListsOf(HexCoord)
      BY <2>1, CoordinatesTyping DEF IsDraft
    <2>3. DecodeCoordinate(d.center) \in HexCoord
      BY <2>1, CoordinateTyping DEF IsDraft
    <2>4. DecodeDraft(d) \in CityFoundingDraft
      BY <2>1, <2>2, <2>3, <2>6 DEF IsDraft, DecodeDraft, CityFoundingDraft, IsText
    <2> QED BY <2>1, <2>4, OptionalTyping DEF Optionally
  <1> QED BY <1>1, <1>2

LEMMA PendingKindsAreThese ==
  ASSUME NEW kind \in Names(PendingKinds)
  PROVE  kind \in {"researchSelection"} \cup CityKinds \cup SelectionKinds
  <1> DEFINE kinds == PendingKinds
             those == {"researchSelection"} \cup CityKinds \cup SelectionKinds
  <1>1. \A i \in 1 .. 9 : kinds[i] \in those
    BY DEF PendingKinds, CityKinds, SelectionKinds
  <1>2. DOMAIN kinds = 1 .. 9
    BY EnumerationsAreCounted
  <1> HIDE DEF kinds, those
  <1>3. \A x \in Names(kinds) : x \in those
    BY <1>1, <1>2 DEF Names, ToSet
  <1> QED BY <1>3 DEF kinds, those

LEMMA PendingTyping ==
  ASSUME NEW w, IsPending(w), Identified(ReferenceIds(w))
  PROVE  DecodePending(w) \in PendingInteraction
  <1> DEFINE p == DecodePending(w)
             improvement == Optionally(LAMBDA i : Valued(Improvements, i), Get(w, "improvement"))
             defender == Optionally(DecodeCoordinate, Get(w, "defender"))
             kind == w.type
             kinds == {"researchSelection"} \cup CityKinds \cup SelectionKinds
  <1>1. kind \in kinds
    BY PendingKindsAreThese DEF IsPending
  <1>2. /\ p = [kind |-> kind, owner |-> w.ownerPlayerId, city |-> Get(w, "cityId"),
                unit |-> Get(w, "unitId"), restore |-> Get(w, "restoreMovementUnits"),
                improvement |-> improvement, defender |-> defender]
    BY DEF DecodePending
  <1>3. PendingFields(kind) \subseteq DOMAIN w
        /\ DOMAIN w \subseteq PendingFields(kind) \cup PendingOptions(kind)
    BY DEF IsPending, Fields
  <1>4. \A f \in {"ownerPlayerId", "cityId", "unitId"} : f \in DOMAIN w => w[f] \in Ids
    BY ReferenceTyping DEF IsPending, IsText
  <1>5. "restoreMovementUnits" \in DOMAIN w => w.restoreMovementUnits \in Numbers
    BY DEF IsPending, Unsigned
  <1>6. improvement \in Optional(0 .. 18)
    BY Presence, OptionalTyping, EnumerationTyping DEF IsPending, Opt, Optionally
  <1>7. defender \in Optional(HexCoord)
    BY Presence, OptionalTyping, CoordinateTyping DEF IsPending, Opt, Optionally
  <1>8. /\ improvement # None => "improvement" \in DOMAIN w
        /\ defender # None => "defender" \in DOMAIN w
    BY Presence DEF Optionally
  <1> HIDE DEF improvement, defender, kind, p
  <1>9. "ownerPlayerId" \in DOMAIN w
        /\ ("cityId" \in DOMAIN w <=> kind \in CityKinds)
        /\ ("unitId" \in DOMAIN w <=> kind \in SelectionKinds)
        /\ ("restoreMovementUnits" \in DOMAIN w <=> kind = "unitTurnSkip")
        /\ ("improvement" \in DOMAIN w => kind = "workerActionSelection")
        /\ ("defender" \in DOMAIN w => kind = "attackTargeting")
    BY <1>1, <1>3 DEF PendingFields, PendingOptions, CityKinds, SelectionKinds
  <1>10. w.ownerPlayerId \in Ids
    BY <1>4, <1>9
  <1>11. Get(w, "cityId") \in Only(kind \in CityKinds, Ids)
    BY <1>4, <1>9, Presence DEF Only
  <1>12. Get(w, "unitId") \in Only(kind \in SelectionKinds, Ids)
    BY <1>4, <1>9, Presence DEF Only
  <1>13. Get(w, "restoreMovementUnits") \in Only(kind = "unitTurnSkip", Numbers)
    BY <1>5, <1>9, Presence DEF Only
  <1>14. (improvement # None => kind = "workerActionSelection")
         /\ (defender # None => kind = "attackTargeting")
    BY <1>8, <1>9
  <1>15. \A condition, S, x : x \in Only(condition, S) => x \in Optional(S)
    BY DEF Only, Optional
  <1>16. p \in [kind : kinds, owner : Ids, city : Optional(Ids), unit : Optional(Ids),
                restore : Optional(Numbers), improvement : Optional(0 .. 18),
                defender : Optional(HexCoord)]
    BY <1>1, <1>2, <1>6, <1>7, <1>10, <1>11, <1>12, <1>13, <1>15
  <1>17. /\ p.kind = kind /\ p.city = Get(w, "cityId") /\ p.unit = Get(w, "unitId")
         /\ p.restore = Get(w, "restoreMovementUnits")
         /\ p.improvement = improvement /\ p.defender = defender
    BY <1>2
  <1>18. p \in PendingInteraction
    BY <1>11, <1>12, <1>13, <1>14, <1>16, <1>17 DEF PendingInteraction
  <1> QED BY <1>18 DEF p

\* The cells of a map are as many as the product of its sides.
LEMMA CellsCount ==
  ASSUME NEW S, NEW T, NEW m, NEW n,
         IsFiniteSet(S), IsFiniteSet(T), Cardinality(S) = m, Cardinality(T) = n
  PROVE  IsFiniteSet(S \X T) /\ Cardinality(S \X T) = m * n
  BY FS_Product

\* Coordinates of a map are few enough to be listed.
LEMMA TilesAreSet ==
  ASSUME NEW cols \in ShortNumbers, NEW rows \in ShortNumbers,
         NEW D \in SUBSET Grid(cols, rows)!Tiles
  PROVE  D \in SortedSets(HexCoord)
  <1>1. cols \in Nat /\ rows \in Nat /\ cols < 65536 /\ rows < 65536
    BY DEF ShortNumbers
  <1>2. D \in SUBSET ((0 .. cols - 1) \X (0 .. rows - 1))
    BY DEF Grid!Tiles
  <1>3. /\ IsFiniteSet(0 .. cols - 1) /\ Cardinality(0 .. cols - 1) = cols
        /\ IsFiniteSet(0 .. rows - 1) /\ Cardinality(0 .. rows - 1) = rows
    <2>1. \A n \in Nat : IsFiniteSet(0 .. n - 1) /\ Cardinality(0 .. n - 1) = n
      <3> SUFFICES ASSUME NEW n \in Nat
                   PROVE  IsFiniteSet(0 .. n - 1) /\ Cardinality(0 .. n - 1) = n
        OBVIOUS
      <3>1. 0 \in Int /\ n - 1 \in Int /\ (0 > n - 1 => n = 0) /\ n - 1 - 0 + 1 = n
        OBVIOUS
      <3>2. /\ IsFiniteSet(0 .. n - 1)
            /\ Cardinality(0 .. n - 1) = IF 0 > n - 1 THEN 0 ELSE n - 1 - 0 + 1
        BY <3>1, FS_Interval
      <3> QED BY <3>1, <3>2
    <2> QED BY <1>1, <2>1
  <1>4. /\ IsFiniteSet((0 .. cols - 1) \X (0 .. rows - 1))
        /\ Cardinality((0 .. cols - 1) \X (0 .. rows - 1)) = cols * rows
    <2> DEFINE C == 0 .. cols - 1
               R == 0 .. rows - 1
    <2>1. /\ IsFiniteSet(C) /\ Cardinality(C) = cols
          /\ IsFiniteSet(R) /\ Cardinality(R) = rows
      BY <1>3
    <2> HIDE DEF C, R
    <2>2. IsFiniteSet(C \X R) /\ Cardinality(C \X R) = cols * rows
      BY <2>1, CellsCount
    <2> QED BY <2>2 DEF C, R
  <1>5. IsFiniteSet(D) /\ Cardinality(D) <= cols * rows /\ Cardinality(D) \in Nat
    BY <1>2, <1>4, FS_Subset, FS_CardinalityType
  <1>6. cols * rows \in Nat /\ cols * rows <= 65535 * 65535
    BY <1>1
  <1>7. 65535 * 65535 \in Lengths
    BY DEF Lengths
  <1>8. Cardinality(D) \in Lengths
    BY <1>5, <1>6, <1>7, ShorterLength
  <1>9. \A k \in Nat : k < 65536 => k \in SignedNumbers
    <2>1. \A k \in Nat : k < 65536 => k \in Int /\ k \div 65536 = 0
      OBVIOUS
    <2>2. 0 - 32768 <= 0 /\ 0 < 32768
      OBVIOUS
    <2> QED BY <2>1, <2>2 DEF SignedNumbers
  <1>10. (0 .. cols - 1) \subseteq SignedNumbers /\ (0 .. rows - 1) \subseteq SignedNumbers
    <2>1. \A k \in 0 .. cols - 1 : k \in Nat /\ k < 65536
      BY <1>1
    <2>2. \A k \in 0 .. rows - 1 : k \in Nat /\ k < 65536
      BY <1>1
    <2> QED BY <1>9, <2>1, <2>2
  <1>11. D \in SUBSET HexCoord
    BY <1>2, <1>10 DEF HexCoord
  <1> QED BY <1>5, <1>8, <1>11 DEF SortedSets

LEMMA FogTyping ==
  ASSUME NEW w, IsFog(w), Identified(ReferenceIds(w)),
          NEW cols \in ShortNumbers, NEW rows \in ShortNumbers,
         DecodeFog(w).discovered \subseteq Grid(cols, rows)!Tiles
  PROVE  DecodeFog(w) \in PlayerFog
  <1>1. DecodeHexes(w.visibleHexes) \in SortedSets(HexCoord) /\ w.playerId \in Ids
    BY CoordinatesTyping, ReferenceTyping DEF IsFog, IsText, Fields
  <1>2. DecodeFog(w).discovered \in SortedSets(HexCoord)
    BY TilesAreSet
  <1>3. DecodeFog(w) = [player |-> w.playerId, visible |-> DecodeHexes(w.visibleHexes),
                        discovered |-> DecodeFog(w).discovered]
        /\ DecodeHexes(w.visibleHexes) \subseteq DecodeFog(w).discovered
    BY DEF DecodeFog
  <1> QED BY <1>1, <1>2, <1>3 DEF PlayerFog

LEMMA PairTyping ==
  ASSUME NEW w, IsPair(w), Identified(ReferenceIds(w)), w.firstPlayerId # w.secondPlayerId
  PROVE  DecodePair(w) \in PlayerPair
  <1>1. w.firstPlayerId \in Ids /\ w.secondPlayerId \in Ids
    BY ReferenceTyping DEF IsPair, IsText, Fields
  <1>2. Before(w.firstPlayerId, w.secondPlayerId) \/ Before(w.secondPlayerId, w.firstPlayerId)
    BY <1>1, TextsAreSequences, BeforeTotal
  <1> QED BY <1>1, <1>2 DEF DecodePair, PlayerPair

LEMMA RoadTyping ==
  ASSUME NEW w, IsRoad(w), Identified(ReferenceIds(w))
  PROVE  DecodeRoad(w) \in TransportSegment
  <1>1. DecodeCoordinate(w.coordinate) \in HexCoord /\ w.builtByPlayerId \in Ids
    BY CoordinateTyping, ReferenceTyping DEF IsRoad, IsText, Fields
  <1>2. Valued(Conditions, w.condition) \in 0 .. 1
    BY EnumerationTyping DEF IsRoad
  <1>3. Get(w, "builtByCityId") \in Optional(Ids)
    BY IdTyping, ReferencedIds DEF IsRoad
  <1> QED BY <1>1, <1>2, <1>3 DEF DecodeRoad, TransportSegment

\* Who the identifiers of a document are.
LEMMA DocumentIds ==
  ASSUME NEW w
  PROVE  Identified(Identifiers(w)) <=>
           /\ \A i \in DOMAIN w.units : Identified(UnitIds(w.units[i]))
           /\ \A i \in DOMAIN w.cities : Identified({w.cities[i].id, w.cities[i].ownerPlayerId})
           /\ \A i \in DOMAIN w.artifacts :
                 Identified({w.artifacts[i].id} \cup ReferenceIds(w.artifacts[i].location))
           /\ \A f \in {"cityFoundingDraft", "pending"} :
                 ~ Absent(w.interaction, f) => Identified(ReferenceIds(w.interaction[f]))
           /\ \A i \in DOMAIN w.fogOfWar : Identified(ReferenceIds(w.fogOfWar[i]))
           /\ \A i \in DOMAIN w.diplomaticContacts :
                 Identified(ReferenceIds(w.diplomaticContacts[i]))
           /\ \A i \in DOMAIN w.transportNetwork :
                 Identified(ReferenceIds(w.transportNetwork[i]))
  BY DEF Identifiers, Identified

\* A document that decodes, decodes to a state: decode_game_state.
LEMMA DecodedState ==
  ASSUME NEW w, Decodable(w)
  PROVE  DecodeState(w) \in State /\ ValidState(DecodeState(w))
  <1> DEFINE g == DecodeState(w)
  <1>1. /\ Every(IsUnit, w.units) /\ Every(IsCity, w.cities) /\ Every(IsArtifact, w.artifacts)
        /\ IsInteraction(w.interaction) /\ Every(IsFog, w.fogOfWar)
        /\ Every(IsPair, w.diplomaticContacts) /\ Every(IsRoad, w.transportNetwork)
        /\ w.occupancyPolicy \in Names(Policies)
        /\ w.revision \in LongNumbers /\ w.turn \in Numbers
        /\ w.cols \in Dimensions /\ w.rows \in Dimensions
        /\ w.cols \in ShortNumbers /\ w.rows \in ShortNumbers
    BY DEF Decodable, IsStateDocument, Unsigned, Dimensions, ShortNumbers
  <1>15. Identified(Identifiers(w))
    BY DEF Decodable, Identified
  <1>2. ValidState(g)
    BY DEF Decodable
  <1>3. /\ g = [revision |-> w.revision, turn |-> w.turn, cols |-> w.cols, rows |-> w.rows,
                policy |-> g.policy, units |-> g.units, cities |-> g.cities,
                artifacts |-> g.artifacts, draft |-> g.draft, pending |-> g.pending,
                fog |-> g.fog, contacts |-> g.contacts, roads |-> g.roads]
        /\ g.policy = Valued(Policies, w.occupancyPolicy)
        /\ g.units = Each(DecodeUnit, w.units) /\ g.cities = Each(DecodeCity, w.cities)
        /\ g.artifacts = Each(DecodeArtifact, w.artifacts)
        /\ g.draft = Optionally(DecodeDraft, Get(w.interaction, "cityFoundingDraft"))
        /\ g.pending = Optionally(DecodePending, Get(w.interaction, "pending"))
        /\ g.fog = ToSet(Each(DecodeFog, w.fogOfWar))
        /\ g.contacts = ToSet(Each(DecodePair, w.diplomaticContacts))
        /\ g.roads = ToSet(Each(DecodeRoad, w.transportNetwork))
        /\ g.cols = w.cols /\ g.rows = w.rows
    BY DEF DecodeState
  <1> HIDE DEF g
  <1>4. g.units \in ListsOf(Unit)
    <2> DEFINE s == w.units  f == [i \in DOMAIN s |-> DecodeUnit(s[i])]
    <2>1. IsList(s) /\ \A i \in DOMAIN s : f[i] \in Unit
      BY <1>1, <1>15, DocumentIds, UnitTyping DEF Every
    <2>2. f = [i \in DOMAIN s |-> f[i]] /\ g.units = f
      BY <1>3 DEF Each
    <2> HIDE DEF s, f
    <2> QED BY <2>1, <2>2, EachIsList
  <1>5. g.cities \in ListsOf(City)
    <2> DEFINE s == w.cities  f == [i \in DOMAIN s |-> DecodeCity(s[i])]
    <2>1. IsList(s) /\ \A i \in DOMAIN s : f[i] \in City
      BY <1>1, <1>15, DocumentIds, CityTyping DEF Every
    <2>2. f = [i \in DOMAIN s |-> f[i]] /\ g.cities = f
      BY <1>3 DEF Each
    <2> HIDE DEF s, f
    <2> QED BY <2>1, <2>2, EachIsList
  <1>6. g.artifacts \in ListsOf(WorldArtifact)
    <2> DEFINE s == w.artifacts  f == [i \in DOMAIN s |-> DecodeArtifact(s[i])]
    <2>1. IsList(s) /\ \A i \in DOMAIN s : f[i] \in WorldArtifact
      BY <1>1, <1>15, DocumentIds, ArtifactTyping DEF Every
    <2>2. f = [i \in DOMAIN s |-> f[i]] /\ g.artifacts = f
      BY <1>3 DEF Each
    <2> HIDE DEF s, f
    <2> QED BY <2>1, <2>2, EachIsList
  <1>7. g.draft \in Optional(CityFoundingDraft)
    BY <1>1, <1>3, <1>15, DocumentIds, DraftTyping DEF IsInteraction
  <1>8. g.pending \in Optional(PendingInteraction)
    <2>1. CASE Absent(w.interaction, "pending")
      BY <1>3, <2>1, Presence, OptionalTyping DEF Optionally
    <2>2. CASE ~ Absent(w.interaction, "pending")
      <3> DEFINE p == w.interaction.pending
      <3>1. IsPending(p) /\ Get(w.interaction, "pending") = p
        BY <1>1, <2>2, Presence DEF IsInteraction, Opt
      <3>2. Identified(ReferenceIds(p))
        BY <1>15, <2>2, DocumentIds
      <3> HIDE DEF p
      <3> QED BY <1>3, <3>1, <3>2, PendingTyping, OptionalTyping DEF Optionally
    <2> QED BY <2>1, <2>2
  <1>9. g.fog \in SortedSets(PlayerFog) /\ \A f, h \in g.fog : f.player = h.player => f = h
    <2> DEFINE s == w.fogOfWar  fogs == [i \in DOMAIN s |-> DecodeFog(s[i])]
    <2>1. g.fog = ToSet(fogs) /\ fogs = [i \in DOMAIN s |-> fogs[i]]
      BY <1>3 DEF Each
    <2>2. \A i \in DOMAIN s : fogs[i] \in g.fog
      BY <2>1 DEF ToSet
    <2>3. \A f \in g.fog : f.discovered \subseteq Grid(g.cols, g.rows)!Tiles
      BY <1>2 DEF ValidState, ValidEnvironment, InBounds
    <2>4. \A i \in DOMAIN s : DecodeFog(s[i]) \in PlayerFog
      <3> SUFFICES ASSUME NEW i \in DOMAIN s PROVE DecodeFog(s[i]) \in PlayerFog
        OBVIOUS
      <3>1. IsFog(s[i]) /\ Identified(ReferenceIds(s[i]))
        BY <1>1, <1>15, DocumentIds DEF Every
      <3>2. DecodeFog(s[i]).discovered \subseteq Grid(w.cols, w.rows)!Tiles
        BY <1>3, <2>2, <2>3
      <3> QED BY <1>1, <3>1, <3>2, FogTyping
    <2>5. IsList(s)
      BY <1>1 DEF Every
    <2>6. \A i \in DOMAIN s : fogs[i] \in PlayerFog /\ fogs[i].player = s[i].playerId
      BY <2>4 DEF DecodeFog
    <2>7. \A i, j \in DOMAIN s : s[i].playerId = s[j].playerId => i = j
      BY DEF Decodable, Distinct
    <2> HIDE DEF s, fogs
    <2>8. g.fog \in SortedSets(PlayerFog)
      BY <2>1, <2>5, <2>6, ElementsAreSet
    <2>9. \A f \in g.fog : \E i \in DOMAIN s : f = fogs[i]
      BY <2>1 DEF ToSet
    <2> QED BY <2>6, <2>7, <2>8, <2>9
  <1>10. g.contacts \in SortedSets(PlayerPair)
    <2> DEFINE s == w.diplomaticContacts  f == [i \in DOMAIN s |-> DecodePair(s[i])]
    <2>1. IsList(s) /\ \A i \in DOMAIN s : f[i] \in PlayerPair
      BY <1>1, <1>15, DocumentIds, PairTyping DEF Every, Decodable
    <2>2. f = [i \in DOMAIN s |-> f[i]] /\ g.contacts = ToSet(f)
      BY <1>3 DEF Each
    <2> HIDE DEF s, f
    <2> QED BY <2>1, <2>2, ElementsAreSet
  <1>11. g.roads \in SortedSets(TransportSegment)
         /\ \A r, q \in g.roads : r.coordinate = q.coordinate => r = q
    <2> DEFINE s == w.transportNetwork  f == [i \in DOMAIN s |-> DecodeRoad(s[i])]
    <2>1. IsList(s) /\ \A i \in DOMAIN s : f[i] \in TransportSegment
      BY <1>1, <1>15, DocumentIds, RoadTyping DEF Every
    <2>2. f = [i \in DOMAIN s |-> f[i]] /\ g.roads = ToSet(f)
      BY <1>3 DEF Each
    <2>3. \A i, j \in DOMAIN s :
             DecodeCoordinate(s[i].coordinate) = DecodeCoordinate(s[j].coordinate)
                                 => i = j
      BY DEF Decodable, Distinct
    <2>4. \A i \in DOMAIN s : f[i].coordinate = DecodeCoordinate(s[i].coordinate)
      BY DEF DecodeRoad
    <2> HIDE DEF s, f
    <2>5. g.roads \in SortedSets(TransportSegment)
      BY <2>1, <2>2, ElementsAreSet
    <2>6. \A r \in g.roads : \E i \in DOMAIN s : r = f[i]
      BY <2>2 DEF ToSet
    <2> QED BY <2>3, <2>4, <2>5, <2>6
  <1>12. g.policy \in 0 .. 1
    BY <1>1, <1>3, EnumerationTyping
  <1>13. g \in [revision : LongNumbers, turn : Numbers, cols : Dimensions, rows : Dimensions,
                policy : 0 .. 1, units : ListsOf(Unit), cities : ListsOf(City),
                artifacts : ListsOf(WorldArtifact), draft : Optional(CityFoundingDraft),
                pending : Optional(PendingInteraction), fog : SortedSets(PlayerFog),
                contacts : SortedSets(PlayerPair), roads : SortedSets(TransportSegment)]
    <2>1. /\ g.fog \in SortedSets(PlayerFog) /\ g.roads \in SortedSets(TransportSegment)
          /\ g = [revision |-> w.revision, turn |-> w.turn, cols |-> w.cols, rows |-> w.rows,
                  policy |-> g.policy, units |-> g.units, cities |-> g.cities,
                  artifacts |-> g.artifacts, draft |-> g.draft, pending |-> g.pending,
                  fog |-> g.fog, contacts |-> g.contacts, roads |-> g.roads]
      BY <1>3, <1>9, <1>11
    <2> QED BY <1>1, <1>4, <1>5, <1>6, <1>7, <1>8, <1>10, <1>12, <2>1
  <1>14. g \in State
    BY <1>9, <1>11, <1>13 DEF State
  <1> QED BY <1>2, <1>14 DEF g

-----------------------------------------------------------------------------
(* The tiles of a map.                                                     *)

LEMMA Scaled == \A a, b, c \in Nat : a < b => a * c + c <= b * c
  <1> SUFFICES ASSUME NEW a \in Nat, NEW b \in Nat, NEW c \in Nat, a < b
               PROVE  a * c + c <= b * c
    OBVIOUS
  <1>1. PICK d \in Nat : b = a + 1 + d
    <2>1. b - a - 1 \in Nat /\ b = a + 1 + (b - a - 1)
      OBVIOUS
    <2> QED BY <2>1
  <1>2. b * c = a * c + c + d * c /\ d * c \in Nat /\ a * c \in Nat
    BY <1>1
  <1> QED BY <1>2

\* Row-major indices, as HexGridBounds::index_of counts them.
LEMMA Indices ==
  ASSUME NEW cols \in Nat \ {0}, NEW rows \in Nat
  PROVE  /\ \A c, r \in Nat : c < cols =>
                 (r * cols + c) % cols = c /\ (r * cols + c) \div cols = r
         /\ \A v \in Nat : /\ v \div cols \in Nat /\ v % cols \in Nat /\ v % cols < cols
                           /\ v = (v \div cols) * cols + (v % cols)
         /\ \A v \in Nat : v < cols * rows => v \div cols < rows
         /\ \A c, r \in Nat : c < cols /\ r < rows =>
                 r * cols + c \in Nat /\ r * cols + c < cols * rows
         /\ \A c, r, d, s \in Nat : c < cols /\ d < cols =>
                 (r * cols + c < s * cols + d <=> r < s \/ (r = s /\ c < d))
  <1>1. \A v \in Nat : /\ v \div cols \in Nat /\ v % cols \in Nat /\ v % cols < cols
                       /\ v = (v \div cols) * cols + (v % cols)
    <2> SUFFICES ASSUME NEW v \in Nat
                 PROVE  /\ v \div cols \in Nat /\ v % cols \in Nat /\ v % cols < cols
                        /\ v = (v \div cols) * cols + (v % cols)
      OBVIOUS
    <2>1. v \div cols \in Nat
      OBVIOUS
    <2>2. v % cols \in Nat /\ v % cols < cols
      OBVIOUS
    <2>3. v = (v \div cols) * cols + (v % cols)
      OBVIOUS
    <2> QED BY <2>1, <2>2, <2>3
  <1>2. \A c, r \in Nat : r * cols \in Nat /\ r * cols + c \in Nat
    OBVIOUS
  <1>3. \A c, r, d, s \in Nat : c < cols /\ d < cols =>
                 (r * cols + c < s * cols + d <=> r < s \/ (r = s /\ c < d))
    <2> SUFFICES ASSUME NEW c \in Nat, NEW r \in Nat, NEW d \in Nat, NEW s \in Nat,
                        c < cols, d < cols
                 PROVE  r * cols + c < s * cols + d <=> r < s \/ (r = s /\ c < d)
      OBVIOUS
    <2> DEFINE x == r * cols  y == s * cols
    <2>1. x \in Nat /\ y \in Nat /\ (r = s => x = y)
      OBVIOUS
    <2>2. (r < s => x + cols <= y) /\ (s < r => y + cols <= x)
      BY Scaled
    <2> HIDE DEF x, y
    <2>3. x + c < y + d <=> r < s \/ (r = s /\ c < d)
      BY <2>1, <2>2
    <2> QED BY <2>3 DEF x, y
  <1>4. ASSUME NEW c \in Nat, NEW r \in Nat, c < cols
        PROVE  (r * cols + c) % cols = c /\ (r * cols + c) \div cols = r
    <2> DEFINE v == r * cols + c  q == v \div cols  m == v % cols
    <2>1. v \in Nat /\ q \in Nat /\ m \in Nat /\ m < cols /\ v = q * cols + m
      BY <1>1, <1>2
    <2> HIDE DEF q, m
    <2>2. ~(q * cols + m < r * cols + c) /\ ~(r * cols + c < q * cols + m)
      <3>1. q * cols + m = r * cols + c /\ q * cols + m \in Nat
        BY <2>1, <1>2
      <3> QED BY <3>1
    <2>3. q = r /\ m = c
      BY <1>3, <1>4, <2>1, <2>2
    <2> QED BY <2>3 DEF q, m, v
  <1>5. ASSUME NEW c \in Nat, NEW r \in Nat, c < cols, r < rows
        PROVE  r * cols + c \in Nat /\ r * cols + c < cols * rows
    <2>1. r * cols + cols <= rows * cols
      BY <1>5, Scaled
    <2>2. rows * cols = cols * rows /\ r * cols \in Nat /\ rows * cols \in Nat
      OBVIOUS
    <2> QED BY <1>5, <2>1, <2>2
  <1>6. ASSUME NEW v \in Nat, v < cols * rows
        PROVE  v \div cols < rows
    <2> DEFINE q == v \div cols  m == v % cols
    <2>1. q \in Nat /\ m \in Nat /\ v = q * cols + m
      BY <1>1
    <2> HIDE DEF q, m
    <2>2. rows < q \/ rows = q => rows * cols <= q * cols
      <3>1. rows < q => rows * cols + cols <= q * cols
        BY <2>1, Scaled
      <3>2. rows * cols \in Nat /\ q * cols \in Nat
        BY <2>1
      <3> QED BY <3>1, <3>2
    <2>3. rows * cols = cols * rows /\ q * cols \in Nat /\ rows * cols \in Nat
      BY <2>1
    <2>4. q < rows
      BY <1>6, <2>1, <2>2, <2>3
    <2> QED BY <2>4 DEF q
  <1> QED BY <1>1, <1>3, <1>4, <1>5, <1>6

\* What is numbered from zero has as many elements below it as its number.
LEMMA NumberIsRank ==
  ASSUME NEW S, NEW n \in Nat, NEW e \in Injection(S, 0 .. n - 1),
         e \in Surjection(S, 0 .. n - 1)
  PROVE  /\ IsFiniteSet(S) /\ Cardinality(S) = n
         /\ \A x \in S : Cardinality({y \in S : e[y] < e[x]}) = e[x]
  <1>1. \A k \in Nat : IsFiniteSet(0 .. k - 1) /\ Cardinality(0 .. k - 1) = k
    <2> SUFFICES ASSUME NEW k \in Nat
                 PROVE  IsFiniteSet(0 .. k - 1) /\ Cardinality(0 .. k - 1) = k
      OBVIOUS
    <2>1. 0 \in Int /\ k - 1 \in Int /\ (0 > k - 1 => k = 0) /\ k - 1 - 0 + 1 = k
      OBVIOUS
    <2>2. /\ IsFiniteSet(0 .. k - 1)
          /\ Cardinality(0 .. k - 1) = IF 0 > k - 1 THEN 0 ELSE k - 1 - 0 + 1
      BY <2>1, FS_Interval
    <2> QED BY <2>1, <2>2
  <1>2. /\ e \in [S -> 0 .. n - 1]
        /\ \A x, y \in S : e[x] = e[y] => x = y
        /\ \A k \in 0 .. n - 1 : \E x \in S : e[x] = k
    BY DEF Injection, Surjection, IsInjective
  <1>3. IsFiniteSet(S) /\ Cardinality(S) = n
    BY <1>1, FS_Injection
  <1>4. ASSUME NEW x \in S
        PROVE  Cardinality({y \in S : e[y] < e[x]}) = e[x]
    <2> DEFINE U == {y \in S : e[y] < e[x]}
               m == e[x]
               f == [y \in U |-> e[y]]
    <2>1. m \in 0 .. n - 1 /\ m \in Nat /\ m - 1 < n
      BY <1>2
    <2>2. \A y \in U : y \in S /\ e[y] \in 0 .. m - 1 /\ f[y] = e[y]
      BY <1>2, <2>1
    <2>3. \A k \in 0 .. m - 1 : \E y \in U : e[y] = k
      <3> SUFFICES ASSUME NEW k \in 0 .. m - 1 PROVE \E y \in U : e[y] = k
        OBVIOUS
      <3>1. k \in 0 .. n - 1 /\ k < m
        BY <2>1
      <3>2. PICK y \in S : e[y] = k
        BY <1>2, <3>1
      <3> QED BY <3>1, <3>2
    <2>4. DOMAIN f = U
      OBVIOUS
    <2> HIDE DEF U, m
    <2>5. f \in [U -> 0 .. m - 1]
      BY <2>2
    <2> HIDE DEF f
    <2>6. f \in Injection(U, 0 .. m - 1)
      BY <1>2, <2>2, <2>4, <2>5 DEF Injection, IsInjective
    <2>7. \A k \in 0 .. m - 1 : \E y \in U : f[y] = k
      BY <2>2, <2>3
    <2>8. f \in Surjection(U, 0 .. m - 1)
      BY <2>5, <2>7 DEF Surjection
    <2>9. Cardinality(U) = Cardinality(0 .. m - 1)
      <3> DEFINE V == 0 .. m - 1
      <3>1. IsFiniteSet(V) /\ f \in Injection(U, V) /\ f \in Surjection(U, V)
        BY <1>1, <2>1, <2>6, <2>8
      <3> HIDE DEF V
      <3>2. Cardinality(U) = Cardinality(V)
        BY <3>1, FS_Injection
      <3> QED BY <3>2 DEF V
    <2> QED BY <1>1, <2>1, <2>9 DEF U, m
  <1> QED BY <1>3, <1>4

LEMMA TileKeepsCell ==
  ASSUME NEW w, IsTile(w)
  PROVE  TileOf(w).col = w.col /\ TileOf(w).row = w.row
  <1>1. "col" \in DOMAIN w /\ "row" \in DOMAIN w
    BY DEF IsTile, Fields
  <1> QED BY <1>1 DEF TileOf

LEMMA BeforeOnPairs ==
  \A a, b, c, d \in Int : Before(<<a, b>>, <<c, d>>) <=> a < c \/ (a = c /\ b < d)
  <1> SUFFICES ASSUME NEW a \in Int, NEW b \in Int, NEW c \in Int, NEW d \in Int
               PROVE  Before(<<a, b>>, <<c, d>>) <=> a < c \/ (a = c /\ b < d)
    OBVIOUS
  <1> DEFINE s == <<a, b>>  t == <<c, d>>
  <1>1. /\ s \in Seq(Int) /\ t \in Seq(Int) /\ Len(s) = 2 /\ Len(t) = 2
        /\ s[1] = a /\ s[2] = b /\ t[1] = c /\ t[2] = d
    OBVIOUS
  <1> HIDE DEF s, t
  <1>2. \A i \in Nat : Splits(s, t, i) => i = 1 \/ i = 2
    BY <1>1 DEF Splits
  <1>3. Splits(s, t, 1) <=> a < c
    BY <1>1 DEF Splits
  <1>4. Splits(s, t, 2) <=> a = c /\ b < d
    BY <1>1 DEF Splits
  <1>5. Before(s, t) <=> a < c \/ (a = c /\ b < d)
    BY <1>1, <1>2, <1>3, <1>4, BeforeSplits
  <1> QED BY <1>5 DEF s, t

\* The tiles of a map are those of its document by row and column, one for
\* every coordinate, in whatever order the document has them: Covers.
LEMMA TilesByIndex ==
  ASSUME NEW w, IsMapDocument(w)
  PROVE  Each(Cell, MapOf(w).tiles) =
            [i \in 1 .. w.cols * w.rows |-> <<(i - 1) % w.cols, (i - 1) \div w.cols>>]
  <1> DEFINE cols == w.cols  rows == w.rows  n == cols * rows
             given == w.tiles
             tile == [i \in DOMAIN given |-> TileOf(given[i])]
             S == ToSet(tile)
             e == [t \in S |-> t.row * cols + t.col]
             at == [i \in 1 .. n |-> given[i].row * cols + given[i].col]
  <1>1. cols \in Nat \ {0} /\ rows \in Nat
    BY DEF IsMapDocument, MaxCols, MaxRows
  <1>2. n \in Nat
    BY <1>1
  <1>3. /\ DOMAIN given = 1 .. n
        /\ \A i \in 1 .. n : IsTile(given[i])
        /\ {Cell(given[i]) : i \in 1 .. n} = Grid(cols, rows)!Tiles
    <2>1. Every(IsTile, given) /\ Covers(given, cols, rows)
      BY DEF IsMapDocument
    <2>2. DOMAIN given = 1 .. n /\ \A i \in DOMAIN given : IsTile(given[i])
      BY <2>1 DEF Every, IsList, Covers
    <2>3. ToSet([i \in DOMAIN given |-> Cell(given[i])]) = Grid(cols, rows)!Tiles
      BY <2>1 DEF Covers, Each
    <2> HIDE DEF given, n
    <2> QED BY <2>2, <2>3 DEF ToSet
  <1>4. Each(TileOf, given) = tile
    BY DEF Each
  <1>5. MapOf(w).tiles = Sorted(LAMBDA t, u : Before(<<t.row, t.col>>, <<u.row, u.col>>), S)
    BY <1>4 DEF MapOf
  <1> HIDE DEF cols, rows, n, given
  <1>6. \A i \in 1 .. n : /\ given[i].col \in 0 .. cols - 1 /\ given[i].row \in 0 .. rows - 1
    <2> SUFFICES ASSUME NEW i \in 1 .. n
                 PROVE  given[i].col \in 0 .. cols - 1 /\ given[i].row \in 0 .. rows - 1
      OBVIOUS
    <2>1. <<given[i].col, given[i].row>> \in Grid(cols, rows)!Tiles
      BY <1>3 DEF Cell
    <2> QED BY <2>1 DEF Grid!Tiles
  <1>7. \A v \in 0 .. n - 1 :
           \E i \in 1 .. n : given[i].col = v % cols /\ given[i].row = v \div cols
    <2> SUFFICES ASSUME NEW v \in 0 .. n - 1
                 PROVE  \E i \in 1 .. n : given[i].col = v % cols /\ given[i].row = v \div cols
      OBVIOUS
    <2>1. v \in Nat /\ v < cols * rows
      BY <1>2 DEF n
    <2>2. v % cols \in 0 .. cols - 1 /\ v \div cols \in 0 .. rows - 1
      <3>1. v % cols \in Nat /\ v % cols < cols /\ v \div cols \in Nat /\ v \div cols < rows
        BY <1>1, <2>1, Indices
      <3> DEFINE m == v % cols  q == v \div cols
      <3>2. m \in Nat /\ m < cols /\ q \in Nat /\ q < rows
        BY <3>1
      <3> HIDE DEF m, q
      <3>3. m \in 0 .. cols - 1 /\ q \in 0 .. rows - 1
        BY <1>1, <3>2
      <3> QED BY <3>3 DEF m, q
    <2>3. <<v % cols, v \div cols>> \in Grid(cols, rows)!Tiles
      BY <2>2 DEF Grid!Tiles
    <2>4. PICK i \in 1 .. n : <<given[i].col, given[i].row>> = <<v % cols, v \div cols>>
      BY <1>3, <2>3 DEF Cell
    <2> QED BY <2>4
  <1>8. \A i \in 1 .. n : at[i] = given[i].row * cols + given[i].col /\ at[i] \in 0 .. n - 1
    <2> SUFFICES ASSUME NEW i \in 1 .. n PROVE at[i] \in 0 .. n - 1
      OBVIOUS
    <2> DEFINE c == given[i].col  r == given[i].row
    <2>1. c \in Nat /\ c < cols /\ r \in Nat /\ r < rows
      BY <1>1, <1>6
    <2> HIDE DEF c, r
    <2>2. r * cols + c \in Nat /\ r * cols + c < n
      BY <1>1, <2>1, Indices DEF n
    <2>3. r * cols + c \in 0 .. n - 1
      BY <1>2, <2>2
    <2> QED BY <2>3 DEF c, r
  <1>9. at \in [1 .. n -> 0 .. n - 1] /\ DOMAIN at = 1 .. n
    BY <1>8
  <1> HIDE DEF at
  <1>10. \A v \in 0 .. n - 1 : \E i \in 1 .. n : at[i] = v
    <2> SUFFICES ASSUME NEW v \in 0 .. n - 1 PROVE \E i \in 1 .. n : at[i] = v
      OBVIOUS
    <2>1. PICK i \in 1 .. n : given[i].col = v % cols /\ given[i].row = v \div cols
      BY <1>7
    <2>2. v \in Nat
      BY <1>2
    <2>3. v = (v \div cols) * cols + (v % cols)
      BY <1>1, <2>2, Indices
    <2> QED BY <1>8, <2>1, <2>3
  <1>11. at \in Surjection(1 .. n, 0 .. n - 1)
    BY <1>9, <1>10 DEF Surjection
  <1>12. IsFiniteSet(1 .. n) /\ Cardinality(1 .. n) = Cardinality(0 .. n - 1)
    <2>1. IsFiniteSet(1 .. n) /\ Cardinality(1 .. n) = IF 1 > n THEN 0 ELSE n - 1 + 1
      BY <1>2, FS_Interval
    <2>2. Cardinality(0 .. n - 1) = IF 0 > n - 1 THEN 0 ELSE n - 1 - 0 + 1
      BY <1>2, FS_Interval
    <2> QED BY <1>2, <2>1, <2>2
  <1>13. \A i, j \in 1 .. n : at[i] = at[j] => i = j
    <2>1. at \in Injection(1 .. n, 0 .. n - 1)
      BY <1>11, <1>12, FS_SurjSameCardinalityImpliesInj
    <2> QED BY <1>9, <2>1 DEF Injection, IsInjective
  <1>14. \A i \in 1 .. n : tile[i].col = given[i].col /\ tile[i].row = given[i].row
    BY <1>3, TileKeepsCell
  <1>15. S = {tile[i] : i \in 1 .. n} /\ \A i \in 1 .. n : tile[i] \in S
    BY <1>3 DEF ToSet
  <1> HIDE DEF tile, S
  <1>16. \A i \in 1 .. n : e[tile[i]] = at[i]
    BY <1>8, <1>14, <1>15
  <1>17. \A t \in S : \E i \in 1 .. n : t = tile[i]
    BY <1>15
  <1>18. e \in [S -> 0 .. n - 1] /\ DOMAIN e = S
    <2>1. ASSUME NEW t \in S
          PROVE  e[t] \in 0 .. n - 1
      <3>1. PICK i \in 1 .. n : t = tile[i]
        BY <1>17
      <3>2. e[t] = at[i]
        BY <1>16, <3>1
      <3>3. at[i] \in 0 .. n - 1
        BY <1>8
      <3> QED BY <3>2, <3>3
    <2> QED BY <2>1
  <1>19. \A t \in S : /\ t.col \in Nat /\ t.col < cols /\ t.row \in Nat
                      /\ e[t] = t.row * cols + t.col
    BY <1>1, <1>6, <1>14, <1>17
  <1> HIDE DEF e
  <1>20. e \in Injection(S, 0 .. n - 1) /\ e \in Surjection(S, 0 .. n - 1)
    <2>1. \A t, u \in S : e[t] = e[u] => t = u
      BY <1>13, <1>16, <1>17
    <2>2. \A v \in 0 .. n - 1 : \E t \in S : e[t] = v
      BY <1>10, <1>15, <1>16
    <2> QED BY <1>18, <2>1, <2>2 DEF Injection, Surjection, IsInjective
  <1>21. IsFiniteSet(S) /\ Cardinality(S) = n
         /\ \A x \in S : Cardinality({y \in S : e[y] < e[x]}) = e[x]
    BY <1>2, <1>20, NumberIsRank
  <1>22. \A x \in S : {y \in S : Before(<<y.row, y.col>>, <<x.row, x.col>>)}
                       = {y \in S : e[y] < e[x]}
    <2>1. ASSUME NEW x \in S, NEW y \in S
          PROVE  Before(<<y.row, y.col>>, <<x.row, x.col>>) <=> e[y] < e[x]
      <3> DEFINE c == y.col  r == y.row  d == x.col  s == x.row
      <3>1. /\ c \in Nat /\ c < cols /\ r \in Nat /\ d \in Nat /\ d < cols /\ s \in Nat
            /\ e[y] = r * cols + c /\ e[x] = s * cols + d
        BY <1>19
      <3> HIDE DEF c, r, d, s
      <3>4. r * cols + c < s * cols + d <=> r < s \/ (r = s /\ c < d)
        <4>1. \A i, k, j, l \in Nat : i < cols /\ j < cols =>
                 (k * cols + i < l * cols + j <=> k < l \/ (k = l /\ i < j))
          BY <1>1, Indices
        <4> QED BY <3>1, <4>1
      <3>2. e[y] < e[x] <=> r < s \/ (r = s /\ c < d)
        BY <3>1, <3>4
      <3>3. Before(<<r, c>>, <<s, d>>) <=> r < s \/ (r = s /\ c < d)
        BY <3>1, BeforeOnPairs
      <3> QED BY <3>2, <3>3 DEF c, r, d, s
    <2> QED BY <2>1
  <1>23. MapOf(w).tiles = [k \in 1 .. n |-> CHOOSE x \in S : e[x] = k - 1]
    <2>1. MapOf(w).tiles =
             [k \in 1 .. Cardinality(S) |->
                CHOOSE x \in S :
                    Cardinality({y \in S : Before(<<y.row, y.col>>, <<x.row, x.col>>)}) = k - 1]
      BY <1>5 DEF Sorted
    <2>2. \A k \in 1 .. n :
             (CHOOSE x \in S :
                    Cardinality({y \in S : Before(<<y.row, y.col>>, <<x.row, x.col>>)}) = k - 1)
             = (CHOOSE x \in S : e[x] = k - 1)
      BY <1>21, <1>22
    <2> QED BY <1>21, <2>1, <2>2
  <1>24. \A k \in 1 .. n : /\ MapOf(w).tiles[k].col = (k - 1) % cols
                           /\ MapOf(w).tiles[k].row = (k - 1) \div cols
    <2> SUFFICES ASSUME NEW k \in 1 .. n
                 PROVE  /\ MapOf(w).tiles[k].col = (k - 1) % cols
                        /\ MapOf(w).tiles[k].row = (k - 1) \div cols
      OBVIOUS
    <2> DEFINE x == MapOf(w).tiles[k]
    <2>1. k - 1 \in 0 .. n - 1
      BY <1>2
    <2>2. \E y \in S : e[y] = k - 1
      BY <1>20, <2>1 DEF Surjection
    <2>3. x = CHOOSE y \in S : e[y] = k - 1
      BY <1>23
    <2> HIDE DEF x
    <2>4. x \in S /\ e[x] = k - 1
      BY <2>2, <2>3
    <2>5. x.col \in Nat /\ x.row \in Nat /\ x.col < cols /\ x.row * cols + x.col = k - 1
      BY <1>19, <2>4
    <2>6. (x.row * cols + x.col) % cols = x.col /\ (x.row * cols + x.col) \div cols = x.row
      BY <1>1, <2>5, Indices
    <2> QED BY <2>5, <2>6 DEF x
  <1>25. DOMAIN MapOf(w).tiles = 1 .. n
    BY <1>23
  <1>26. Each(Cell, MapOf(w).tiles) = [k \in 1 .. n |-> <<(k - 1) % cols, (k - 1) \div cols>>]
    <2>1. Each(Cell, MapOf(w).tiles) =
             [k \in 1 .. n |-> <<MapOf(w).tiles[k].col, MapOf(w).tiles[k].row>>]
      BY <1>25 DEF Each, Cell
    <2> QED BY <1>24, <2>1
  <1> QED BY <1>26 DEF n, cols, rows

-----------------------------------------------------------------------------
(* Sessions.                                                               *)

\* What bootstrap makes of a scenario is a valid state for the map.
LEMMA ScenarioStarts ==
  ASSUME NEW w, IsMapDocument(w), NEW s, IsScenario(s, MapOf(w), StandardRules),
         Bootstraps(ScenarioOf(s, MapOf(w), StandardRules), MapOf(w), StandardRules)
  PROVE  LET g == Bootstrap(ScenarioOf(s, MapOf(w), StandardRules), MapOf(w), StandardRules)
         IN  g \in State /\ ValidState(g) /\ Prepared(MapOf(w), StandardRules, g)
  <1> DEFINE map == MapOf(w)
             g == Bootstrap(ScenarioOf(s, map, StandardRules), map, StandardRules)
  <1>1. map.cols \in Dimensions /\ map.rows \in Dimensions
    <2>1. w.cols \in 1 .. 40 /\ w.rows \in 1 .. 30 /\ map.cols = w.cols /\ map.rows = w.rows
      BY DEF IsMapDocument, MaxCols, MaxRows, MapOf
    <2> QED BY <2>1 DEF ShortNumbers, Dimensions
  <1>2. g.cols = map.cols /\ g.rows = map.rows /\ g.policy = StandardRules.policy
    BY DEF Bootstrap
  <1> HIDE DEF map
  <1>3. g \in State
    BY <1>1, BootstrapTyping DEF map
  <1>4. ValidState(g)
    BY DEF Bootstraps, map
  <1> HIDE DEF g
  <1>5. Prepared(map, StandardRules, g)
    BY <1>2 DEF Prepared
  <1> QED BY <1>3, <1>4, <1>5 DEF g, map

\* Every session, however it was opened, is of a state that the types of the
\* domain and the aggregate's own checks allow, on a map with one tile for
\* every coordinate in row-major order: LocalSession, PreparedWorld::try_new,
\* and every path of open_scenario, open_state and open_save_json to them.
THEOREM ArchiveTypeCorrect == Spec => []TypeOK
  <1>1. Init => TypeOK
    BY DEF Init, TypeOK
  <1>2. TypeOK /\ [Next]_vars => TypeOK'
    <2> SUFFICES ASSUME TypeOK, [Next]_vars PROVE TypeOK'
      OBVIOUS
    <2>1. ASSUME NEW w \in MapDocuments, IsMapDocument(w), NEW g \in State, ValidState(g),
                 NEW actor, IsIdentifier(actor), NEW rng, NEW offset,
                 Prepared(MapOf(w), StandardRules, g),
                 session' = Start(MapOf(w), StandardRules, g, actor, rng, offset)
          PROVE  TypeOK'
      <3>1. /\ session'.state = g /\ session'.actor = actor
            /\ session'.map = MapOf(w) /\ session'.rules = StandardRules
        BY <2>1 DEF Start
      <3>2. MapOf(w).cols = w.cols /\ MapOf(w).rows = w.rows
        BY DEF MapOf
      <3> QED BY <2>1, <3>1, <3>2, TilesByIndex DEF TypeOK
    <2>2. CASE OpenScenario
      <3>1. PICK w \in MapDocuments, s \in ScenarioDocuments, actor \in Actors :
               /\ IsMapDocument(w) /\ IsScenario(s, MapOf(w), StandardRules)
               /\ Bootstraps(ScenarioOf(s, MapOf(w), StandardRules), MapOf(w), StandardRules)
               /\ session' = Start(MapOf(w), StandardRules,
                                   Bootstrap(ScenarioOf(s, MapOf(w), StandardRules), MapOf(w),
                                             StandardRules),
                                   actor, Zero, 0)
        BY <2>2 DEF OpenScenario
      <3> DEFINE g == Bootstrap(ScenarioOf(s, MapOf(w), StandardRules), MapOf(w),
                                StandardRules)
      <3>2. g \in State /\ ValidState(g) /\ Prepared(MapOf(w), StandardRules, g)
        BY <3>1, ScenarioStarts
      <3>3. session' = Start(MapOf(w), StandardRules, g, actor, Zero, 0)
        BY <3>1
      <3> HIDE DEF g
      <3>4. IsIdentifier(actor)
        BY HostAssumption
      <3> QED BY <2>1, <3>1, <3>2, <3>3, <3>4
    <2>3. CASE OpenState
      <3>1. PICK w \in MapDocuments, game \in Games, actor \in Actors :
               /\ IsMapDocument(w) /\ Prepared(MapOf(w), StandardRules, game)
               /\ session' = Start(MapOf(w), StandardRules, game, actor, Zero, 0)
        BY <2>3 DEF OpenState
      <3>2. game \in State /\ ValidState(game) /\ IsIdentifier(actor)
        BY HostAssumption
      <3> QED BY <2>1, <3>1, <3>2
    <2>4. CASE ExportSave \/ ExportReplay \/ Alter \/ VerifyReplay \/ UNCHANGED vars
      <3>1. session' = session
        BY <2>4 DEF ExportSave, ExportReplay, Export, Alter, VerifyReplay, vars
      <3> QED BY <3>1 DEF TypeOK
    <2>5. CASE OpenSave
      <3>1. PICK w \in MapDocuments :
               /\ IsMapDocument(w)
               /\ verdict' = SaveVerdict(file, MapOf(w), StandardRules)
               /\ session' = IF verdict' # "opened" THEN session
                             ELSE Start(MapOf(w), StandardRules, DecodeState(file.state),
                                        file.actorPlayerId, file.rngState, file.eventOffset)
        BY <2>5 DEF OpenSave
      <3>2. CASE verdict' # "opened"
        BY <3>1, <3>2 DEF TypeOK
      <3>3. CASE verdict' = "opened"
        <4>1. Restore(file, file.state, file.stateDigest, MapOf(w), StandardRules) = "opened"
          BY <3>1, <3>3 DEF SaveVerdict
        <4>2. Mismatch(file, MapOf(w), StandardRules) # None =>
                 Mismatch(file, MapOf(w), StandardRules) # "opened"
          BY DEF Mismatch
        <4>3. /\ Decodable(file.state) /\ IsIdentifier(file.actorPlayerId)
              /\ Prepared(MapOf(w), StandardRules, DecodeState(file.state))
          BY <4>1, <4>2 DEF Restore
        <4> DEFINE g == DecodeState(file.state)
        <4>4. g \in State /\ ValidState(g)
          BY <4>3, DecodedState
        <4>5. session' = Start(MapOf(w), StandardRules, g, file.actorPlayerId, file.rngState,
                               file.eventOffset)
          BY <3>1, <3>3
        <4> HIDE DEF g
        <4> QED BY <2>1, <3>1, <4>3, <4>4, <4>5 DEF g
      <3> QED BY <3>2, <3>3
    <2> QED BY <2>2, <2>3, <2>4, <2>5 DEF Next
  <1> QED BY <1>1, <1>2, PTL DEF Spec

-----------------------------------------------------------------------------
(* What a file holds, and what opening it brings back.                     *)

\* The export of a session carries the digest of its state and the hash of
\* its map.
LEMMA ExportedFields ==
  ASSUME NEW s, NEW w \in {SaveOf(s), ReplayOf(s)}
  PROVE  DigestOf(w) = Digest(s.state) /\ w.mapHash = MapHash(s.map)
  <1>1. CASE w = SaveOf(s)
    <2>1. /\ "state" \in DOMAIN w /\ w.stateDigest = Digest(s.state)
          /\ w.mapHash = MapHash(s.map)
      BY <1>1 DEF SaveOf, Header, Merge
    <2> QED BY <2>1 DEF DigestOf
  <1>2. CASE w = ReplayOf(s)
    <2>1. /\ "state" \notin DOMAIN w /\ w.initialStateDigest = Digest(s.state)
          /\ w.mapHash = MapHash(s.map)
      BY <1>2 DEF ReplayOf, Header, Merge
    <2> QED BY <2>1 DEF DigestOf
  <1> QED BY <1>1, <1>2

\* A file that could be restored has the identity of the content, a state that
\* decodes, and that state's digest.
LEMMA Restored ==
  ASSUME NEW w, NEW document, NEW digest, NEW map, NEW rules,
         Restore(w, document, digest, map, rules) = "opened"
  PROVE  /\ w.mapHash = MapHash(map)
         /\ Decodable(document) /\ Digest(DecodeState(document)) = digest
         /\ IsIdentifier(w.actorPlayerId)
         /\ Prepared(map, rules, DecodeState(document))
  <1>1. Mismatch(w, map, rules) # "opened"
    BY VerdictAssumption DEF Mismatch, Verdicts
  <1>2. Mismatch(w, map, rules) = None
    BY <1>1 DEF Restore
  <1>3. w.mapHash = MapHash(map)
    BY <1>2, VerdictAssumption DEF Mismatch, Verdicts
  <1>4. /\ Decodable(document) /\ Digest(DecodeState(document)) = digest
        /\ IsIdentifier(w.actorPlayerId)
        /\ Prepared(map, rules, DecodeState(document))
    BY <1>2 DEF Restore
  <1> QED BY <1>3, <1>4

\* The session that was saved has a valid state, and its file was written of
\* that state and of its map.
SavedFaithfully ==
    file # None =>
        /\ saved.session.state \in State /\ ValidState(saved.session.state)
        /\ DigestOf(saved.file) = Digest(saved.session.state)
        /\ saved.file.mapHash = MapHash(saved.session.map)

\* What has opened decodes, to a state of the file's digest; a save opens on
\* the map of the file's hash.
OpenedByDigest ==
    verdict = "opened" =>
        /\ file # None /\ Decodable(Document(file))
        /\ Digest(DecodeState(Document(file))) = DigestOf(file)
        /\ "state" \in DOMAIN file => file.mapHash = MapHash(session.map)

ArchiveInvariant == TypeOK /\ SavedFaithfully /\ OpenedByDigest

\* The digest that an export carries stays the digest of the exported state,
\* through every change to the file and every attempt to open it.
THEOREM ArchiveIsFaithful == Spec => []ArchiveInvariant
  <1>1. Init => SavedFaithfully /\ OpenedByDigest
    BY VerdictAssumption DEF Init, SavedFaithfully, OpenedByDigest, Verdicts
  <1>2. TypeOK /\ SavedFaithfully /\ OpenedByDigest /\ [Next]_vars
          => SavedFaithfully' /\ OpenedByDigest'
    <2> SUFFICES ASSUME TypeOK, SavedFaithfully, OpenedByDigest, [Next]_vars
                 PROVE  SavedFaithfully' /\ OpenedByDigest'
      OBVIOUS
    <2>0. None # "opened"
      BY VerdictAssumption DEF Verdicts
    <2>1. CASE OpenScenario
      BY <2>0, <2>1 DEF OpenScenario, SavedFaithfully, OpenedByDigest
    <2>2. CASE OpenState
      BY <2>0, <2>2 DEF OpenState, SavedFaithfully, OpenedByDigest
    <2>3. ASSUME NEW w \in {SaveOf(session), ReplayOf(session)}, Export(w)
          PROVE  SavedFaithfully' /\ OpenedByDigest'
      <3>1. saved'.session = session /\ saved'.file = w /\ session # None /\ verdict' = None
        BY <2>3 DEF Export
      <3>2. DigestOf(w) = Digest(session.state) /\ w.mapHash = MapHash(session.map)
        BY ExportedFields
      <3>3. DigestOf(saved'.file) = Digest(session.state)
        BY <3>1, <3>2
      <3>4. session.state \in State /\ ValidState(session.state)
        BY <3>1 DEF TypeOK
      <3> QED BY <2>0, <3>1, <3>2, <3>3, <3>4 DEF SavedFaithfully, OpenedByDigest
    <2>4. CASE Alter
      BY <2>0, <2>4 DEF Alter, SavedFaithfully, OpenedByDigest
    <2>5. CASE OpenSave
      <3>1. PICK w \in MapDocuments :
               /\ file # None /\ verdict = None
               /\ verdict' = SaveVerdict(file, MapOf(w), StandardRules)
               /\ session' = IF verdict' # "opened" THEN session
                             ELSE Start(MapOf(w), StandardRules, DecodeState(file.state),
                                        file.actorPlayerId, file.rngState, file.eventOffset)
               /\ file' = file /\ saved' = saved
        BY <2>5 DEF OpenSave
      <3>2. SavedFaithfully'
        BY <3>1 DEF SavedFaithfully
      <3>3. ASSUME verdict' = "opened"
            PROVE  /\ file # None /\ Decodable(Document(file))
                   /\ Digest(DecodeState(Document(file))) = DigestOf(file)
                   /\ file.mapHash = MapHash(session'.map)
        <4>1. IsSave(file)
          BY <3>1, <3>3 DEF SaveVerdict
        <4>2. Restore(file, file.state, file.stateDigest, MapOf(w), StandardRules) = "opened"
          BY <3>1, <3>3, <4>1 DEF SaveVerdict
        <4>3. "state" \in DOMAIN file
          BY <4>1 DEF IsSave, Fields
        <4>4. Document(file) = file.state /\ DigestOf(file) = file.stateDigest
          BY <4>3 DEF Document, DigestOf
        <4>5. session'.map = MapOf(w)
          BY <3>1, <3>3 DEF Start
        <4> QED BY <3>1, <4>2, <4>4, <4>5, Restored
      <3>4. OpenedByDigest'
        BY <3>1, <3>3 DEF OpenedByDigest
      <3> QED BY <3>2, <3>4
    <2>6. CASE VerifyReplay
      <3>1. PICK w \in MapDocuments :
               /\ file # None
               /\ verdict' = ReplayVerdict(file, MapOf(w), StandardRules)
               /\ file' = file /\ saved' = saved
        BY <2>6 DEF VerifyReplay
      <3>2. SavedFaithfully'
        BY <3>1 DEF SavedFaithfully
      <3>3. ASSUME verdict' = "opened"
            PROVE  /\ Decodable(Document(file)) /\ "state" \notin DOMAIN file
                   /\ Digest(DecodeState(Document(file))) = DigestOf(file)
        <4>1. IsReplay(file)
          BY <3>1, <3>3 DEF ReplayVerdict
        <4>2. Restore(file, file.initialState, file.initialStateDigest, MapOf(w),
                      StandardRules) = "opened"
          BY <3>1, <3>3, <4>1 DEF ReplayVerdict
        <4>3. "state" \notin DOMAIN file
          BY <4>1 DEF IsReplay, Fields, HeaderFields
        <4>4. Document(file) = file.initialState /\ DigestOf(file) = file.initialStateDigest
          BY <4>3 DEF Document, DigestOf
        <4> QED BY <4>2, <4>3, <4>4, Restored
      <3>4. OpenedByDigest'
        BY <3>1, <3>3 DEF OpenedByDigest
      <3> QED BY <3>2, <3>4
    <2>7. CASE UNCHANGED vars
      BY <2>7 DEF vars, SavedFaithfully, OpenedByDigest, Document, DigestOf
    <2>8. CASE ExportSave \/ ExportReplay
      BY <2>3, <2>8 DEF ExportSave, ExportReplay
    <2> QED BY <2>1, <2>2, <2>4, <2>5, <2>6, <2>7, <2>8 DEF Next
  <1> QED BY <1>1, <1>2, ArchiveTypeCorrect, PTL DEF Spec, ArchiveInvariant

\* What decodes, decodes to the saved game exactly when it has its digest.
LEMMA DecodedGames ==
  ASSUME ArchiveInvariant, file # None, Decodable(Document(file))
  PROVE  Digest(DecodeState(Document(file))) = DigestOf(saved.file)
            <=> SameGame(DecodeState(Document(file)), saved.session.state)
  <1> DEFINE g == DecodeState(Document(file))
             h == saved.session.state
  <1>1. g \in State /\ ValidState(g)
    BY DecodedState
  <1>2. h \in State /\ ValidState(h) /\ DigestOf(saved.file) = Digest(h)
    BY DEF ArchiveInvariant, SavedFaithfully
  <1> HIDE DEF g, h
  <1>3. Digest(g) = Digest(h) <=> SameGame(g, h)
    BY <1>1, <1>2, DigestNamesGames
  <1> QED BY <1>2, <1>3 DEF g, h

\* GameStateDigest and the check of it when a file is opened: of all files
\* that still decode, those with the exported digest are those of the same
\* game.
THEOREM DigestsNameStates == Spec => []DigestNamesState
  <1>1. ArchiveInvariant => DigestNamesState
    BY DecodedGames DEF DigestNamesState
  <1> QED BY <1>1, ArchiveIsFaithful, PTL

\* LocalRuntime::open_save_json and verify_replay_json: a file that opens under
\* the digest and the map hash of its export brings back the saved game, and a
\* save brings it back on the saved map.
THEOREM FilesOpenWhatWasSaved == Spec => []OpensWhatWasSaved
  <1>1. ArchiveInvariant => OpensWhatWasSaved
    <2> SUFFICES ASSUME ArchiveInvariant, verdict = "opened",
                        DigestOf(file) = DigestOf(saved.file), file.mapHash = saved.file.mapHash
                 PROVE  /\ SameGame(DecodeState(Document(file)), saved.session.state)
                        /\ "state" \in DOMAIN file => session.map = saved.session.map
      BY DEF OpensWhatWasSaved
    <2>1. /\ file # None /\ Decodable(Document(file))
          /\ Digest(DecodeState(Document(file))) = DigestOf(file)
          /\ "state" \in DOMAIN file => file.mapHash = MapHash(session.map)
      BY DEF ArchiveInvariant, OpenedByDigest
    <2>2. SameGame(DecodeState(Document(file)), saved.session.state)
      BY <2>1, DecodedGames
    <2>3. saved.file.mapHash = MapHash(saved.session.map)
      BY <2>1 DEF ArchiveInvariant, SavedFaithfully
    <2>4. \A m, n : MapHash(m) = MapHash(n) => m = n
      BY DEF MapHash
    <2> QED BY <2>1, <2>2, <2>3, <2>4
  <1> QED BY <1>1, ArchiveIsFaithful, PTL

-----------------------------------------------------------------------------
(* The numbers of enumeration values and their names.                      *)

\* The name of the number of a name is that name.
LEMMA ValueNaming ==
  ASSUME NEW kinds, NEW n \in Nat, DOMAIN kinds = 1 .. n,
         \A i, j \in 1 .. n : kinds[i] = kinds[j] => i = j,
         NEW v \in 0 .. n - 1
  PROVE  Named(kinds, v) \in Names(kinds) /\ Valued(kinds, Named(kinds, v)) = v
  <1>1. v + 1 \in 1 .. n /\ v + 1 - 1 = v
    OBVIOUS
  <1>2. Named(kinds, v) = kinds[v + 1]
    BY DEF Named
  <1>3. (CHOOSE i \in DOMAIN kinds : kinds[i] = kinds[v + 1]) = v + 1
    BY <1>1
  <1> QED BY <1>1, <1>2, <1>3 DEF Names, ToSet, Valued

\* No enumeration has a name twice.
LEMMA NamesAreDistinct ==
  /\ \A i, j \in 1 .. 17 : UnitKinds[i] = UnitKinds[j] => i = j
  /\ \A i, j \in 1 .. 4 : Postures[i] = Postures[j] => i = j
  /\ \A i, j \in 1 .. 3 : TroopKinds[i] = TroopKinds[j] => i = j
  /\ \A i, j \in 1 .. 19 : Improvements[i] = Improvements[j] => i = j
  /\ \A i, j \in 1 .. 8 : ArtifactTypes[i] = ArtifactTypes[j] => i = j
  /\ \A i, j \in 1 .. 2 : Conditions[i] = Conditions[j] => i = j
  /\ \A i, j \in 1 .. 2 : Policies[i] = Policies[j] => i = j
  <1>1. \A i, j \in 1 .. 17 : UnitKinds[i] = UnitKinds[j] => i = j
    BY DEF UnitKinds
  <1>2. \A i, j \in 1 .. 4 : Postures[i] = Postures[j] => i = j
    BY DEF Postures
  <1>3. \A i, j \in 1 .. 3 : TroopKinds[i] = TroopKinds[j] => i = j
    BY DEF TroopKinds
  <1>4. \A i, j \in 1 .. 19 : Improvements[i] = Improvements[j] => i = j
    BY DEF Improvements
  <1>5. \A i, j \in 1 .. 8 : ArtifactTypes[i] = ArtifactTypes[j] => i = j
    BY DEF ArtifactTypes
  <1>6. \A i, j \in 1 .. 2 : Conditions[i] = Conditions[j] => i = j
    BY DEF Conditions
  <1>7. \A i, j \in 1 .. 2 : Policies[i] = Policies[j] => i = j
    BY DEF Policies
  <1> QED BY <1>1, <1>2, <1>3, <1>4, <1>5, <1>6, <1>7

\* Named undoes Valued, for each of the enumerations.
LEMMA EnumerationNaming ==
  /\ \A v \in 0 .. 16 : /\ Named(UnitKinds, v) \in Names(UnitKinds)
                        /\ Valued(UnitKinds, Named(UnitKinds, v)) = v
  /\ \A v \in 0 .. 3 : /\ Named(Postures, v) \in Names(Postures)
                       /\ Valued(Postures, Named(Postures, v)) = v
  /\ \A v \in 0 .. 2 : /\ Named(TroopKinds, v) \in Names(TroopKinds)
                       /\ Valued(TroopKinds, Named(TroopKinds, v)) = v
  /\ \A v \in 0 .. 18 : /\ Named(Improvements, v) \in Names(Improvements)
                        /\ Valued(Improvements, Named(Improvements, v)) = v
  /\ \A v \in 0 .. 7 : /\ Named(ArtifactTypes, v) \in Names(ArtifactTypes)
                       /\ Valued(ArtifactTypes, Named(ArtifactTypes, v)) = v
  /\ \A v \in 0 .. 1 : /\ Named(Conditions, v) \in Names(Conditions)
                       /\ Valued(Conditions, Named(Conditions, v)) = v
  /\ \A v \in 0 .. 1 : /\ Named(Policies, v) \in Names(Policies)
                       /\ Valued(Policies, Named(Policies, v)) = v
  <1> DEFINE kinds == UnitKinds  postures == Postures  troops == TroopKinds
             fields == Improvements  types == ArtifactTypes  conditions == Conditions
             policies == Policies
  <1>1. /\ DOMAIN kinds = 1 .. 17 /\ DOMAIN postures = 1 .. 4 /\ DOMAIN troops = 1 .. 3
        /\ DOMAIN fields = 1 .. 19 /\ DOMAIN types = 1 .. 8
        /\ DOMAIN conditions = 1 .. 2 /\ DOMAIN policies = 1 .. 2
    BY EnumerationsAreCounted
  <1>2. /\ \A i, j \in 1 .. 17 : kinds[i] = kinds[j] => i = j
        /\ \A i, j \in 1 .. 4 : postures[i] = postures[j] => i = j
        /\ \A i, j \in 1 .. 3 : troops[i] = troops[j] => i = j
        /\ \A i, j \in 1 .. 19 : fields[i] = fields[j] => i = j
        /\ \A i, j \in 1 .. 8 : types[i] = types[j] => i = j
        /\ \A i, j \in 1 .. 2 : conditions[i] = conditions[j] => i = j
        /\ \A i, j \in 1 .. 2 : policies[i] = policies[j] => i = j
    BY NamesAreDistinct
  <1> HIDE DEF kinds, postures, troops, fields, types, conditions, policies
  <1>3. 17 \in Nat /\ 4 \in Nat /\ 3 \in Nat /\ 19 \in Nat /\ 8 \in Nat /\ 2 \in Nat
    OBVIOUS
  <1>4. 17 - 1 = 16 /\ 4 - 1 = 3 /\ 3 - 1 = 2 /\ 19 - 1 = 18 /\ 8 - 1 = 7 /\ 2 - 1 = 1
    OBVIOUS
  <1>5. \A v \in 0 .. 17 - 1 : Named(kinds, v) \in Names(kinds)
                               /\ Valued(kinds, Named(kinds, v)) = v
    BY <1>1, <1>2, <1>3, ValueNaming
  <1>6. \A v \in 0 .. 4 - 1 : Named(postures, v) \in Names(postures)
                              /\ Valued(postures, Named(postures, v)) = v
    BY <1>1, <1>2, <1>3, ValueNaming
  <1>7. \A v \in 0 .. 3 - 1 : Named(troops, v) \in Names(troops)
                              /\ Valued(troops, Named(troops, v)) = v
    BY <1>1, <1>2, <1>3, ValueNaming
  <1>8. \A v \in 0 .. 19 - 1 : Named(fields, v) \in Names(fields)
                               /\ Valued(fields, Named(fields, v)) = v
    BY <1>1, <1>2, <1>3, ValueNaming
  <1>9. \A v \in 0 .. 8 - 1 : Named(types, v) \in Names(types)
                              /\ Valued(types, Named(types, v)) = v
    BY <1>1, <1>2, <1>3, ValueNaming
  <1>10. \A v \in 0 .. 2 - 1 : Named(conditions, v) \in Names(conditions)
                               /\ Valued(conditions, Named(conditions, v)) = v
    BY <1>1, <1>2, <1>3, ValueNaming
  <1>11. \A v \in 0 .. 2 - 1 : Named(policies, v) \in Names(policies)
                               /\ Valued(policies, Named(policies, v)) = v
    BY <1>1, <1>2, <1>3, ValueNaming
  <1> QED BY <1>4, <1>5, <1>6, <1>7, <1>8, <1>9, <1>10, <1>11
          DEF kinds, postures, troops, fields, types, conditions, policies

\* A list that is encoded element by element, and decoded again.
LEMMA ListEncoding ==
  ASSUME NEW S, NEW s \in ListsOf(S), NEW e, e = [i \in DOMAIN s |-> e[i]],
         NEW d, d = [i \in DOMAIN e |-> d[i]], \A i \in DOMAIN s : d[i] = s[i]
  PROVE  d = s /\ IsList(e) /\ DOMAIN e = DOMAIN s
  <1>1. s \in Seq(S) /\ Len(s) \in Lengths /\ Len(s) \in Nat /\ DOMAIN s = 1 .. Len(s)
    BY DEF ListsOf, Lengths
  <1>2. s = [i \in DOMAIN s |-> s[i]]
    BY <1>1
  <1>3. DOMAIN e = DOMAIN s
    OBVIOUS
  <1>4. d = s
    BY <1>2, <1>3
  <1>5. e \in Seq({e[i] : i \in DOMAIN s})
    BY <1>1
  <1>6. Len(e) = Len(s)
    BY <1>1, <1>3, <1>5
  <1> QED BY <1>1, <1>3, <1>4, <1>6 DEF IsList

-----------------------------------------------------------------------------
(* The parts of a state.                                                    *)

\* Each part of a state: its document has the shape that is asked of it, names
\* nothing but identifiers, and decodes to the part.
LEMMA CoordinateEncoding ==
  \A c \in HexCoord : /\ DecodeCoordinate(EncodeCoordinate(c)) = c
                      /\ IsCoordinate(EncodeCoordinate(c))
                      /\ c[1] \in SignedNumbers /\ c[2] \in SignedNumbers /\ c = <<c[1], c[2]>>
  BY DEF HexCoord, DecodeCoordinate, EncodeCoordinate, IsCoordinate, Fields

LEMMA CoordinatesEncoding ==
  ASSUME NEW s \in ListsOf(HexCoord)
  PROVE  /\ Each(DecodeCoordinate, Each(EncodeCoordinate, s)) = s
         /\ Every(IsCoordinate, Each(EncodeCoordinate, s))
  <1> DEFINE e == [i \in DOMAIN s |-> EncodeCoordinate(s[i])]
             d == [i \in DOMAIN e |-> DecodeCoordinate(e[i])]
  <1>1. \A i \in DOMAIN s : s[i] \in HexCoord
    BY DEF ListsOf
  <1>2. \A i \in DOMAIN s : d[i] = s[i] /\ IsCoordinate(e[i])
    BY <1>1, CoordinateEncoding
  <1>3. e = [i \in DOMAIN s |-> e[i]] /\ d = [i \in DOMAIN e |-> d[i]]
    OBVIOUS
  <1>4. Each(EncodeCoordinate, s) = e /\ Each(DecodeCoordinate, e) = d
    BY DEF Each
  <1> HIDE DEF e, d
  <1>5. d = s /\ IsList(e) /\ DOMAIN e = DOMAIN s
    BY <1>2, <1>3, ListEncoding
  <1> QED BY <1>2, <1>4, <1>5 DEF Every

LEMMA StepEncoding ==
  \A x \in MovementStep : DecodeStep(EncodeStep(x)) = x /\ IsStep(EncodeStep(x))
  <1> SUFFICES ASSUME NEW x \in MovementStep
               PROVE  DecodeStep(EncodeStep(x)) = x /\ IsStep(EncodeStep(x))
    OBVIOUS
  <1>1. /\ x.tile \in HexCoord /\ x.enter \in Numbers /\ x.total \in Numbers
        /\ x = [tile |-> x.tile, enter |-> x.enter, total |-> x.total]
    BY DEF MovementStep
  <1>2. /\ x.tile = <<x.tile[1], x.tile[2]>> /\ x.tile[1] \in SignedNumbers
        /\ x.tile[2] \in SignedNumbers
    BY <1>1, CoordinateEncoding
  <1> QED BY <1>1, <1>2 DEF DecodeStep, EncodeStep, DecodeCoordinate, IsStep, Fields, Unsigned

LEMMA StepsEncoding ==
  ASSUME NEW s \in ListsOf(MovementStep)
  PROVE  /\ Each(DecodeStep, Each(EncodeStep, s)) = s
         /\ Every(IsStep, Each(EncodeStep, s))
  <1> DEFINE e == [i \in DOMAIN s |-> EncodeStep(s[i])]
             d == [i \in DOMAIN e |-> DecodeStep(e[i])]
  <1>1. \A i \in DOMAIN s : s[i] \in MovementStep
    BY DEF ListsOf
  <1>2. \A i \in DOMAIN s : d[i] = s[i] /\ IsStep(e[i])
    BY <1>1, StepEncoding
  <1>3. e = [i \in DOMAIN s |-> e[i]] /\ d = [i \in DOMAIN e |-> d[i]]
    OBVIOUS
  <1>4. Each(EncodeStep, s) = e /\ Each(DecodeStep, e) = d
    BY DEF Each
  <1> HIDE DEF e, d
  <1>5. d = s /\ IsList(e) /\ DOMAIN e = DOMAIN s
    BY <1>2, <1>3, ListEncoding
  <1> QED BY <1>2, <1>4, <1>5 DEF Every

\* Paths, trade routes and armies.
LEMMA PathEncoding ==
  \A x \in QueuedMovePath : DecodePath(EncodePath(x)) = x /\ IsPath(EncodePath(x))
  <1> SUFFICES ASSUME NEW x \in QueuedMovePath
               PROVE  DecodePath(EncodePath(x)) = x /\ IsPath(EncodePath(x))
    OBVIOUS
  <1>1. /\ x.target \in HexCoord /\ x.steps \in ListsOf(MovementStep)
        /\ x = [target |-> x.target, steps |-> x.steps]
    BY DEF QueuedMovePath
  <1>2. /\ x.target = <<x.target[1], x.target[2]>> /\ x.target[1] \in SignedNumbers
        /\ x.target[2] \in SignedNumbers
    BY <1>1, CoordinateEncoding
  <1>3. /\ Each(DecodeStep, Each(EncodeStep, x.steps)) = x.steps
        /\ Every(IsStep, Each(EncodeStep, x.steps))
    BY <1>1, StepsEncoding
  <1> QED BY <1>1, <1>2, <1>3 DEF DecodePath, EncodePath, IsPath, Fields

LEMMA MerchantEncoding ==
  \A x \in MerchantTradeRoute :
      DecodeMerchant(EncodeMerchant(x)) = x /\ IsMerchant(EncodeMerchant(x))
  <1> SUFFICES ASSUME NEW x \in MerchantTradeRoute
               PROVE  DecodeMerchant(EncodeMerchant(x)) = x /\ IsMerchant(EncodeMerchant(x))
    OBVIOUS
  <1>1. /\ x.origin \in Texts /\ x.destination \in Texts /\ x.fingerprint \in Texts
        /\ x.steps \in ListsOf(MovementStep)
        /\ x = [origin |-> x.origin, destination |-> x.destination, steps |-> x.steps,
                fingerprint |-> x.fingerprint]
    BY DEF MerchantTradeRoute, Ids
  <1>2. /\ Each(DecodeStep, Each(EncodeStep, x.steps)) = x.steps
        /\ Every(IsStep, Each(EncodeStep, x.steps))
    BY <1>1, StepsEncoding
  <1> QED BY <1>1, <1>2 DEF DecodeMerchant, EncodeMerchant, IsMerchant, Fields, IsText

LEMMA TroopEncoding ==
  \A x \in ArmyTroop : DecodeTroop(EncodeTroop(x)) = x /\ IsTroop(EncodeTroop(x))
  <1> SUFFICES ASSUME NEW x \in ArmyTroop
               PROVE  DecodeTroop(EncodeTroop(x)) = x /\ IsTroop(EncodeTroop(x))
    OBVIOUS
  <1>1. /\ x.kind \in 0 .. 2 /\ x.count \in Numbers
        /\ x = [kind |-> x.kind, count |-> x.count]
    BY DEF ArmyTroop
  <1>2. /\ Named(TroopKinds, x.kind) \in Names(TroopKinds)
        /\ Valued(TroopKinds, Named(TroopKinds, x.kind)) = x.kind
    BY <1>1, EnumerationNaming
  <1> QED BY <1>1, <1>2 DEF DecodeTroop, EncodeTroop, IsTroop, Fields, Unsigned

LEMMA ArmyEncoding ==
  ASSUME NEW s \in ListsOf(ArmyTroop)
  PROVE  /\ Each(DecodeTroop, Each(EncodeTroop, s)) = s
         /\ Every(IsTroop, Each(EncodeTroop, s))
  <1> DEFINE e == [i \in DOMAIN s |-> EncodeTroop(s[i])]
             d == [i \in DOMAIN e |-> DecodeTroop(e[i])]
  <1>1. \A i \in DOMAIN s : s[i] \in ArmyTroop
    BY DEF ListsOf
  <1>2. \A i \in DOMAIN s : d[i] = s[i] /\ IsTroop(e[i])
    BY <1>1, TroopEncoding
  <1>3. e = [i \in DOMAIN s |-> e[i]] /\ d = [i \in DOMAIN e |-> d[i]]
    OBVIOUS
  <1>4. Each(EncodeTroop, s) = e /\ Each(DecodeTroop, e) = d
    BY DEF Each
  <1> HIDE DEF e, d
  <1>5. d = s /\ IsList(e) /\ DOMAIN e = DOMAIN s
    BY <1>2, <1>3, ListEncoding
  <1> QED BY <1>2, <1>4, <1>5 DEF Every

\* The fields of a record that is merged of two.
LEMMA Merged ==
  /\ \A r, q : DOMAIN Merge(r, q) = DOMAIN r \cup DOMAIN q
  /\ \A r, q : \A f \in DOMAIN r : Merge(r, q)[f] = r[f]
  /\ \A r, q : \A f \in DOMAIN q \ DOMAIN r : Merge(r, q)[f] = q[f]
  BY DEF Merge

\* What a unit is doing: serde writes an absent job as null.
LEMMA JobEncoding ==
  \A x \in WorkerJob : DecodeJob(EncodeJob(x)) = x /\ IsJob(EncodeJob(x))
  <1> SUFFICES ASSUME NEW x \in WorkerJob
               PROVE  DecodeJob(EncodeJob(x)) = x /\ IsJob(EncodeJob(x))
    OBVIOUS
  <1> DEFINE w == EncodeJob(x)
             name == Named(Improvements, x.improvement)
             r == [target |-> EncodeCoordinate(x.target), remainingTurns |-> x.remaining,
                   totalTurns |-> x.total]
  <1>1. /\ x.target \in HexCoord /\ x.improvement \in Optional(0 .. 18)
        /\ x.remaining \in Numbers /\ x.total \in Numbers
        /\ x = [target |-> x.target, improvement |-> x.improvement,
                remaining |-> x.remaining, total |-> x.total]
    BY DEF WorkerJob
  <1>2. /\ DOMAIN r = {"target", "remainingTurns", "totalTurns"}
        /\ r.target = EncodeCoordinate(x.target) /\ r.remainingTurns = x.remaining
        /\ r.totalTurns = x.total
    OBVIOUS
  <1>3. /\ w.target = EncodeCoordinate(x.target)
        /\ w.remainingTurns = x.remaining /\ w.totalTurns = x.total
    BY <1>2, Merged DEF EncodeJob
  <1>4. IsCoordinate(w.target) /\ DecodeCoordinate(w.target) = x.target /\ IsTimed(w)
    BY <1>1, <1>3, CoordinateEncoding DEF IsTimed, Unsigned
  <1>5. CASE x.improvement = None
    <2> DEFINE q == [kind |-> "roadConstruction"]
    <2>1. DOMAIN q = {"kind"} /\ q.kind = "roadConstruction"
      OBVIOUS
    <2>2. w = Merge(r, q)
      BY <1>5 DEF EncodeJob
    <2> HIDE DEF w, r, q
    <2>3. DOMAIN w = {"kind", "target", "remainingTurns", "totalTurns"}
          /\ w.kind = "roadConstruction"
      <3>1. DOMAIN w = DOMAIN r \cup DOMAIN q
        BY <2>2, Merged
      <3>2. "kind" \in DOMAIN q \ DOMAIN r
        BY <1>2, <2>1
      <3>3. w["kind"] = q["kind"]
        BY <2>2, <3>2, Merged
      <3> QED BY <1>2, <2>1, <3>1, <3>3
    <2>4. IsJob(w)
      BY <1>4, <2>3 DEF IsJob, Fields
    <2>5. Get(w, "improvement") = None
      BY <2>3 DEF Get
    <2>6. DecodeJob(w) = x
      BY <1>1, <1>3, <1>4, <1>5, <2>5 DEF DecodeJob, Optionally
    <2> QED BY <2>4, <2>6 DEF w
  <1>6. CASE x.improvement # None
    <2> DEFINE q == [kind |-> "fieldImprovement", improvement |-> name]
    <2>1. /\ DOMAIN q = {"kind", "improvement"} /\ q.kind = "fieldImprovement"
          /\ q.improvement = name
      OBVIOUS
    <2>2. w = Merge(r, q)
      BY <1>6 DEF EncodeJob
    <2>3. x.improvement \in 0 .. 18
      BY <1>1, <1>6 DEF Optional
    <2>4. name \in Names(Improvements) /\ Valued(Improvements, name) = x.improvement
          /\ name # None
      BY <2>3, EnumerationNaming, NamesAssumption
    <2> HIDE DEF w, r, q, name
    <2>5. DOMAIN w = {"kind", "improvement", "target", "remainingTurns", "totalTurns"}
          /\ w.kind = "fieldImprovement" /\ w.improvement = name
      <3>1. DOMAIN w = DOMAIN r \cup DOMAIN q
        BY <2>2, Merged
      <3>2. {"kind", "improvement"} \subseteq DOMAIN q \ DOMAIN r
        BY <1>2, <2>1
      <3>3. w["kind"] = q["kind"] /\ w["improvement"] = q["improvement"]
        BY <2>2, <3>2, Merged
      <3> QED BY <1>2, <2>1, <3>1, <3>3
    <2>6. IsJob(w)
      BY <1>4, <2>4, <2>5 DEF IsJob, Fields
    <2>7. Get(w, "improvement") = name
      BY <2>5 DEF Get
    <2>8. DecodeJob(w) = x
      BY <1>1, <1>3, <1>4, <2>4, <2>7 DEF DecodeJob, Optionally
    <2> QED BY <2>6, <2>8 DEF w
  <1> QED BY <1>5, <1>6

LEMMA FoundingEncoding ==
  \A x \in CityFoundingJob :
      DecodeFounding(EncodeFounding(x)) = x /\ IsFounding(EncodeFounding(x))
  <1> SUFFICES ASSUME NEW x \in CityFoundingJob
               PROVE  DecodeFounding(EncodeFounding(x)) = x /\ IsFounding(EncodeFounding(x))
    OBVIOUS
  <1>1. /\ x.center \in HexCoord /\ x.hexes \in ListsOf(HexCoord)
        /\ x.remaining \in Numbers /\ x.total \in Numbers
        /\ x = [center |-> x.center, hexes |-> x.hexes, remaining |-> x.remaining,
                total |-> x.total]
    BY DEF CityFoundingJob
  <1>2. /\ Each(DecodeCoordinate, Each(EncodeCoordinate, x.hexes)) = x.hexes
        /\ Every(IsCoordinate, Each(EncodeCoordinate, x.hexes))
    BY <1>1, CoordinatesEncoding
  <1>3. /\ DecodeCoordinate(EncodeCoordinate(x.center)) = x.center
        /\ IsCoordinate(EncodeCoordinate(x.center))
    BY <1>1, CoordinateEncoding
  <1> QED BY <1>1, <1>2, <1>3
          DEF DecodeFounding, EncodeFounding, IsFounding, Fields, IsTimed, Unsigned

\* JSON null is the document of no object.
NullIsNoDocument ==
    ~ \/ IsCoordinate(None) \/ IsPath(None) \/ IsMerchant(None) \/ IsJob(None)
      \/ IsFounding(None) \/ IsDraft(None) \/ IsPending(None)

\* An optional value is written as null or as its document.
LEMMA OptionalEncoding ==
  ASSUME NullIsNoDocument
  PROVE  /\ \A x \in Optional(HexCoord) :
               LET w == Optionally(EncodeCoordinate, x)
               IN  Optionally(DecodeCoordinate, w) = x /\ (w = None \/ IsCoordinate(w))
         /\ \A x \in Optional(QueuedMovePath) :
               LET w == Optionally(EncodePath, x)
               IN  Optionally(DecodePath, w) = x /\ (w = None \/ IsPath(w))
         /\ \A x \in Optional(MerchantTradeRoute) :
               LET w == Optionally(EncodeMerchant, x)
               IN  Optionally(DecodeMerchant, w) = x /\ (w = None \/ IsMerchant(w))
         /\ \A x \in Optional(WorkerJob) :
               LET w == Optionally(EncodeJob, x)
               IN  Optionally(DecodeJob, w) = x /\ (w = None \/ IsJob(w))
         /\ \A x \in Optional(CityFoundingJob) :
               LET w == Optionally(EncodeFounding, x)
               IN  Optionally(DecodeFounding, w) = x /\ (w = None \/ IsFounding(w))
  <1>1. \A x \in Optional(HexCoord) :
            LET w == Optionally(EncodeCoordinate, x)
            IN  Optionally(DecodeCoordinate, w) = x /\ (w = None \/ IsCoordinate(w))
    BY CoordinateEncoding DEF Optional, Optionally, NullIsNoDocument
  <1>2. \A x \in Optional(QueuedMovePath) :
            LET w == Optionally(EncodePath, x)
            IN  Optionally(DecodePath, w) = x /\ (w = None \/ IsPath(w))
    BY PathEncoding DEF Optional, Optionally, NullIsNoDocument
  <1>3. \A x \in Optional(MerchantTradeRoute) :
            LET w == Optionally(EncodeMerchant, x)
            IN  Optionally(DecodeMerchant, w) = x /\ (w = None \/ IsMerchant(w))
    BY MerchantEncoding DEF Optional, Optionally, NullIsNoDocument
  <1>4. \A x \in Optional(WorkerJob) :
            LET w == Optionally(EncodeJob, x)
            IN  Optionally(DecodeJob, w) = x /\ (w = None \/ IsJob(w))
    BY JobEncoding DEF Optional, Optionally, NullIsNoDocument
  <1>5. \A x \in Optional(CityFoundingJob) :
            LET w == Optionally(EncodeFounding, x)
            IN  Optionally(DecodeFounding, w) = x /\ (w = None \/ IsFounding(w))
    BY FoundingEncoding DEF Optional, Optionally, NullIsNoDocument
  <1> QED BY <1>1, <1>2, <1>3, <1>4, <1>5

\* Activities and units.
LEMMA ActivityEncoding ==
  ASSUME NullIsNoDocument, NEW x \in UnitActivity
  PROVE  /\ DecodeActivity(EncodeActivity(x)) = x /\ IsActivity(EncodeActivity(x))
         /\ Identified(ActivityIds(EncodeActivity(x)))
  <1> DEFINE w == EncodeActivity(x)
             job == Optionally(EncodeJob, x.job)
             founding == Optionally(EncodeFounding, x.founding)
             assignment == Optionally(EncodeCoordinate, x.assignment)
  <1>1. /\ x.job \in Optional(WorkerJob) /\ x.founding \in Optional(CityFoundingJob)
        /\ x.assignment \in Optional(HexCoord) /\ x.excavating \in Optional(Ids)
        /\ x = [job |-> x.job, founding |-> x.founding, assignment |-> x.assignment,
                excavating |-> x.excavating]
    BY DEF UnitActivity
  <1>2. Optionally(DecodeJob, job) = x.job /\ (job = None \/ IsJob(job))
    BY <1>1, OptionalEncoding
  <1>3. /\ Optionally(DecodeFounding, founding) = x.founding
        /\ founding = None \/ IsFounding(founding)
    BY <1>1, OptionalEncoding
  <1>4. /\ Optionally(DecodeCoordinate, assignment) = x.assignment
        /\ assignment = None \/ IsCoordinate(assignment)
    BY <1>1, OptionalEncoding
  <1>5. /\ DOMAIN w = {"workerJob", "cityFoundingJob", "workerAssignment",
                       "excavatingArtifactId"}
        /\ w.workerJob = job /\ w.cityFoundingJob = founding
        /\ w.workerAssignment = assignment /\ w.excavatingArtifactId = x.excavating
    BY DEF EncodeActivity
  <1> HIDE DEF w, job, founding, assignment
  <1>6. /\ Get(w, "workerJob") = job /\ Get(w, "cityFoundingJob") = founding
        /\ Get(w, "workerAssignment") = assignment
        /\ Get(w, "excavatingArtifactId") = x.excavating
    BY <1>5 DEF Get
  <1>7. DecodeActivity(w) = x
    BY <1>1, <1>2, <1>3, <1>4, <1>6 DEF DecodeActivity
  <1>8. /\ Opt(w, "workerJob", IsJob) /\ Opt(w, "cityFoundingJob", IsFounding)
        /\ Opt(w, "workerAssignment", IsCoordinate) /\ Opt(w, "excavatingArtifactId", IsText)
    BY <1>1, <1>2, <1>3, <1>4, <1>5, <1>6 DEF Opt, Absent, IsText, Optional, Ids
  <1>9. IsActivity(w)
    BY <1>5, <1>8 DEF IsActivity, Fields
  <1>10. Identified(ActivityIds(w))
    BY <1>1, <1>6 DEF Identified, ActivityIds, Optional, Ids
  <1> QED BY <1>7, <1>9, <1>10 DEF w

LEMMA UnitEncoding ==
  ASSUME NullIsNoDocument, NEW x \in Unit
  PROVE  /\ DecodeUnit(EncodeUnit(x)) = x /\ IsUnit(EncodeUnit(x))
         /\ Identified(UnitIds(EncodeUnit(x)))
  <1> DEFINE w == EncodeUnit(x)
             activity == EncodeActivity(x.activity)
             army == Each(EncodeTroop, x.army)
             queued == Optionally(EncodePath, x.queued)
             merchant == Optionally(EncodeMerchant, x.merchant)
             kind == Named(UnitKinds, x.kind)
             posture == Named(Postures, x.posture)
  <1>1. /\ x.id \in Ids /\ x.owner \in Ids /\ x.kind \in 0 .. 16 /\ x.name \in Texts
        /\ x.position \in HexCoord /\ x.movement \in Numbers /\ x.army \in ListsOf(ArmyTroop)
        /\ x.queued \in Optional(QueuedMovePath) /\ x.merchant \in Optional(MerchantTradeRoute)
        /\ x.activity \in UnitActivity /\ x.charges \in Numbers
        /\ x.hitPoints \in Optional(Numbers) /\ x.experience \in Numbers
        /\ x.posture \in 0 .. 3 /\ x.carried \in Optional(Ids)
    BY DEF Unit
  <1>2. x = [id |-> x.id, owner |-> x.owner, kind |-> x.kind, name |-> x.name,
             position |-> x.position, movement |-> x.movement, army |-> x.army,
             queued |-> x.queued, merchant |-> x.merchant, activity |-> x.activity,
             charges |-> x.charges, hitPoints |-> x.hitPoints,
             experience |-> x.experience, posture |-> x.posture, carried |-> x.carried]
    BY DEF Unit
  <1>3. /\ DecodeActivity(activity) = x.activity /\ IsActivity(activity)
        /\ Identified(ActivityIds(activity))
    BY <1>1, ActivityEncoding
  <1>4. Each(DecodeTroop, army) = x.army /\ Every(IsTroop, army)
    BY <1>1, ArmyEncoding
  <1>5. Optionally(DecodePath, queued) = x.queued /\ (queued = None \/ IsPath(queued))
    BY <1>1, OptionalEncoding
  <1>6. Optionally(DecodeMerchant, merchant) = x.merchant
        /\ (merchant = None \/ IsMerchant(merchant))
    BY <1>1, OptionalEncoding
  <1>7. /\ kind \in Names(UnitKinds) /\ Valued(UnitKinds, kind) = x.kind
        /\ posture \in Names(Postures) /\ Valued(Postures, posture) = x.posture
    BY <1>1, EnumerationNaming
  <1>8. /\ x.position = <<x.position[1], x.position[2]>>
        /\ x.position[1] \in SignedNumbers /\ x.position[2] \in SignedNumbers
    BY <1>1, CoordinateEncoding
  <1>9. merchant # None => merchant.originCityId \in Ids /\ merchant.destinationCityId \in Ids
    BY <1>1 DEF Optionally, EncodeMerchant, Optional, MerchantTradeRoute
  <1>10. DOMAIN w = {"id", "ownerPlayerId", "kind", "name", "col", "row", "movementUnits",
                     "army", "activity", "workerBuildCharges", "experiencePoints", "posture",
                     "queuedPath", "merchantTradeRoute", "hitPoints", "carriedArtifactId"}
    BY DEF EncodeUnit
  <1>11. /\ w.id = x.id /\ w.ownerPlayerId = x.owner /\ w.kind = kind /\ w.name = x.name
         /\ w.col = x.position[1] /\ w.row = x.position[2] /\ w.movementUnits = x.movement
         /\ w.army = army /\ w.queuedPath = queued /\ w.merchantTradeRoute = merchant
         /\ w.activity = activity /\ w.workerBuildCharges = x.charges
         /\ w.hitPoints = x.hitPoints /\ w.experiencePoints = x.experience
         /\ w.posture = posture /\ w.carriedArtifactId = x.carried
    BY DEF EncodeUnit
  <1> HIDE DEF w, activity, army, queued, merchant, kind, posture
  <1>12. /\ Get(w, "queuedPath") = queued /\ Get(w, "merchantTradeRoute") = merchant
         /\ Get(w, "hitPoints") = x.hitPoints /\ Get(w, "carriedArtifactId") = x.carried
    BY <1>10, <1>11 DEF Get
  <1>13. DecodeCoordinate(w) = x.position
    BY <1>8, <1>11 DEF DecodeCoordinate
  <1>14. DecodeUnit(w) = x
    BY <1>2, <1>3, <1>4, <1>5, <1>6, <1>7, <1>11, <1>12, <1>13 DEF DecodeUnit
  <1>15. /\ Opt(w, "queuedPath", IsPath) /\ Opt(w, "merchantTradeRoute", IsMerchant)
         /\ Opt(w, "hitPoints", Unsigned) /\ Opt(w, "carriedArtifactId", IsText)
    BY <1>1, <1>5, <1>6, <1>11, <1>12 DEF Opt, Absent, IsText, Optional, Ids, Unsigned
  <1>16. IsUnit(w)
    BY <1>1, <1>3, <1>4, <1>7, <1>8, <1>10, <1>11, <1>15 DEF IsUnit, Fields, IsText, Unsigned, Ids
  <1>17. Identified(UnitIds(w))
    BY <1>1, <1>3, <1>9, <1>11, <1>12 DEF Identified, UnitIds, Absent, Optional, Ids
  <1> QED BY <1>14, <1>16, <1>17 DEF w

-----------------------------------------------------------------------------
(* Sets that are written in order.                                         *)

\* The list has every element of the set, once.
Listing(list, T) ==
    /\ list \in Seq(T) /\ Len(list) = Cardinality(T) /\ ToSet(list) = T
    /\ \A i, j \in DOMAIN list : list[i] = list[j] => i = j

\* The elements of a finite set in an order list the set.
LEMMA ArrangedOnce ==
  ASSUME NEW T, IsFiniteSet(T), NEW R, Orders(R, T)
  PROVE  Listing(Arranged(R, T), T)
  <1> DEFINE a == Arranged(R, T)
             n == Cardinality(T)
  <1>1. n \in Nat /\ a \in Seq(T) /\ Len(a) = n /\ ToSet(a) = T
    BY ArrangedFacts
  <1> HIDE DEF a, n
  <1>2. DOMAIN a = 1 .. n /\ a \in [1 .. n -> T]
    BY <1>1
  <1>3. \A x \in T : \E i \in 1 .. n : a[i] = x
    BY <1>1, <1>2 DEF ToSet
  <1>4. a \in Surjection(1 .. n, T)
    BY <1>2, <1>3 DEF Surjection
  <1>5. IsFiniteSet(1 .. n) /\ Cardinality(1 .. n) = Cardinality(T)
    BY <1>1, FS_Interval DEF n
  <1>6. a \in Injection(1 .. n, T)
    BY <1>4, <1>5, FS_Surjection
  <1>7. \A i, j \in DOMAIN a : a[i] = a[j] => i = j
    BY <1>2, <1>6 DEF Injection, IsInjective
  <1> QED BY <1>1, <1>7 DEF Listing, a, n

\* What is listed is the set that was arranged, once each.
LEMMA ListingFacts ==
  ASSUME NEW S, NEW T \in SortedSets(S), NEW list, Listing(list, T)
  PROVE  /\ list \in ListsOf(S) /\ ToSet(list) = T
         /\ \A i \in DOMAIN list : list[i] \in T /\ list[i] \in S
         /\ \A i, j \in DOMAIN list : list[i] = list[j] => i = j
  <1>1. T \subseteq S /\ Cardinality(T) \in Lengths
    BY DEF SortedSets
  <1>2. list \in Seq(T) /\ Len(list) \in Lengths
    BY <1>1 DEF Listing
  <1>3. list \in Seq(S)
    BY <1>1, <1>2, SeqMonotonic
  <1>4. \A i \in DOMAIN list : list[i] \in T
    BY <1>2
  <1> QED BY <1>1, <1>2, <1>3, <1>4 DEF ListsOf, Listing

\* Cities, whose hexes are a set.
LEMMA HexesEncoding ==
  ASSUME NEW T \in SortedSets(HexCoord)
  PROVE  DecodeHexes(EncodeHexes(T)) = T /\ Every(IsCoordinate, EncodeHexes(T))
  <1> DEFINE list == Sorted(Before, T)
             key == [x \in HexCoord |-> x]
  <1>1. Orders(Preceding(key, T), T) /\ list = Arranged(Preceding(key, T), T)
    BY HexesArranged
  <1>2. IsFiniteSet(T)
    BY DEF SortedSets
  <1> HIDE DEF list, key
  <1>3. Listing(list, T)
    BY <1>1, <1>2, ArrangedOnce
  <1>4. list \in ListsOf(HexCoord) /\ ToSet(list) = T
    BY <1>3, ListingFacts
  <1>5. /\ Each(DecodeCoordinate, Each(EncodeCoordinate, list)) = list
        /\ Every(IsCoordinate, Each(EncodeCoordinate, list))
    BY <1>4, CoordinatesEncoding
  <1> QED BY <1>4, <1>5 DEF DecodeHexes, EncodeHexes, list

LEMMA CityEncoding ==
  ASSUME NEW x \in City
  PROVE  /\ DecodeCity(EncodeCity(x)) = x /\ IsCity(EncodeCity(x))
         /\ Identified({EncodeCity(x).id, EncodeCity(x).ownerPlayerId})
  <1> DEFINE center == EncodeCoordinate(x.center)
             hexes == EncodeHexes(x.hexes)
             w == EncodeCity(x)
  <1>1. /\ x.id \in Ids /\ x.owner \in Ids /\ x.center \in HexCoord
        /\ x.hexes \in SortedSets(HexCoord) /\ x.center \notin x.hexes
        /\ x = [id |-> x.id, owner |-> x.owner, center |-> x.center, hexes |-> x.hexes]
    BY DEF City
  <1>2. DecodeCoordinate(center) = x.center /\ IsCoordinate(center)
    BY <1>1, CoordinateEncoding
  <1>3. DecodeHexes(hexes) = x.hexes /\ Every(IsCoordinate, hexes)
    BY <1>1, HexesEncoding
  <1>4. /\ DOMAIN w = {"id", "ownerPlayerId", "center", "controlledHexes"}
        /\ w.id = x.id /\ w.ownerPlayerId = x.owner /\ w.center = center
        /\ w.controlledHexes = hexes
    BY DEF EncodeCity
  <1> HIDE DEF w, center, hexes
  <1>5. x.hexes \ {x.center} = x.hexes
    BY <1>1
  <1>6. DecodeCity(w) = x
    BY <1>1, <1>2, <1>3, <1>4, <1>5 DEF DecodeCity
  <1>7. IsCity(w)
    BY <1>1, <1>2, <1>3, <1>4 DEF IsCity, Fields, IsText, Ids
  <1>8. Identified({w.id, w.ownerPlayerId})
    BY <1>1, <1>4 DEF Identified, Ids
  <1> QED BY <1>6, <1>7, <1>8 DEF w

\* Drafts, artifacts and pending interactions.
LEMMA DraftEncoding ==
  ASSUME NEW x \in CityFoundingDraft
  PROVE  /\ DecodeDraft(EncodeDraft(x)) = x /\ IsDraft(EncodeDraft(x))
         /\ Identified(ReferenceIds(EncodeDraft(x)))
  <1> DEFINE center == EncodeCoordinate(x.center)
             hexes == Each(EncodeCoordinate, x.hexes)
             w == EncodeDraft(x)
  <1>1. /\ x.unit \in Ids /\ x.owner \in Ids /\ x.center \in HexCoord
        /\ x.hexes \in ListsOf(HexCoord)
        /\ x = [unit |-> x.unit, owner |-> x.owner, center |-> x.center, hexes |-> x.hexes]
    BY DEF CityFoundingDraft
  <1>2. DecodeCoordinate(center) = x.center /\ IsCoordinate(center)
    BY <1>1, CoordinateEncoding
  <1>3. Each(DecodeCoordinate, hexes) = x.hexes /\ Every(IsCoordinate, hexes)
    BY <1>1, CoordinatesEncoding
  <1>4. /\ DOMAIN w = {"unitId", "ownerPlayerId", "center", "controlledHexes"}
        /\ w.unitId = x.unit /\ w.ownerPlayerId = x.owner /\ w.center = center
        /\ w.controlledHexes = hexes
    BY DEF EncodeDraft
  <1> HIDE DEF w, center, hexes
  <1>5. DecodeDraft(w) = x
    BY <1>1, <1>2, <1>3, <1>4 DEF DecodeDraft
  <1>6. IsDraft(w)
    BY <1>1, <1>2, <1>3, <1>4 DEF IsDraft, Fields, IsText, Ids
  <1>7. Identified(ReferenceIds(w))
    BY <1>1, <1>4 DEF Identified, ReferenceIds, Get, Ids
  <1> QED BY <1>5, <1>6, <1>7 DEF w

LEMMA LocationEncoding ==
  ASSUME NEW x \in WorldArtifactLocation
  PROVE  /\ DecodeLocation(EncodeLocation(x)) = x /\ IsLocation(EncodeLocation(x))
         /\ Identified(ReferenceIds(EncodeLocation(x)))
  <1> DEFINE w == EncodeLocation(x)
             tile == EncodeCoordinate(x.tile)
  <1>1. /\ x.kind \in {"map", "carried", "stored", "excavation"}
        /\ x.unit \in Only(x.kind \in {"carried", "excavation"}, Ids)
        /\ x.city \in Only(x.kind = "stored", Ids)
        /\ x.tile \in Only(x.kind \in {"map", "excavation"}, HexCoord)
        /\ x.remaining \in Only(x.kind = "excavation", Numbers)
        /\ x = [kind |-> x.kind, unit |-> x.unit, city |-> x.city, tile |-> x.tile,
                remaining |-> x.remaining]
    BY DEF WorldArtifactLocation
  <1>2. x.tile \in HexCoord => DecodeCoordinate(tile) = x.tile /\ IsCoordinate(tile)
    BY CoordinateEncoding
  <1> HIDE DEF tile
  <1>3. CASE x.kind = "map"
    <2>1. w = [kind |-> "map", coordinate |-> tile]
      BY <1>3 DEF EncodeLocation, tile
    <2>2. /\ DOMAIN w = {"kind", "coordinate"} /\ w.kind = "map" /\ w.coordinate = tile
      BY <2>1
    <2>3. x.unit = None /\ x.city = None /\ x.remaining = None /\ x.tile \in HexCoord
      BY <1>1, <1>3 DEF Only
    <2> HIDE DEF w
    <2>4. DecodeLocation(w) = x
      BY <1>1, <1>2, <1>3, <2>2, <2>3 DEF DecodeLocation, Get
    <2>5. IsLocation(w)
      BY <1>2, <2>2, <2>3 DEF IsLocation, Fields
    <2>6. Identified(ReferenceIds(w))
      BY <2>2 DEF Identified, ReferenceIds, Get
    <2> QED BY <2>4, <2>5, <2>6 DEF w
  <1>4. CASE x.kind = "carried"
    <2>1. w = [kind |-> "carried", unitId |-> x.unit]
      BY <1>4 DEF EncodeLocation
    <2>2. /\ DOMAIN w = {"kind", "unitId"} /\ w.kind = "carried" /\ w.unitId = x.unit
      BY <2>1
    <2>3. x.unit \in Ids /\ x.city = None /\ x.remaining = None /\ x.tile = None
      BY <1>1, <1>4 DEF Only
    <2> HIDE DEF w
    <2>4. DecodeLocation(w) = x
      BY <1>1, <1>4, <2>2, <2>3 DEF DecodeLocation, Get
    <2>5. IsLocation(w)
      BY <2>2, <2>3 DEF IsLocation, Fields, IsText, Ids
    <2>6. Identified(ReferenceIds(w))
      BY <2>2, <2>3 DEF Identified, ReferenceIds, Get, Ids
    <2> QED BY <2>4, <2>5, <2>6 DEF w
  <1>5. CASE x.kind = "stored"
    <2>1. w = [kind |-> "stored", cityId |-> x.city]
      BY <1>5 DEF EncodeLocation
    <2>2. /\ DOMAIN w = {"kind", "cityId"} /\ w.kind = "stored" /\ w.cityId = x.city
      BY <2>1
    <2>3. x.city \in Ids /\ x.unit = None /\ x.remaining = None /\ x.tile = None
      BY <1>1, <1>5 DEF Only
    <2> HIDE DEF w
    <2>4. DecodeLocation(w) = x
      BY <1>1, <1>5, <2>2, <2>3 DEF DecodeLocation, Get
    <2>5. IsLocation(w)
      BY <2>2, <2>3 DEF IsLocation, Fields, IsText, Ids
    <2>6. Identified(ReferenceIds(w))
      BY <2>2, <2>3 DEF Identified, ReferenceIds, Get, Ids
    <2> QED BY <2>4, <2>5, <2>6 DEF w
  <1>6. CASE x.kind = "excavation"
    <2>1. w = [kind |-> "excavation", unitId |-> x.unit, coordinate |-> tile,
               remainingTurns |-> x.remaining]
      BY <1>6 DEF EncodeLocation, tile
    <2>2. /\ DOMAIN w = {"kind", "unitId", "coordinate", "remainingTurns"}
          /\ w.kind = "excavation" /\ w.unitId = x.unit /\ w.coordinate = tile
          /\ w.remainingTurns = x.remaining
      BY <2>1
    <2>3. x.unit \in Ids /\ x.city = None /\ x.remaining \in Numbers /\ x.tile \in HexCoord
      BY <1>1, <1>6 DEF Only
    <2> HIDE DEF w
    <2>4. DecodeLocation(w) = x
      BY <1>1, <1>2, <1>6, <2>2, <2>3 DEF DecodeLocation, Get
    <2>5. IsLocation(w)
      BY <1>2, <2>2, <2>3 DEF IsLocation, Fields, IsText, Unsigned, Ids
    <2>6. Identified(ReferenceIds(w))
      BY <2>2, <2>3 DEF Identified, ReferenceIds, Get, Ids
    <2> QED BY <2>4, <2>5, <2>6 DEF w
  <1> QED BY <1>1, <1>3, <1>4, <1>5, <1>6

LEMMA ArtifactEncoding ==
  ASSUME NEW x \in WorldArtifact
  PROVE  LET w == EncodeArtifact(x)
         IN  /\ DecodeArtifact(w) = x /\ IsArtifact(w)
             /\ Identified({w.id} \cup ReferenceIds(w.location))
  <1> DEFINE w == EncodeArtifact(x)
             location == EncodeLocation(x.location)
             type == Named(ArtifactTypes, x.type)
  <1>1. /\ x.id \in Ids /\ x.type \in 0 .. 7 /\ x.location \in WorldArtifactLocation
        /\ x = [id |-> x.id, type |-> x.type, location |-> x.location]
    BY DEF WorldArtifact
  <1>2. /\ DecodeLocation(location) = x.location /\ IsLocation(location)
        /\ Identified(ReferenceIds(location))
    BY <1>1, LocationEncoding
  <1>3. type \in Names(ArtifactTypes) /\ Valued(ArtifactTypes, type) = x.type
    BY <1>1, EnumerationNaming
  <1>4. /\ DOMAIN w = {"id", "type", "location"}
        /\ w.id = x.id /\ w.type = type /\ w.location = location
    BY DEF EncodeArtifact
  <1> HIDE DEF w, location, type
  <1>5. DecodeArtifact(w) = x
    BY <1>1, <1>2, <1>3, <1>4 DEF DecodeArtifact
  <1>6. IsArtifact(w)
    BY <1>1, <1>2, <1>3, <1>4 DEF IsArtifact, Fields, IsText, Ids
  <1>7. Identified({w.id} \cup ReferenceIds(w.location))
    BY <1>1, <1>2, <1>4 DEF Identified, Ids
  <1> QED BY <1>5, <1>6, <1>7 DEF w

LEMMA PendingKindNames ==
  ASSUME NEW kind \in {"researchSelection"} \cup CityKinds \cup SelectionKinds
  PROVE  kind \in Names(PendingKinds)
  <1> DEFINE kinds == PendingKinds
  <1>1. DOMAIN kinds = 1 .. 9
    BY EnumerationsAreCounted
  <1>2. \E i \in 1 .. 9 : kinds[i] = kind
    BY DEF PendingKinds, CityKinds, SelectionKinds
  <1> HIDE DEF kinds
  <1>3. \E i \in DOMAIN kinds : kinds[i] = kind
    BY <1>1, <1>2
  <1>4. kind \in Names(kinds)
    BY <1>3 DEF Names, ToSet
  <1> QED BY <1>4 DEF kinds

LEMMA PendingEncoding ==
  ASSUME NullIsNoDocument, NEW x \in PendingInteraction
  PROVE  /\ DecodePending(EncodePending(x)) = x /\ IsPending(EncodePending(x))
         /\ Identified(ReferenceIds(EncodePending(x)))
  <1> DEFINE w == EncodePending(x)
             v == PendingValues(x)
             kind == x.kind
             improvement == Optionally(LAMBDA i : Named(Improvements, i), x.improvement)
             defender == Optionally(EncodeCoordinate, x.defender)
  <1>1. /\ kind \in {"researchSelection"} \cup CityKinds \cup SelectionKinds
        /\ x.owner \in Ids
        /\ x.city \in Only(kind \in CityKinds, Ids)
        /\ x.unit \in Only(kind \in SelectionKinds, Ids)
        /\ x.restore \in Only(kind = "unitTurnSkip", Numbers)
        /\ x.improvement \in Optional(0 .. 18) /\ x.defender \in Optional(HexCoord)
        /\ x.improvement # None => kind = "workerActionSelection"
        /\ x.defender # None => kind = "attackTargeting"
        /\ x = [kind |-> x.kind, owner |-> x.owner, city |-> x.city, unit |-> x.unit,
                restore |-> x.restore, improvement |-> x.improvement,
                defender |-> x.defender]
    BY DEF PendingInteraction
  <1>2. /\ Optionally(DecodeCoordinate, defender) = x.defender
        /\ defender = None \/ IsCoordinate(defender)
        /\ x.defender = None => defender = None
    <2>1. /\ Optionally(DecodeCoordinate, defender) = x.defender
          /\ defender = None \/ IsCoordinate(defender)
      BY <1>1, OptionalEncoding
    <2>2. x.defender = None => defender = None
      BY DEF Optionally
    <2> QED BY <2>1, <2>2
  <1>3. /\ Optionally(LAMBDA i : Valued(Improvements, i), improvement) = x.improvement
        /\ improvement = None \/ improvement \in Names(Improvements)
        /\ x.improvement = None => improvement = None
    <2>1. CASE x.improvement = None
      BY <2>1 DEF Optionally
    <2>2. CASE x.improvement # None
      <3>1. x.improvement \in 0 .. 18 /\ improvement = Named(Improvements, x.improvement)
        BY <1>1, <2>2 DEF Optional, Optionally
      <3>2. /\ improvement \in Names(Improvements) /\ improvement # None
            /\ Valued(Improvements, improvement) = x.improvement
        BY <3>1, EnumerationNaming, NamesAssumption
      <3> HIDE DEF improvement
      <3> QED BY <2>2, <3>2 DEF Optionally
    <2> QED BY <2>1, <2>2
  <1>4. /\ v.type = kind /\ v.ownerPlayerId = x.owner /\ v.cityId = x.city
        /\ v.unitId = x.unit /\ v.restoreMovementUnits = x.restore
        /\ v.improvement = improvement /\ v.defender = defender
    BY DEF PendingValues
  <1>5. /\ DOMAIN w = PendingFields(kind) \cup PendingOptions(kind)
        /\ \A f \in DOMAIN w : w[f] = v[f]
    BY DEF EncodePending, Restrict
  <1> HIDE DEF w, v, kind, improvement, defender
  <1>6. /\ {"type", "ownerPlayerId"} \subseteq DOMAIN w
        /\ "cityId" \in DOMAIN w <=> kind \in CityKinds
        /\ "unitId" \in DOMAIN w <=> kind \in SelectionKinds
        /\ "restoreMovementUnits" \in DOMAIN w <=> kind = "unitTurnSkip"
        /\ "improvement" \in DOMAIN w <=> kind = "workerActionSelection"
        /\ "defender" \in DOMAIN w <=> kind = "attackTargeting"
        /\ {"builtByPlayerId", "builtByCityId", "playerId", "firstPlayerId",
            "secondPlayerId"} \cap DOMAIN w = {}
    BY <1>1, <1>5 DEF PendingFields, PendingOptions, CityKinds, SelectionKinds
  <1>7. /\ w.type = kind /\ w.ownerPlayerId = x.owner
        /\ "cityId" \in DOMAIN w => w.cityId = x.city
        /\ "unitId" \in DOMAIN w => w.unitId = x.unit
        /\ "restoreMovementUnits" \in DOMAIN w => w.restoreMovementUnits = x.restore
        /\ "improvement" \in DOMAIN w => w.improvement = improvement
        /\ "defender" \in DOMAIN w => w.defender = defender
    BY <1>4, <1>5, <1>6
  <1>8. Get(w, "cityId") = x.city /\ Get(w, "unitId") = x.unit
    BY <1>1, <1>6, <1>7, Presence DEF Only
  <1>9. Get(w, "restoreMovementUnits") = x.restore
    BY <1>1, <1>6, <1>7, Presence DEF Only
  <1>10. Get(w, "improvement") = improvement
    BY <1>1, <1>3, <1>6, <1>7, Presence
  <1>11. Get(w, "defender") = defender
    BY <1>1, <1>2, <1>6, <1>7, Presence
  <1>12. DecodePending(w) = x
    BY <1>1, <1>2, <1>3, <1>7, <1>8, <1>9, <1>10, <1>11 DEF DecodePending, kind
  <1>13. IsPending(w)
    <2>1. w.type \in Names(PendingKinds)
      BY <1>1, <1>7, PendingKindNames
    <2>2. Fields(w, PendingFields(w.type), PendingOptions(w.type))
      BY <1>5, <1>7 DEF Fields
    <2>3. \A f \in {"ownerPlayerId", "cityId", "unitId"} \cap DOMAIN w : IsText(w[f])
      BY <1>1, <1>6, <1>7 DEF Only, IsText, Ids
    <2>4. "restoreMovementUnits" \in DOMAIN w => Unsigned(w.restoreMovementUnits)
      BY <1>1, <1>6, <1>7 DEF Only, Unsigned
    <2>5. Opt(w, "defender", IsCoordinate)
      BY <1>2, <1>11, Presence DEF Opt
    <2>6. Opt(w, "improvement", LAMBDA i : i \in Names(Improvements))
      BY <1>3, <1>10, Presence DEF Opt
    <2> QED BY <2>1, <2>2, <2>3, <2>4, <2>5, <2>6 DEF IsPending
  <1>14. Identified(ReferenceIds(w))
    <2>1. x.city \in Optional(Ids) /\ x.unit \in Optional(Ids) /\ x.owner \in Ids
      BY <1>1 DEF Only, Optional
    <2>2. Get(w, "ownerPlayerId") = x.owner
      BY <1>6, <1>7, Presence
    <2>3. \A f \in {"builtByPlayerId", "builtByCityId", "playerId", "firstPlayerId",
                     "secondPlayerId"} : Get(w, f) = None
      BY <1>6, Presence
    <2> QED BY <1>8, <2>1, <2>2, <2>3 DEF Identified, ReferenceIds, Optional, Ids
  <1> QED BY <1>12, <1>13, <1>14 DEF w

\* What players know: fog, contacts and roads.
LEMMA FogEncoding ==
  ASSUME NEW x \in PlayerFog
  PROVE  /\ DecodeFog(EncodeFog(x)) = x /\ IsFog(EncodeFog(x))
         /\ Identified(ReferenceIds(EncodeFog(x))) /\ EncodeFog(x).playerId = x.player
  <1> DEFINE w == EncodeFog(x)
             discovered == EncodeHexes(x.discovered)
             visible == EncodeHexes(x.visible)
  <1>1. /\ x.player \in Ids /\ x.discovered \in SortedSets(HexCoord)
        /\ x.visible \in SortedSets(HexCoord) /\ x.visible \subseteq x.discovered
        /\ x = [player |-> x.player, discovered |-> x.discovered, visible |-> x.visible]
    BY DEF PlayerFog
  <1>2. /\ DecodeHexes(discovered) = x.discovered /\ Every(IsCoordinate, discovered)
        /\ DecodeHexes(visible) = x.visible /\ Every(IsCoordinate, visible)
    BY <1>1, HexesEncoding
  <1>3. /\ DOMAIN w = {"playerId", "discoveredHexes", "visibleHexes"}
        /\ w.playerId = x.player /\ w.discoveredHexes = discovered
        /\ w.visibleHexes = visible
    BY DEF EncodeFog
  <1> HIDE DEF w, discovered, visible
  <1>4. x.discovered \cup x.visible = x.discovered
    BY <1>1
  <1>5. DecodeFog(w) = x
    BY <1>1, <1>2, <1>3, <1>4 DEF DecodeFog
  <1>6. IsFog(w)
    BY <1>1, <1>2, <1>3 DEF IsFog, Fields, IsText, Ids
  <1>7. Identified(ReferenceIds(w))
    BY <1>1, <1>3 DEF Identified, ReferenceIds, Get, Ids
  <1> QED BY <1>3, <1>5, <1>6, <1>7 DEF w

LEMMA PairEncoding ==
  ASSUME NEW x \in PlayerPair
  PROVE  LET w == EncodePair(x)
         IN  /\ DecodePair(w) = x /\ IsPair(w) /\ Identified(ReferenceIds(w))
             /\ w.firstPlayerId # w.secondPlayerId
  <1> DEFINE w == EncodePair(x)
  <1>1. x[1] \in Ids /\ x[2] \in Ids /\ Before(x[1], x[2]) /\ x = <<x[1], x[2]>>
    BY DEF PlayerPair
  <1>2. /\ DOMAIN w = {"firstPlayerId", "secondPlayerId"}
        /\ w.firstPlayerId = x[1] /\ w.secondPlayerId = x[2]
    BY DEF EncodePair
  <1> HIDE DEF w
  <1>3. x[1] # x[2]
    BY <1>1, TextsAreSequences, BeforeIrreflexive
  <1>4. DecodePair(w) = x
    BY <1>1, <1>2 DEF DecodePair
  <1>5. IsPair(w)
    BY <1>1, <1>2 DEF IsPair, Fields, IsText, Ids
  <1>6. Identified(ReferenceIds(w))
    BY <1>1, <1>2 DEF Identified, ReferenceIds, Get, Ids
  <1> QED BY <1>2, <1>3, <1>4, <1>5, <1>6 DEF w

LEMMA RoadEncoding ==
  ASSUME NEW x \in TransportSegment
  PROVE  LET w == EncodeRoad(x)
         IN  /\ DecodeRoad(w) = x /\ IsRoad(w) /\ Identified(ReferenceIds(w))
             /\ DecodeCoordinate(w.coordinate) = x.coordinate
  <1> DEFINE w == EncodeRoad(x)
             coordinate == EncodeCoordinate(x.coordinate)
             condition == Named(Conditions, x.condition)
  <1>1. /\ x.coordinate \in HexCoord /\ x.condition \in 0 .. 1 /\ x.builder \in Ids
        /\ x.city \in Optional(Ids)
        /\ x = [coordinate |-> x.coordinate, condition |-> x.condition,
                builder |-> x.builder, city |-> x.city]
    BY DEF TransportSegment
  <1>2. DecodeCoordinate(coordinate) = x.coordinate /\ IsCoordinate(coordinate)
    BY <1>1, CoordinateEncoding
  <1>3. condition \in Names(Conditions) /\ Valued(Conditions, condition) = x.condition
    BY <1>1, EnumerationNaming
  <1>4. /\ DOMAIN w = {"coordinate", "condition", "builtByPlayerId", "builtByCityId"}
        /\ w.coordinate = coordinate /\ w.condition = condition
        /\ w.builtByPlayerId = x.builder /\ w.builtByCityId = x.city
    BY DEF EncodeRoad
  <1> HIDE DEF w, coordinate, condition
  <1>5. Get(w, "builtByCityId") = x.city
    BY <1>4 DEF Get
  <1>6. DecodeRoad(w) = x
    BY <1>1, <1>2, <1>3, <1>4, <1>5 DEF DecodeRoad
  <1>7. Opt(w, "builtByCityId", IsText)
    BY <1>1, <1>4, <1>5 DEF Opt, Absent, Optional, IsText, Ids
  <1>8. IsRoad(w)
    BY <1>1, <1>2, <1>3, <1>4, <1>7 DEF IsRoad, Fields, IsText, Ids
  <1>9. Identified(ReferenceIds(w))
    BY <1>1, <1>4 DEF Identified, ReferenceIds, Get, Optional, Ids
  <1> QED BY <1>2, <1>4, <1>6, <1>8, <1>9 DEF w

\* The lists of a state, each with the parts that it has.
LEMMA UnitsEncoding ==
  ASSUME NullIsNoDocument, NEW s \in ListsOf(Unit)
  PROVE  LET e == Each(EncodeUnit, s)
         IN  /\ Each(DecodeUnit, e) = s /\ Every(IsUnit, e) /\ DOMAIN e = DOMAIN s
             /\ \A i \in DOMAIN e : Identified(UnitIds(e[i]))
  <1> DEFINE e == [i \in DOMAIN s |-> EncodeUnit(s[i])]
             d == [i \in DOMAIN e |-> DecodeUnit(e[i])]
  <1>1. \A i \in DOMAIN s : s[i] \in Unit
    BY DEF ListsOf
  <1>2. \A i \in DOMAIN s :
            d[i] = s[i] /\ IsUnit(e[i]) /\ Identified(UnitIds(e[i]))
    BY <1>1, UnitEncoding
  <1>3. e = [i \in DOMAIN s |-> e[i]] /\ d = [i \in DOMAIN e |-> d[i]]
    OBVIOUS
  <1>4. Each(EncodeUnit, s) = e /\ Each(DecodeUnit, e) = d
    BY DEF Each
  <1> HIDE DEF e, d
  <1>5. d = s /\ IsList(e) /\ DOMAIN e = DOMAIN s
    BY <1>2, <1>3, ListEncoding
  <1> QED BY <1>2, <1>4, <1>5 DEF Every

LEMMA CitiesEncoding ==
  ASSUME NEW s \in ListsOf(City)
  PROVE  LET e == Each(EncodeCity, s)
         IN  /\ Each(DecodeCity, e) = s /\ Every(IsCity, e) /\ DOMAIN e = DOMAIN s
             /\ \A i \in DOMAIN e : Identified({e[i].id, e[i].ownerPlayerId})
  <1> DEFINE e == [i \in DOMAIN s |-> EncodeCity(s[i])]
             d == [i \in DOMAIN e |-> DecodeCity(e[i])]
  <1>1. \A i \in DOMAIN s : s[i] \in City
    BY DEF ListsOf
  <1>2. \A i \in DOMAIN s :
            d[i] = s[i] /\ IsCity(e[i]) /\ Identified({e[i].id, e[i].ownerPlayerId})
    BY <1>1, CityEncoding
  <1>3. e = [i \in DOMAIN s |-> e[i]] /\ d = [i \in DOMAIN e |-> d[i]]
    OBVIOUS
  <1>4. Each(EncodeCity, s) = e /\ Each(DecodeCity, e) = d
    BY DEF Each
  <1> HIDE DEF e, d
  <1>5. d = s /\ IsList(e) /\ DOMAIN e = DOMAIN s
    <2>1. \A i \in DOMAIN s : d[i] = s[i]
      BY <1>2
    <2> QED BY <1>3, <2>1, ListEncoding
  <1> QED BY <1>2, <1>4, <1>5 DEF Every

LEMMA ArtifactsEncoding ==
  ASSUME NEW s \in ListsOf(WorldArtifact)
  PROVE  LET e == Each(EncodeArtifact, s)
         IN  /\ Each(DecodeArtifact, e) = s /\ Every(IsArtifact, e) /\ DOMAIN e = DOMAIN s
             /\ \A i \in DOMAIN e : Identified({e[i].id} \cup ReferenceIds(e[i].location))
  <1> DEFINE e == [i \in DOMAIN s |-> EncodeArtifact(s[i])]
             d == [i \in DOMAIN e |-> DecodeArtifact(e[i])]
  <1>1. \A i \in DOMAIN s : s[i] \in WorldArtifact
    BY DEF ListsOf
  <1>2. \A i \in DOMAIN s :
            /\ d[i] = s[i] /\ IsArtifact(e[i])
            /\ Identified({e[i].id} \cup ReferenceIds(e[i].location))
    BY <1>1, ArtifactEncoding
  <1>3. e = [i \in DOMAIN s |-> e[i]] /\ d = [i \in DOMAIN e |-> d[i]]
    OBVIOUS
  <1>4. Each(EncodeArtifact, s) = e /\ Each(DecodeArtifact, e) = d
    BY DEF Each
  <1> HIDE DEF e, d
  <1>5. d = s /\ IsList(e) /\ DOMAIN e = DOMAIN s
    <2>1. \A i \in DOMAIN s : d[i] = s[i]
      BY <1>2
    <2> QED BY <1>3, <2>1, ListEncoding
  <1> QED BY <1>2, <1>4, <1>5 DEF Every

LEMMA FogsEncoding ==
  ASSUME NEW s \in ListsOf(PlayerFog)
  PROVE  LET e == Each(EncodeFog, s)
         IN  /\ Each(DecodeFog, e) = s /\ Every(IsFog, e) /\ DOMAIN e = DOMAIN s
             /\ \A i \in DOMAIN e : Identified(ReferenceIds(e[i]))
  <1> DEFINE e == [i \in DOMAIN s |-> EncodeFog(s[i])]
             d == [i \in DOMAIN e |-> DecodeFog(e[i])]
  <1>1. \A i \in DOMAIN s : s[i] \in PlayerFog
    BY DEF ListsOf
  <1>2. \A i \in DOMAIN s :
            d[i] = s[i] /\ IsFog(e[i]) /\ Identified(ReferenceIds(e[i]))
    BY <1>1, FogEncoding
  <1>3. e = [i \in DOMAIN s |-> e[i]] /\ d = [i \in DOMAIN e |-> d[i]]
    OBVIOUS
  <1>4. Each(EncodeFog, s) = e /\ Each(DecodeFog, e) = d
    BY DEF Each
  <1> HIDE DEF e, d
  <1>5. d = s /\ IsList(e) /\ DOMAIN e = DOMAIN s
    BY <1>2, <1>3, ListEncoding
  <1> QED BY <1>2, <1>4, <1>5 DEF Every

LEMMA PairsEncoding ==
  ASSUME NEW s \in ListsOf(PlayerPair)
  PROVE  LET e == Each(EncodePair, s)
         IN  /\ Each(DecodePair, e) = s /\ Every(IsPair, e) /\ DOMAIN e = DOMAIN s
             /\ \A i \in DOMAIN e : Identified(ReferenceIds(e[i]))
  <1> DEFINE e == [i \in DOMAIN s |-> EncodePair(s[i])]
             d == [i \in DOMAIN e |-> DecodePair(e[i])]
  <1>1. \A i \in DOMAIN s : s[i] \in PlayerPair
    BY DEF ListsOf
  <1>2. \A i \in DOMAIN s :
            d[i] = s[i] /\ IsPair(e[i]) /\ Identified(ReferenceIds(e[i]))
    BY <1>1, PairEncoding
  <1>3. e = [i \in DOMAIN s |-> e[i]] /\ d = [i \in DOMAIN e |-> d[i]]
    OBVIOUS
  <1>4. Each(EncodePair, s) = e /\ Each(DecodePair, e) = d
    BY DEF Each
  <1> HIDE DEF e, d
  <1>5. d = s /\ IsList(e) /\ DOMAIN e = DOMAIN s
    BY <1>2, <1>3, ListEncoding
  <1> QED BY <1>2, <1>4, <1>5 DEF Every

LEMMA RoadsEncoding ==
  ASSUME NEW s \in ListsOf(TransportSegment)
  PROVE  LET e == Each(EncodeRoad, s)
         IN  /\ Each(DecodeRoad, e) = s /\ Every(IsRoad, e) /\ DOMAIN e = DOMAIN s
             /\ \A i \in DOMAIN e : Identified(ReferenceIds(e[i]))
  <1> DEFINE e == [i \in DOMAIN s |-> EncodeRoad(s[i])]
             d == [i \in DOMAIN e |-> DecodeRoad(e[i])]
  <1>1. \A i \in DOMAIN s : s[i] \in TransportSegment
    BY DEF ListsOf
  <1>2. \A i \in DOMAIN s :
            d[i] = s[i] /\ IsRoad(e[i]) /\ Identified(ReferenceIds(e[i]))
    BY <1>1, RoadEncoding
  <1>3. e = [i \in DOMAIN s |-> e[i]] /\ d = [i \in DOMAIN e |-> d[i]]
    OBVIOUS
  <1>4. Each(EncodeRoad, s) = e /\ Each(DecodeRoad, e) = d
    BY DEF Each
  <1> HIDE DEF e, d
  <1>5. d = s /\ IsList(e) /\ DOMAIN e = DOMAIN s
    BY <1>2, <1>3, ListEncoding
  <1> QED BY <1>2, <1>4, <1>5 DEF Every

\* The lists of a state's sets.
LEMMA StateListings ==
  ASSUME NEW g \in State
  PROVE  /\ Listing(FogList(g), g.fog) /\ Listing(ContactList(g), g.contacts)
         /\ Listing(RoadList(g), g.roads)
  <1>1. /\ g.fog \in SortedSets(PlayerFog) /\ g.contacts \in SortedSets(PlayerPair)
        /\ g.roads \in SortedSets(TransportSegment)
        /\ \A f, h \in g.fog : f.player = h.player => f = h
        /\ \A r, s \in g.roads : r.coordinate = s.coordinate => r = s
    BY DEF State
  <1>2. IsFiniteSet(g.fog) /\ IsFiniteSet(g.contacts) /\ IsFiniteSet(g.roads)
    BY <1>1 DEF SortedSets
  <1>3. Listing(FogList(g), g.fog)
    <2> DEFINE T == g.fog  key == [x \in PlayerFog |-> x.player]
    <2>1. Orders(Preceding(key, T), T) /\ FogList(g) = Arranged(Preceding(key, T), T)
      BY <1>1, FogsArranged
    <2> HIDE DEF T, key
    <2>2. Listing(FogList(g), T)
      BY <1>2, <2>1, ArrangedOnce DEF T
    <2> QED BY <2>2 DEF T
  <1>4. Listing(ContactList(g), g.contacts)
    <2> DEFINE T == g.contacts  R == [x \in T |-> {y \in T : PairBefore(y, x)}]
    <2>1. Orders(R, T) /\ ContactList(g) = Arranged(R, T)
      BY <1>1, ContactsArranged
    <2> HIDE DEF R
    <2> QED BY <1>2, <2>1, ArrangedOnce
  <1>5. Listing(RoadList(g), g.roads)
    <2> DEFINE T == g.roads  key == [x \in TransportSegment |-> x.coordinate]
    <2>1. Orders(Preceding(key, T), T) /\ RoadList(g) = Arranged(Preceding(key, T), T)
      BY <1>1, RoadsArranged
    <2> HIDE DEF T, key
    <2>2. Listing(RoadList(g), T)
      BY <1>2, <2>1, ArrangedOnce DEF T
    <2> QED BY <2>2 DEF T
  <1> QED BY <1>3, <1>4, <1>5

\* encode_game_state writes a document that decode_game_state reads as the
\* very state that was written.
LEMMA StateEncoding ==
  ASSUME NullIsNoDocument, NEW g \in State
  PROVE  LET w == EncodeState(g)
         IN  DecodeState(w) = g /\ IsStateDocument(w) /\ Identified(Identifiers(w))
  <1> DEFINE w == EncodeState(g)
             units == Each(EncodeUnit, g.units)
             cities == Each(EncodeCity, g.cities)
             artifacts == Each(EncodeArtifact, g.artifacts)
             draft == Optionally(EncodeDraft, g.draft)
             pending == Optionally(EncodePending, g.pending)
             fogs == Each(EncodeFog, FogList(g))
             contacts == Each(EncodePair, ContactList(g))
             roads == Each(EncodeRoad, RoadList(g))
             policy == Named(Policies, g.policy)
  <1>1. /\ g.revision \in LongNumbers /\ g.turn \in Numbers /\ g.cols \in Dimensions
        /\ g.rows \in Dimensions /\ g.policy \in 0 .. 1 /\ g.units \in ListsOf(Unit)
        /\ g.cities \in ListsOf(City) /\ g.artifacts \in ListsOf(WorldArtifact)
        /\ g.draft \in Optional(CityFoundingDraft)
        /\ g.pending \in Optional(PendingInteraction)
        /\ g.fog \in SortedSets(PlayerFog) /\ g.contacts \in SortedSets(PlayerPair)
        /\ g.roads \in SortedSets(TransportSegment)
    BY DEF State
  <1>2. g = [revision |-> g.revision, turn |-> g.turn, cols |-> g.cols, rows |-> g.rows,
             policy |-> g.policy, units |-> g.units, cities |-> g.cities,
             artifacts |-> g.artifacts, draft |-> g.draft, pending |-> g.pending,
             fog |-> g.fog, contacts |-> g.contacts, roads |-> g.roads]
    BY DEF State
  <1>3. /\ Each(DecodeUnit, units) = g.units /\ Every(IsUnit, units)
        /\ \A i \in DOMAIN units : Identified(UnitIds(units[i]))
    BY <1>1, UnitsEncoding
  <1>4. /\ Each(DecodeCity, cities) = g.cities /\ Every(IsCity, cities)
        /\ \A i \in DOMAIN cities : Identified({cities[i].id, cities[i].ownerPlayerId})
    BY <1>1, CitiesEncoding
  <1>5. /\ Each(DecodeArtifact, artifacts) = g.artifacts /\ Every(IsArtifact, artifacts)
        /\ \A i \in DOMAIN artifacts :
              Identified({artifacts[i].id} \cup ReferenceIds(artifacts[i].location))
    BY <1>1, ArtifactsEncoding
  <1>6. /\ FogList(g) \in ListsOf(PlayerFog) /\ ToSet(FogList(g)) = g.fog
        /\ ContactList(g) \in ListsOf(PlayerPair) /\ ToSet(ContactList(g)) = g.contacts
        /\ RoadList(g) \in ListsOf(TransportSegment) /\ ToSet(RoadList(g)) = g.roads
    BY <1>1, StateListings, ListingFacts
  <1>7. /\ ToSet(Each(DecodeFog, fogs)) = g.fog /\ Every(IsFog, fogs)
        /\ \A i \in DOMAIN fogs : Identified(ReferenceIds(fogs[i]))
    BY <1>6, FogsEncoding
  <1>8. /\ ToSet(Each(DecodePair, contacts)) = g.contacts /\ Every(IsPair, contacts)
        /\ \A i \in DOMAIN contacts : Identified(ReferenceIds(contacts[i]))
    BY <1>6, PairsEncoding
  <1>9. /\ ToSet(Each(DecodeRoad, roads)) = g.roads /\ Every(IsRoad, roads)
        /\ \A i \in DOMAIN roads : Identified(ReferenceIds(roads[i]))
    BY <1>6, RoadsEncoding
  <1>10. /\ Optionally(DecodeDraft, draft) = g.draft /\ (draft = None \/ IsDraft(draft))
         /\ draft # None => Identified(ReferenceIds(draft))
    BY <1>1, DraftEncoding DEF Optional, Optionally, NullIsNoDocument
  <1>11. /\ Optionally(DecodePending, pending) = g.pending
         /\ pending = None \/ IsPending(pending)
         /\ pending # None => Identified(ReferenceIds(pending))
    BY <1>1, PendingEncoding DEF Optional, Optionally, NullIsNoDocument
  <1>12. policy \in Names(Policies) /\ Valued(Policies, policy) = g.policy
    BY <1>1, EnumerationNaming
  <1>13. /\ DOMAIN w = {"schemaVersion", "revision", "turn", "cols", "rows",
                        "occupancyPolicy", "units", "cities", "artifacts", "interaction",
                        "fogOfWar", "diplomaticContacts", "transportNetwork"}
         /\ w.schemaVersion = GameStateVersion /\ w.revision = g.revision
         /\ w.turn = g.turn /\ w.cols = g.cols /\ w.rows = g.rows
         /\ w.occupancyPolicy = policy /\ w.units = units /\ w.cities = cities
         /\ w.artifacts = artifacts /\ w.fogOfWar = fogs /\ w.diplomaticContacts = contacts
         /\ w.transportNetwork = roads
         /\ DOMAIN w.interaction = {"cityFoundingDraft", "pending"}
         /\ w.interaction.cityFoundingDraft = draft /\ w.interaction.pending = pending
    BY DEF EncodeState
  <1> HIDE DEF w, units, cities, artifacts, draft, pending, fogs, contacts, roads, policy
  <1>14. /\ Get(w.interaction, "cityFoundingDraft") = draft
         /\ Get(w.interaction, "pending") = pending
    BY <1>13 DEF Get
  <1>15. DecodeState(w) = g
    BY <1>2, <1>3, <1>4, <1>5, <1>7, <1>8, <1>9, <1>10, <1>11, <1>12, <1>13, <1>14
       DEF DecodeState
  <1>16. IsInteraction(w.interaction)
    BY <1>10, <1>11, <1>13, <1>14 DEF IsInteraction, Fields, Opt, Absent
  <1>17. {w.schemaVersion, w.cols, w.rows} \subseteq ShortNumbers
    BY <1>1, <1>13 DEF ShortNumbers, Dimensions, GameStateVersion
  <1>18. IsStateDocument(w)
    BY <1>1, <1>3, <1>4, <1>5, <1>7, <1>8, <1>9, <1>12, <1>13, <1>16, <1>17
       DEF IsStateDocument, Fields, Unsigned
  <1>19. Identified(Identifiers(w))
    BY <1>3, <1>4, <1>5, <1>7, <1>8, <1>9, <1>10, <1>11, <1>13, <1>14, DocumentIds
       DEF Absent
  <1> QED BY <1>15, <1>18, <1>19 DEF w

\* A valid state within the limits of a document is encoded as a document that
\* no check of decode_game_state refuses.
LEMMA EncodedDecodes ==
  ASSUME NullIsNoDocument, NEW g \in State, ValidState(g), WithinLimits(EncodeState(g))
  PROVE  Decodable(EncodeState(g)) /\ DecodeState(EncodeState(g)) = g
  <1> DEFINE w == EncodeState(g)
             fogs == FogList(g)
             contacts == ContactList(g)
             roads == RoadList(g)
  <1>1. DecodeState(w) = g /\ IsStateDocument(w) /\ Identified(Identifiers(w))
    BY StateEncoding
  <1>2. /\ g.fog \in SortedSets(PlayerFog) /\ g.contacts \in SortedSets(PlayerPair)
        /\ g.roads \in SortedSets(TransportSegment)
        /\ g.cols \in Dimensions /\ g.rows \in Dimensions
        /\ \A f, h \in g.fog : f.player = h.player => f = h
        /\ \A r, s \in g.roads : r.coordinate = s.coordinate => r = s
    BY DEF State
  <1>3. /\ w.schemaVersion = GameStateVersion /\ w.cols = g.cols /\ w.rows = g.rows
        /\ w.fogOfWar = [i \in DOMAIN fogs |-> EncodeFog(fogs[i])]
        /\ w.diplomaticContacts = [i \in DOMAIN contacts |-> EncodePair(contacts[i])]
        /\ w.transportNetwork = [i \in DOMAIN roads |-> EncodeRoad(roads[i])]
    BY DEF EncodeState, Each
  <1>4. /\ \A i \in DOMAIN fogs : fogs[i] \in g.fog /\ fogs[i] \in PlayerFog
        /\ \A i, j \in DOMAIN fogs : fogs[i] = fogs[j] => i = j
        /\ \A i \in DOMAIN contacts : contacts[i] \in PlayerPair
        /\ \A i \in DOMAIN roads : roads[i] \in g.roads /\ roads[i] \in TransportSegment
        /\ \A i, j \in DOMAIN roads : roads[i] = roads[j] => i = j
    BY <1>2, StateListings, ListingFacts
  <1> HIDE DEF w, fogs, contacts, roads
  <1>5. Distinct(LAMBDA fog : fog.playerId, w.fogOfWar)
    <2>1. \A i, j \in DOMAIN fogs : fogs[i].player = fogs[j].player => i = j
      BY <1>2, <1>4
    <2>2. \A i \in DOMAIN fogs : w.fogOfWar[i].playerId = fogs[i].player
      BY <1>3, <1>4, FogEncoding
    <2> QED BY <1>3, <2>1, <2>2 DEF Distinct
  <1>6. \A i \in DOMAIN w.diplomaticContacts :
            w.diplomaticContacts[i].firstPlayerId # w.diplomaticContacts[i].secondPlayerId
    BY <1>3, <1>4, PairEncoding
  <1>7. Distinct(LAMBDA road : DecodeCoordinate(road.coordinate), w.transportNetwork)
    <2>1. \A i, j \in DOMAIN roads : roads[i].coordinate = roads[j].coordinate => i = j
      BY <1>2, <1>4
    <2>2. \A i \in DOMAIN roads :
              DecodeCoordinate(w.transportNetwork[i].coordinate) = roads[i].coordinate
      BY <1>3, <1>4, RoadEncoding
    <2> QED BY <1>3, <2>1, <2>2 DEF Distinct
  <1>8. w.cols > 0 /\ w.rows > 0
    BY <1>2, <1>3 DEF Dimensions, ShortNumbers
  <1>9. Decodable(w)
    BY <1>1, <1>3, <1>5, <1>6, <1>7, <1>8 DEF Decodable, Identified, w
  <1> QED BY <1>1, <1>9 DEF w

-----------------------------------------------------------------------------
(* Maps: what a document says is what its map is.                          *)

\* Resources are told apart by their rank.
LEMMA ResourcesOrder ==
  ASSUME NEW T \in SUBSET Names(Resources)
  PROVE  ToSet(Sorted(LAMBDA r, s : Rank(r) < Rank(s), T)) = T
  <1> DEFINE R == [x \in T |-> {y \in T : Rank(y) < Rank(x)}]
             kinds == Resources
  <1>1. DOMAIN kinds = 1 .. 29
    BY DEF Resources
  <1>2. \A name \in Names(kinds) :
            \E i \in 1 .. 29 : kinds[i] = name /\ Valued(kinds, name) = i - 1
    <2> HIDE DEF kinds
    <2> SUFFICES ASSUME NEW name \in Names(kinds)
                 PROVE  \E i \in 1 .. 29 : kinds[i] = name /\ Valued(kinds, name) = i - 1
      OBVIOUS
    <2>1. \E i \in DOMAIN kinds : kinds[i] = name
      BY DEF Names, ToSet
    <2> QED BY <1>1, <2>1 DEF Valued
  <1>3. \A x, y \in T : Rank(x) \in Int /\ (Rank(x) = Rank(y) => x = y)
    <2>1. \A x \in T : x \in Names(kinds) /\ Rank(x) = Valued(kinds, x)
      BY DEF Rank
    <2> HIDE DEF kinds
    <2> SUFFICES ASSUME NEW x \in T, NEW y \in T
                 PROVE  Rank(x) \in Int /\ (Rank(x) = Rank(y) => x = y)
      OBVIOUS
    <2>2. PICK i \in 1 .. 29 : kinds[i] = x /\ Rank(x) = i - 1
      BY <1>2, <2>1
    <2>3. PICK j \in 1 .. 29 : kinds[j] = y /\ Rank(y) = j - 1
      BY <1>2, <2>1
    <2> QED BY <2>2, <2>3
  <1>4. R \in [T -> SUBSET T] /\ \A x, y \in T : x \in R[y] <=> Rank(x) < Rank(y)
    OBVIOUS
  <1>5. IsFiniteSet(T)
    <2> DEFINE f == [i \in 1 .. 29 |-> kinds[i]]
    <2>1. Names(kinds) = ToSet(f) /\ f = [i \in 1 .. 29 |-> f[i]]
      <3> HIDE DEF kinds
      <3> QED BY <1>1 DEF Names, ToSet
    <2> HIDE DEF f, kinds
    <2>2. f \in Surjection(1 .. 29, ToSet(f))
      <3>1. DOMAIN f = 1 .. 29
        BY <2>1
      <3>2. ToSet(f) = {f[i] : i \in 1 .. 29}
        BY <3>1 DEF ToSet
      <3> QED BY <2>1, <3>1, <3>2 DEF Surjection
    <2>3. IsFiniteSet(1 .. 29)
      <3>1. 1 \in Int /\ 29 \in Int
        OBVIOUS
      <3> QED BY <3>1, FS_Interval
    <2>4. IsFiniteSet(ToSet(f))
      BY <2>2, <2>3, FS_Surjection
    <2> QED BY <2>1, <2>4, FS_Subset DEF kinds
  <1> HIDE DEF R, kinds
  <1>6. Orders(R, T)
    BY <1>3, <1>4 DEF Orders
  <1>7. Sorted(LAMBDA r, s : Rank(r) < Rank(s), T) = Arranged(R, T)
    <2>1. \A x \in T : {y \in T : Rank(y) < Rank(x)} = R[x]
      BY DEF R
    <2>2. \A i \in 1 .. Cardinality(T) :
              (CHOOSE x \in T : Cardinality({y \in T : Rank(y) < Rank(x)}) = i - 1)
                = (CHOOSE x \in T : Cardinality(R[x]) = i - 1)
      BY <2>1
    <2>3. Sorted(LAMBDA r, s : Rank(r) < Rank(s), T)
            = [i \in 1 .. Cardinality(T) |->
                 CHOOSE x \in T : Cardinality({y \in T : Rank(y) < Rank(x)}) = i - 1]
      BY Zenon DEF Sorted
    <2> QED BY <2>2, <2>3 DEF Arranged
  <1> QED BY <1>5, <1>6, <1>7, ArrangedFacts

\* A tile of the map, of what the document says of it.
Ranked(T) == Sorted(LAMBDA r, s : Rank(r) < Rank(s), T)
TileSaid(q) ==
    [col |-> q[1][1], row |-> q[1][2], terrains |-> q[2], resources |-> Ranked(q[3]),
     height |-> q[4]]
Said(t) == <<Cell(t), t.terrains, ToSet(t.resources), t.height>>

\* A tile of the map is determined by what the document says of it.
LEMMA TileSays ==
  ASSUME NEW w, IsTile(w)
  PROVE  /\ TileOf(w) = TileSaid(Said(w)) /\ Said(TileOf(w)) = Said(w)
         /\ Cell(TileOf(w)) = Cell(w)
  <1> DEFINE t == TileOf(w)
             T == ToSet(w.resources)
  <1>1. DOMAIN w = {"col", "row", "terrains", "resources", "height"}
    BY DEF IsTile, Fields
  <1>2. ToSet(Ranked(T)) = T
    BY ResourcesOrder DEF IsTile, Ranked
  <1> HIDE DEF T
  <1>3. t = [w EXCEPT !.resources = Ranked(T)]
    BY DEF TileOf, Ranked, T
  <1>4. t = [col |-> w.col, row |-> w.row, terrains |-> w.terrains, resources |-> Ranked(T),
             height |-> w.height]
    BY <1>1, <1>3
  <1> HIDE DEF t
  <1>5. /\ t.col = w.col /\ t.row = w.row /\ t.terrains = w.terrains
        /\ t.resources = Ranked(T) /\ t.height = w.height
    BY <1>4
  <1>6. Cell(t) = Cell(w)
    BY <1>5 DEF Cell
  <1>7. Said(t) = Said(w)
    BY <1>2, <1>5, <1>6 DEF Said, T
  <1>8. t = TileSaid(Said(w))
    BY <1>4 DEF TileSaid, Said, Cell, T
  <1> QED BY <1>6, <1>7, <1>8 DEF t

\* No two tiles of a document have the same coordinate.
LEMMA CellsOnce ==
  ASSUME NEW w, IsMapDocument(w)
  PROVE  /\ IsList(w.tiles) /\ \A i \in DOMAIN w.tiles : IsTile(w.tiles[i])
         /\ \A i \in DOMAIN w.tiles : w.tiles[i].col \in Int /\ w.tiles[i].row \in Int
         /\ \A i, j \in DOMAIN w.tiles : Cell(w.tiles[i]) = Cell(w.tiles[j]) => i = j
  <1> DEFINE cols == w.cols  rows == w.rows  n == cols * rows
             given == w.tiles
             cells == [i \in 1 .. n |-> Cell(given[i])]
             tiles == Grid(cols, rows)!Tiles
  <1>1. cols \in Nat /\ rows \in Nat
    BY DEF IsMapDocument, MaxCols, MaxRows
  <1>2. n \in Nat
    BY <1>1
  <1>3. /\ IsList(given) /\ DOMAIN given = 1 .. n /\ \A i \in 1 .. n : IsTile(given[i])
        /\ {Cell(given[i]) : i \in 1 .. n} = tiles
    <2>1. Every(IsTile, given) /\ Covers(given, cols, rows)
      BY DEF IsMapDocument
    <2>2. DOMAIN given = 1 .. n /\ \A i \in DOMAIN given : IsTile(given[i])
      BY <2>1 DEF Every, IsList, Covers
    <2>3. ToSet([i \in DOMAIN given |-> Cell(given[i])]) = tiles
      BY <2>1 DEF Covers, Each
    <2>4. IsList(given)
      BY <2>1 DEF Every
    <2> HIDE DEF given, n, tiles
    <2> QED BY <2>2, <2>3, <2>4 DEF ToSet
  <1>4. IsFiniteSet(tiles) /\ Cardinality(tiles) = n
    <2>1. tiles = (0 .. cols - 1) \X (0 .. rows - 1)
      BY DEF Grid!Tiles
    <2>2. \A k \in Nat : IsFiniteSet(0 .. k - 1) /\ Cardinality(0 .. k - 1) = k
      <3> SUFFICES ASSUME NEW k \in Nat
                   PROVE  IsFiniteSet(0 .. k - 1) /\ Cardinality(0 .. k - 1) = k
        OBVIOUS
      <3>1. 0 \in Int /\ k - 1 \in Int /\ (0 > k - 1 => k = 0) /\ k - 1 - 0 + 1 = k
        OBVIOUS
      <3>2. /\ IsFiniteSet(0 .. k - 1)
            /\ Cardinality(0 .. k - 1) = IF 0 > k - 1 THEN 0 ELSE k - 1 - 0 + 1
        BY <3>1, FS_Interval
      <3> QED BY <3>1, <3>2
    <2>3. /\ IsFiniteSet(0 .. cols - 1) /\ Cardinality(0 .. cols - 1) = cols
          /\ IsFiniteSet(0 .. rows - 1) /\ Cardinality(0 .. rows - 1) = rows
      BY <1>1, <2>2
    <2> DEFINE C == 0 .. cols - 1
               R == 0 .. rows - 1
    <2>4. /\ tiles = C \X R
          /\ IsFiniteSet(C) /\ Cardinality(C) = cols
          /\ IsFiniteSet(R) /\ Cardinality(R) = rows
      BY <2>1, <2>3
    <2> HIDE DEF C, R
    <2>5. IsFiniteSet(C \X R) /\ Cardinality(C \X R) = cols * rows
      BY <2>4, CellsCount
    <2> QED BY <2>4, <2>5
  <1>5. IsFiniteSet(1 .. n) /\ Cardinality(1 .. n) = n
    BY <1>2, FS_Interval
  <1> HIDE DEF n, given, tiles
  <1>6. cells \in [1 .. n -> tiles] /\ DOMAIN cells = 1 .. n
    BY <1>3
  <1>7. \A c \in tiles : \E i \in 1 .. n : cells[i] = c
    BY <1>3
  <1>8. \A i \in 1 .. n : cells[i] = Cell(given[i])
    OBVIOUS
  <1> HIDE DEF cells
  <1>9. cells \in Surjection(1 .. n, tiles)
    BY <1>6, <1>7 DEF Surjection
  <1>10. cells \in Injection(1 .. n, tiles)
    BY <1>4, <1>5, <1>9, FS_SurjSameCardinalityImpliesInj
  <1>11. \A i, j \in 1 .. n : Cell(given[i]) = Cell(given[j]) => i = j
    BY <1>6, <1>8, <1>10 DEF Injection, IsInjective
  <1>12. \A i \in 1 .. n : given[i].col \in Int /\ given[i].row \in Int
    BY <1>3 DEF IsTile, SignedNumbers
  <1> QED BY <1>3, <1>11, <1>12 DEF given

\* The map has the tiles of the document and no others.
LEMMA MapTiles ==
  ASSUME NEW w, IsMapDocument(w)
  PROVE  ToSet(MapOf(w).tiles) = {TileOf(t) : t \in ToSet(w.tiles)}
  <1> DEFINE given == w.tiles
             tile == [i \in DOMAIN given |-> TileOf(given[i])]
             T == ToSet(tile)
             key == [t \in T |-> <<t.row, t.col>>]
  <1>1. /\ IsList(given) /\ \A i \in DOMAIN given : IsTile(given[i])
        /\ \A i \in DOMAIN given : given[i].col \in Int /\ given[i].row \in Int
        /\ \A i, j \in DOMAIN given : Cell(given[i]) = Cell(given[j]) => i = j
    BY CellsOnce
  <1>2. MapOf(w).tiles = Sorted(LAMBDA t, u : Before(<<t.row, t.col>>, <<u.row, u.col>>), T)
    BY DEF MapOf, Each
  <1>3. T = {TileOf(t) : t \in ToSet(given)}
    <2> HIDE DEF given
    <2> QED BY DEF ToSet
  <1> HIDE DEF given
  <1>4. \A i \in DOMAIN given : Cell(tile[i]) = Cell(given[i])
    BY <1>1, TileSays
  <1>5. tile = [i \in DOMAIN given |-> tile[i]] /\ DOMAIN tile = DOMAIN given
    OBVIOUS
  <1>6. \A t \in T : \E i \in DOMAIN given : t = tile[i]
    BY DEF ToSet
  <1>7. IsFiniteSet(T)
    <2>1. \A i \in DOMAIN given : tile[i] \in T
      BY DEF ToSet
    <2> HIDE DEF tile
    <2>2. ToSet(tile) \in SortedSets(T)
      BY <1>1, <1>5, <2>1, ElementsAreSet
    <2> QED BY <2>2 DEF SortedSets
  <1>8. \A t \in T : key[t] = <<t.row, t.col>>
    OBVIOUS
  <1> HIDE DEF tile, T
  <1>9. \A t \in T : t.row \in Int /\ t.col \in Int
    BY <1>1, <1>4, <1>6 DEF Cell
  <1>10. \A t \in T : key[t] \in Seq(Int)
    <2>1. \A a, b \in Int : <<a, b>> \in Seq(Int)
      OBVIOUS
    <2> QED BY <1>8, <1>9, <2>1
  <1>11. \A t, u \in T : key[t] = key[u] => t = u
    <2>1. \A t, u \in T : key[t] = key[u] => Cell(t) = Cell(u)
      BY <1>8 DEF Cell
    <2> QED BY <1>1, <1>4, <1>6, <2>1
  <1>12. \A x \in T : {y \in T : Before(<<y.row, y.col>>, <<x.row, x.col>>)}
                         = Preceding(key, T)[x]
    BY <1>8 DEF Preceding
  <1>13. Sorted(LAMBDA t, u : Before(<<t.row, t.col>>, <<u.row, u.col>>), T)
           = [i \in 1 .. Cardinality(T) |->
                CHOOSE x \in T :
                  Cardinality({y \in T : Before(<<y.row, y.col>>, <<x.row, x.col>>)}) = i - 1]
    BY Zenon DEF Sorted
  <1> HIDE DEF key
  <1>14. Orders(Preceding(key, T), T)
    BY <1>10, <1>11, KeysOrder
  <1>15. MapOf(w).tiles = Arranged(Preceding(key, T), T)
    <2>1. \A i \in 1 .. Cardinality(T) :
            (CHOOSE x \in T :
                Cardinality({y \in T : Before(<<y.row, y.col>>, <<x.row, x.col>>)}) = i - 1)
              = (CHOOSE x \in T : Cardinality(Preceding(key, T)[x]) = i - 1)
      BY <1>12
    <2> QED BY <1>2, <1>13, <2>1 DEF Arranged
  <1>16. ToSet(MapOf(w).tiles) = T
    BY <1>7, <1>14, <1>15, ArrangedFacts
  <1> QED BY <1>3, <1>16 DEF given

\* The map has the objectives of the document and no others.
LEMMA MapObjectives ==
  ASSUME NEW w, IsMapDocument(w)
  PROVE  ToSet(MapOf(w).objectives) = ToSet(w.objectives)
  <1> DEFINE given == w.objectives
             T == ToSet(given)
             key == [o \in T |-> o.id]
  <1>1. MapOf(w).objectives = Sorted(LAMBDA o, q : Before(o.id, q.id), T)
    BY DEF MapOf
  <1>2. /\ IsList(given) /\ \A i \in DOMAIN given : IsObjective(given[i])
        /\ \A i, j \in DOMAIN given : given[i].id = given[j].id => i = j
    BY DEF IsMapDocument, Objectives, Every, Distinct
  <1>3. \A o \in T : \E i \in DOMAIN given : o = given[i]
    BY DEF ToSet
  <1>4. IsFiniteSet(T)
    <2> DEFINE f == [i \in DOMAIN given |-> given[i]]
    <2>1. f = [i \in DOMAIN given |-> f[i]] /\ ToSet(f) = T
      BY DEF ToSet
    <2>2. \A i \in DOMAIN given : f[i] \in T
      BY DEF ToSet
    <2> HIDE DEF f, given, T
    <2>3. ToSet(f) \in SortedSets(T)
      BY <1>2, <2>1, <2>2, ElementsAreSet
    <2> QED BY <2>1, <2>3 DEF SortedSets
  <1>5. \A o \in T : key[o] = o.id
    OBVIOUS
  <1> HIDE DEF given, T
  <1>6. \A o \in T : key[o] \in Seq(Int)
    BY <1>2, <1>3, <1>5, TextsAreSequences DEF IsObjective, IsText
  <1>7. \A o, q \in T : key[o] = key[q] => o = q
    BY <1>2, <1>3, <1>5
  <1>8. \A x \in T : {y \in T : Before(y.id, x.id)} = Preceding(key, T)[x]
    BY <1>5 DEF Preceding
  <1>9. Sorted(LAMBDA o, q : Before(o.id, q.id), T)
          = [i \in 1 .. Cardinality(T) |->
               CHOOSE x \in T : Cardinality({y \in T : Before(y.id, x.id)}) = i - 1]
    BY Zenon DEF Sorted
  <1> HIDE DEF key
  <1>10. Orders(Preceding(key, T), T)
    BY <1>6, <1>7, KeysOrder
  <1>11. MapOf(w).objectives = Arranged(Preceding(key, T), T)
    <2>1. \A i \in 1 .. Cardinality(T) :
            (CHOOSE x \in T : Cardinality({y \in T : Before(y.id, x.id)}) = i - 1)
              = (CHOOSE x \in T : Cardinality(Preceding(key, T)[x]) = i - 1)
      BY <1>8
    <2> QED BY <1>1, <1>9, <2>1 DEF Arranged
  <1>12. ToSet(MapOf(w).objectives) = T
    BY <1>4, <1>10, <1>11, ArrangedFacts
  <1> QED BY <1>12 DEF T, given

\* The description of a map.
MapSaid(map) == Described(Merge([mapName |-> map.mapId], map))

\* The map says what its document says.
LEMMA MapIsDescribed ==
  ASSUME NEW w, IsMapDocument(w)
  PROVE  MapSaid(MapOf(w)) = Described(w)
  <1> DEFINE map == MapOf(w)
             r == [mapName |-> map.mapId]
             d == Merge(r, map)
  <1>1. /\ map.mapId = w.mapName /\ map.cols = w.cols /\ map.rows = w.rows
        /\ DOMAIN map = {"mapId", "cols", "rows", "tiles", "objectives"}
    BY DEF MapOf
  <1>2. ToSet(map.tiles) = {TileOf(t) : t \in ToSet(w.tiles)}
    BY MapTiles
  <1>3. ToSet(map.objectives) = ToSet(w.objectives)
    BY MapObjectives
  <1> HIDE DEF map
  <1>4. DOMAIN r = {"mapName"} /\ r.mapName = map.mapId
    OBVIOUS
  <1> HIDE DEF r
  <1>5. /\ d.mapName = map.mapId /\ d.cols = map.cols /\ d.rows = map.rows
        /\ d.tiles = map.tiles /\ d.objectives = map.objectives
    <2>1. "mapName" \in DOMAIN r
          /\ {"cols", "rows", "tiles", "objectives"} \subseteq DOMAIN map \ DOMAIN r
      BY <1>1, <1>4
    <2>2. d["mapName"] = r["mapName"]
      BY <2>1, Merged
    <2>3. \A f \in {"cols", "rows", "tiles", "objectives"} : d[f] = map[f]
      BY <2>1, Merged
    <2> QED BY <1>4, <2>2, <2>3
  <1> HIDE DEF d
  <1>6. {Said(t) : t \in ToSet(d.tiles)} = {Said(t) : t \in ToSet(w.tiles)}
    <2>1. \A t \in ToSet(w.tiles) : IsTile(t)
      BY CellsOnce DEF ToSet
    <2>2. \A t \in ToSet(w.tiles) : Said(TileOf(t)) = Said(t)
      BY <2>1, TileSays
    <2> QED BY <1>2, <1>5, <2>2
  <1>7. \A v : Described(v) =
            [name |-> v.mapName, cols |-> v.cols, rows |-> v.rows,
             objectives |-> ToSet(v.objectives), tiles |-> {Said(t) : t \in ToSet(v.tiles)}]
    BY DEF Described, Said
  <1>8. Described(d) = Described(w)
    BY <1>1, <1>3, <1>5, <1>6, <1>7
  <1> QED BY <1>8 DEF MapSaid, d, r, map

\* A map is determined by its description.
LEMMA DescriptionsAreMaps ==
  ASSUME NEW w, IsMapDocument(w), NEW v, IsMapDocument(v)
  PROVE  MapOf(w) = MapOf(v) <=> Described(w) = Described(v)
  <1>1. MapOf(w) = MapOf(v) => Described(w) = Described(v)
    <2>1. Described(w) = MapSaid(MapOf(w)) /\ Described(v) = MapSaid(MapOf(v))
      BY MapIsDescribed
    <2> QED BY <2>1
  <1>2. ASSUME Described(w) = Described(v) PROVE MapOf(w) = MapOf(v)
    <2>1. \A u : /\ Described(u).name = u.mapName /\ Described(u).cols = u.cols
                 /\ Described(u).rows = u.rows /\ Described(u).objectives = ToSet(u.objectives)
                 /\ Described(u).tiles = {Said(t) : t \in ToSet(u.tiles)}
      BY DEF Described, Said
    <2>2. /\ w.mapName = v.mapName /\ w.cols = v.cols /\ w.rows = v.rows
          /\ ToSet(w.objectives) = ToSet(v.objectives)
          /\ {Said(t) : t \in ToSet(w.tiles)} = {Said(t) : t \in ToSet(v.tiles)}
      BY <1>2, <2>1
    <2>3. ASSUME NEW u, IsMapDocument(u)
          PROVE  ToSet(Each(TileOf, u.tiles))
                    = {TileSaid(q) : q \in {Said(t) : t \in ToSet(u.tiles)}}
      <3>1. \A t \in ToSet(u.tiles) : TileOf(t) = TileSaid(Said(t))
        BY <2>3, CellsOnce, TileSays DEF ToSet
      <3>2. ToSet(Each(TileOf, u.tiles)) = {TileOf(t) : t \in ToSet(u.tiles)}
        BY DEF Each, ToSet
      <3> QED BY <3>1, <3>2
    <2>4. ToSet(Each(TileOf, w.tiles)) = ToSet(Each(TileOf, v.tiles))
      BY <2>2, <2>3
    <2> QED BY <2>2, <2>4, Zenon DEF MapOf
  <1> QED BY <1>1, <1>2

-----------------------------------------------------------------------------
(* Sessions that can be exported, and their files.                         *)

\* The limits of a document leave room for as many units as a scenario may
\* have, and for what a unit of each kind may move.
FilesFitScenarios ==
    /\ MaxUnits \in Nat /\ MaxScenarioUnits <= MaxUnits
    /\ \A k \in DOMAIN Allowances : Allowances[k] <= MaxBalance

LEMMA StartsWithinLimits ==
  ASSUME NullIsNoDocument, FilesFitScenarios, NEW s, NEW map,
         IsScenario(s, map, StandardRules),
         NEW g, g = Bootstrap(ScenarioOf(s, map, StandardRules), map, StandardRules),
         g \in State
  PROVE  WithinLimits(EncodeState(g))
  <1> DEFINE d == EncodeState(g)
             given == s.initialUnits
             kind(i) == Valued(UnitKinds, given[i].kind)
  <1>1. Every(IsScenarioUnit, given) /\ Len(given) <= MaxUnits
    <2>1. Every(IsScenarioUnit, given) /\ Len(given) <= MaxScenarioUnits
      BY DEF IsScenario
    <2>2. Len(given) \in Nat /\ MaxScenarioUnits \in Nat
      BY <2>1 DEF Every, IsList, Lengths, MaxScenarioUnits
    <2> QED BY <2>1, <2>2 DEF FilesFitScenarios
  <1>2. /\ IsList(given) /\ \A i \in DOMAIN given : kind(i) \in 0 .. 16
    BY <1>1, EnumerationTyping DEF Every, IsScenarioUnit
  <1>3. /\ g.units = [i \in DOMAIN given |-> InitialUnit(given[i], StandardRules)]
        /\ g.pending = None
    BY DEF Bootstrap, ScenarioOf, Each
  <1>4. /\ d.units = [i \in DOMAIN g.units |-> EncodeUnit(g.units[i])]
        /\ Get(d.interaction, "pending") = Optionally(EncodePending, g.pending)
    BY DEF EncodeState, Each, Get
  <1>5. Absent(d.interaction, "pending")
    BY <1>3, <1>4 DEF Absent, Optionally
  <1>6. Every(IsUnit, d.units)
    <2>1. IsStateDocument(d)
      BY StateEncoding
    <2> QED BY <2>1 DEF IsStateDocument
  <1> HIDE DEF d
  <1>7. DOMAIN d.units = DOMAIN given /\ Len(d.units) = Len(given)
    <2>1. DOMAIN d.units = DOMAIN given
      BY <1>3, <1>4
    <2>2. IsList(d.units)
      BY <1>6 DEF Every
    <2>3. \A m, n \in Nat : 1 .. m = 1 .. n => m = n
      OBVIOUS
    <2> QED BY <1>2, <2>1, <2>2, <2>3 DEF IsList, Lengths
  <1>8. ASSUME NEW i \in DOMAIN given PROVE UnitWithinLimits(d.units[i])
    <2> DEFINE u == InitialUnit(given[i], StandardRules)
               e == EncodeUnit(u)
    <2>1. d.units[i] = e
      BY <1>3, <1>4
    <2>2. /\ u.movement = Allowances[kind(i) + 1] /\ u.queued = None /\ u.merchant = None
      BY DEF InitialUnit, StandardRules
    <2>3. kind(i) + 1 \in DOMAIN Allowances
      <3>1. DOMAIN Allowances = 1 .. 17
        BY DEF Allowances, Each
      <3> QED BY <1>2, <3>1
    <2>4. u.movement <= MaxBalance
      BY <2>2, <2>3 DEF FilesFitScenarios
    <2>5. /\ e.movementUnits = u.movement
          /\ Get(e, "queuedPath") = Optionally(EncodePath, u.queued)
          /\ Get(e, "merchantTradeRoute") = Optionally(EncodeMerchant, u.merchant)
      BY DEF EncodeUnit, Get
    <2> HIDE DEF u, e
    <2>6. Absent(e, "queuedPath") /\ Absent(e, "merchantTradeRoute")
      BY <2>2, <2>5 DEF Absent, Optionally
    <2>7. e.movementUnits <= MaxBalance
      BY <2>4, <2>5
    <2>8. UnitWithinLimits(e)
      BY <2>6, <2>7 DEF UnitWithinLimits, Opt
    <2> QED BY <2>1, <2>8
  <1>9. Every(UnitWithinLimits, d.units)
    BY <1>6, <1>7, <1>8 DEF Every
  <1>10. WithinLimits(d)
    BY <1>1, <1>5, <1>7, <1>9 DEF WithinLimits, Opt
  <1> QED BY <1>10 DEF d

\* ScenarioDefinition::bootstrap, export_save_json and open_save_json: whatever
\* scenario a session was opened from, its first state is one that a file can
\* hold, and is read back as it was.  In the engine both limits of units are
\* 4096 and no unit has more than the 14 half points of movement.
THEOREM ScenariosCanBeSaved ==
  ASSUME NullIsNoDocument, FilesFitScenarios, NEW w, IsMapDocument(w),
         NEW s, IsScenario(s, MapOf(w), StandardRules),
         Bootstraps(ScenarioOf(s, MapOf(w), StandardRules), MapOf(w), StandardRules)
  PROVE  LET g == Bootstrap(ScenarioOf(s, MapOf(w), StandardRules), MapOf(w), StandardRules)
         IN  Decodable(EncodeState(g)) /\ DecodeState(EncodeState(g)) = g
  <1> DEFINE map == MapOf(w)
             g == Bootstrap(ScenarioOf(s, map, StandardRules), map, StandardRules)
  <1>1. g \in State /\ ValidState(g)
    BY ScenarioStarts
  <1> HIDE DEF map
  <1>2. WithinLimits(EncodeState(g))
    BY <1>1, StartsWithinLimits DEF map
  <1> HIDE DEF g
  <1>3. Decodable(EncodeState(g)) /\ DecodeState(EncodeState(g)) = g
    BY <1>1, <1>2, EncodedDecodes
  <1> QED BY <1>3 DEF g, map

\* A session as a host opens it, of a scenario or of a state.
Fresh(s) ==
    \E w \in MapDocuments, g \in State, actor \in Ids :
        /\ IsMapDocument(w) /\ ValidState(g) /\ Prepared(MapOf(w), StandardRules, g)
        /\ s = Start(MapOf(w), StandardRules, g, actor, Zero, 0)

\* The identity of the ruleset and the state of the generator are well formed.
LEMMA RulesetIsText == IsText(StandardRules.rulesetId)
  <1> DEFINE t == <<97, 111, 110, 119, 45, 115, 116, 97, 110, 100, 97, 114, 100>>
  <1>1. StandardRules.rulesetId = t
    BY DEF StandardRules
  <1>2. t \in Seq(0 .. 255)
    OBVIOUS
  <1>3. Len(t) = 13
    OBVIOUS
  <1>4. 13 \in Lengths
    BY DEF Lengths
  <1> HIDE DEF t
  <1> QED BY <1>1, <1>2, <1>3, <1>4 DEF IsText, Texts, ListsOf, Byte

LEMMA ZeroIsRng == IsRng(Zero) /\ 0 \in LongNumbers
  <1>1. 0 \in LongNumbers
    BY NumberTyping
  <1> QED BY <1>1 DEF IsRng, Zero, Fields

\* The header of an export has the identity of the content, and its shape.
LEMMA HeaderIsHeader ==
  ASSUME NEW s, Fresh(s), NEW q, DOMAIN q \cap HeaderFields = {}
  PROVE  LET e == Merge(Header(s), q)
         IN  /\ DOMAIN e = HeaderFields \cup DOMAIN q
             /\ DOMAIN Header(s) = HeaderFields
             /\ IsHeader(e)
             /\ e.schemaVersion = SaveVersion /\ e.behaviorVersion = BehaviorVersion
             /\ e.mapId = s.map.mapId /\ e.mapHash = MapHash(s.map)
             /\ e.rulesetId = s.rules.rulesetId
             /\ e.rulesetHash = RulesetHash(s.rules) /\ e.actorPlayerId = s.actor
  <1> DEFINE h == Header(s)
             e == Merge(h, q)
  <1>1. PICK w \in MapDocuments, g \in State, actor \in Ids :
           IsMapDocument(w) /\ s = Start(MapOf(w), StandardRules, g, actor, Zero, 0)
    BY DEF Fresh
  <1>2. /\ DOMAIN h = HeaderFields
        /\ h.schemaVersion = SaveVersion /\ h.behaviorVersion = BehaviorVersion
        /\ h.mapId = s.map.mapId /\ h.mapHash = MapHash(s.map)
        /\ h.rulesetId = s.rules.rulesetId
        /\ h.rulesetHash = RulesetHash(s.rules) /\ h.actorPlayerId = s.actor
    BY DEF Header, HeaderFields
  <1> HIDE DEF h, e
  <1>3. DOMAIN e = HeaderFields \cup DOMAIN q
    BY <1>2, Merged DEF e
  <1>4. \A f \in HeaderFields : e[f] = h[f]
    BY <1>2, Merged DEF e
  <1>6. /\ e.schemaVersion = SaveVersion /\ e.behaviorVersion = BehaviorVersion
        /\ e.mapId = s.map.mapId /\ e.mapHash = MapHash(s.map)
        /\ e.rulesetId = s.rules.rulesetId
        /\ e.rulesetHash = RulesetHash(s.rules) /\ e.actorPlayerId = s.actor
    <2>1. {"schemaVersion", "behaviorVersion", "mapId", "mapHash", "rulesetId",
           "rulesetHash", "actorPlayerId"} = HeaderFields
      BY DEF HeaderFields
    <2> QED BY <1>2, <1>4, <2>1
  <1>7. IsText(s.map.mapId) /\ IsText(s.rules.rulesetId) /\ IsText(s.actor)
    <2>1. s.map.mapId = w.mapName /\ s.rules = StandardRules /\ s.actor = actor
      BY <1>1 DEF Start, MapOf
    <2>2. IsText(w.mapName) /\ IsText(actor)
      BY <1>1 DEF IsMapDocument, IsText, Ids
    <2> QED BY <2>1, <2>2, RulesetIsText
  <1>8. SaveVersion \in ShortNumbers /\ BehaviorVersion \in ShortNumbers
    BY DEF SaveVersion, BehaviorVersion, ShortNumbers
  <1>9. IsHeader(e)
    BY <1>6, <1>7, <1>8 DEF IsHeader
  <1> QED BY <1>2, <1>3, <1>6, <1>9, Zenon DEF e, h

\* An export has the shape of a save, or of a replay, and not of the other.
LEMMA ExportsAreFiles ==
  ASSUME NullIsNoDocument, NEW s, Fresh(s)
  PROVE  /\ IsSave(SaveOf(s)) /\ ~ IsReplay(SaveOf(s))
         /\ SaveOf(s).state = EncodeState(s.state)
         /\ SaveOf(s).stateDigest = Digest(s.state)
         /\ IsReplay(ReplayOf(s)) /\ ~ IsSave(ReplayOf(s))
         /\ ReplayOf(s).initialState = EncodeState(s.state)
         /\ ReplayOf(s).initialStateDigest = Digest(s.state)
         /\ "state" \in DOMAIN SaveOf(s) /\ "state" \notin DOMAIN ReplayOf(s)
  <1> DEFINE d == EncodeState(s.state)
             n == Digest(s.state)
             p == [rngState |-> s.rng, eventOffset |-> s.offset, stateDigest |-> n,
                   state |-> d]
             r == [initialRngState |-> s.rng, initialEventOffset |-> s.offset,
                   initialStateDigest |-> n, initialState |-> d, entries |-> <<>>]
             a == SaveOf(s)
             b == ReplayOf(s)
  <1>1. a = Merge(Header(s), p) /\ b = Merge(Header(s), r)
    BY DEF SaveOf, ReplayOf
  <1>2. s.state \in State /\ s.rng = Zero /\ s.offset = 0
    BY DEF Fresh, Start
  <1>3. IsStateDocument(d)
    BY <1>2, StateEncoding
  <1> HIDE DEF a, b, d, n
  <1>4. /\ DOMAIN p = {"rngState", "eventOffset", "stateDigest", "state"}
        /\ p.rngState = Zero /\ p.eventOffset = 0 /\ p.stateDigest = n /\ p.state = d
    BY <1>2
  <1>5. /\ DOMAIN r = {"initialRngState", "initialEventOffset", "initialStateDigest",
                       "initialState", "entries"}
        /\ r.initialRngState = Zero /\ r.initialEventOffset = 0
        /\ r.initialStateDigest = n /\ r.initialState = d
    BY <1>2
  <1> HIDE DEF p, r
  <1>6. DOMAIN p \cap HeaderFields = {} /\ DOMAIN r \cap HeaderFields = {}
    BY <1>4, <1>5 DEF HeaderFields
  <1>7. DOMAIN a = HeaderFields \cup DOMAIN p /\ IsHeader(a)
        /\ \A f \in DOMAIN p : a[f] = p[f]
    <2>1. /\ DOMAIN a = HeaderFields \cup DOMAIN p /\ IsHeader(a)
          /\ DOMAIN Header(s) = HeaderFields
      BY <1>1, <1>6, HeaderIsHeader, Zenon
    <2>2. \A f \in DOMAIN p : f \in DOMAIN p \ DOMAIN Header(s)
      BY <1>6, <2>1
    <2> QED BY <1>1, <2>1, <2>2, Merged
  <1>8. DOMAIN b = HeaderFields \cup DOMAIN r /\ IsHeader(b)
        /\ \A f \in DOMAIN r : b[f] = r[f]
    <2>1. /\ DOMAIN b = HeaderFields \cup DOMAIN r /\ IsHeader(b)
          /\ DOMAIN Header(s) = HeaderFields
      BY <1>1, <1>6, HeaderIsHeader, Zenon
    <2>2. \A f \in DOMAIN r : f \in DOMAIN r \ DOMAIN Header(s)
      BY <1>6, <2>1
    <2> QED BY <1>1, <2>1, <2>2, Merged
  <1>9. a.rngState = Zero /\ a.eventOffset = 0 /\ a.stateDigest = n /\ a.state = d
    BY <1>4, <1>7
  <1>10. /\ b.initialRngState = Zero /\ b.initialEventOffset = 0
         /\ b.initialStateDigest = n /\ b.initialState = d
    BY <1>5, <1>8
  <1>11. IsSave(a)
    BY <1>3, <1>4, <1>7, <1>9, ZeroIsRng DEF IsSave, Fields
  <1>12. IsReplay(b)
    BY <1>3, <1>5, <1>8, <1>10, ZeroIsRng DEF IsReplay, Fields
  <1>13. "state" \notin DOMAIN b /\ "initialState" \notin DOMAIN a /\ "state" \in DOMAIN a
    BY <1>4, <1>5, <1>7, <1>8 DEF HeaderFields
  <1>14. ~ IsSave(b) /\ ~ IsReplay(a)
    BY <1>13 DEF IsSave, IsReplay, Fields
  <1> QED BY <1>9, <1>10, <1>11, <1>12, <1>13, <1>14 DEF a, b, d, n

\* An untouched file can be restored against the session's map alone, if its
\* state is within the limits.
LEMMA ExportsRestore ==
  ASSUME NullIsNoDocument, NEW s, Fresh(s), NEW w \in {SaveOf(s), ReplayOf(s)}, NEW map
  PROVE  Restore(w, EncodeState(s.state), Digest(s.state), map, s.rules) = "opened"
            <=> map = s.map /\ WithinLimits(EncodeState(s.state))
  <1> DEFINE d == EncodeState(s.state)
             n == Digest(s.state)
  <1>1. PICK v \in MapDocuments, g \in State, actor \in Ids :
           /\ IsMapDocument(v) /\ ValidState(g)
           /\ Prepared(MapOf(v), StandardRules, g)
           /\ s = Start(MapOf(v), StandardRules, g, actor, Zero, 0)
    BY DEF Fresh
  <1>2. /\ s.state = g /\ s.map = MapOf(v) /\ s.rules = StandardRules /\ s.actor = actor
    BY <1>1 DEF Start
  <1>3. /\ WithinLimits(d) => Decodable(d)
        /\ DecodeState(d) = s.state
    BY <1>1, <1>2, EncodedDecodes, StateEncoding
  <1>4. Prepared(s.map, s.rules, s.state) /\ IsIdentifier(s.actor)
    BY <1>1, <1>2 DEF Ids
  <1>5. /\ w.schemaVersion = SaveVersion /\ w.behaviorVersion = BehaviorVersion
        /\ w.mapId = s.map.mapId /\ w.mapHash = MapHash(s.map)
        /\ w.rulesetId = s.rules.rulesetId
        /\ w.rulesetHash = RulesetHash(s.rules) /\ w.actorPlayerId = s.actor
    <2> DEFINE p == [rngState |-> s.rng, eventOffset |-> s.offset, stateDigest |-> n,
                     state |-> d]
               r == [initialRngState |-> s.rng, initialEventOffset |-> s.offset,
                     initialStateDigest |-> n, initialState |-> d, entries |-> <<>>]
    <2>1. SaveOf(s) = Merge(Header(s), p) /\ ReplayOf(s) = Merge(Header(s), r)
      BY DEF SaveOf, ReplayOf
    <2>2. DOMAIN p \cap HeaderFields = {} /\ DOMAIN r \cap HeaderFields = {}
      BY DEF HeaderFields
    <2> HIDE DEF p, r
    <2>3. PICK q : w = Merge(Header(s), q) /\ DOMAIN q \cap HeaderFields = {}
      BY <2>1, <2>2
    <2>4. /\ Merge(Header(s), q).schemaVersion = SaveVersion
          /\ Merge(Header(s), q).behaviorVersion = BehaviorVersion
          /\ Merge(Header(s), q).mapId = s.map.mapId
          /\ Merge(Header(s), q).mapHash = MapHash(s.map)
          /\ Merge(Header(s), q).rulesetId = s.rules.rulesetId
          /\ Merge(Header(s), q).rulesetHash = RulesetHash(s.rules)
          /\ Merge(Header(s), q).actorPlayerId = s.actor
      BY <2>3, HeaderIsHeader
    <2> QED BY <2>3, <2>4
  <1> HIDE DEF d, n
  <1>6. ASSUME map = s.map, WithinLimits(d)
        PROVE  Restore(w, d, n, map, s.rules) = "opened"
    <2>1. Mismatch(w, map, s.rules) = None
      BY <1>5, <1>6 DEF Mismatch
    <2> QED BY <1>3, <1>4, <1>5, <1>6, <2>1 DEF Restore, n
  <1>7. ASSUME Restore(w, d, n, map, s.rules) = "opened"
        PROVE  map = s.map /\ WithinLimits(d)
    <2>1. w.mapHash = MapHash(map) /\ Decodable(d)
      BY <1>7, Restored
    <2>2. map = s.map
      BY <1>5, <2>1 DEF MapHash
    <2>3. WithinLimits(d)
      BY <2>1 DEF Decodable
    <2> QED BY <2>2, <2>3
  <1> QED BY <1>6, <1>7 DEF d, n

\* The session of an export was fresh, and a file without changes is that
\* export.
ExportInvariant ==
    /\ edits \in Nat
    /\ session # None /\ (file = None \/ verdict = None) => Fresh(session)
    /\ file # None =>
          /\ Fresh(saved.session)
          /\ saved.file \in {SaveOf(saved.session), ReplayOf(saved.session)}
          /\ edits = 0 => file = saved.file

LEMMA ExportsAreFresh == ASSUME NullIsNoDocument PROVE Spec => []ExportInvariant
  <1>1. Init => ExportInvariant
    BY DEF Init, ExportInvariant
  <1>2. ExportInvariant /\ [Next]_vars => ExportInvariant'
    <2> SUFFICES ASSUME ExportInvariant, [Next]_vars PROVE ExportInvariant'
      OBVIOUS
    <2>1. \A a \in Actors : a \in Ids
      BY HostAssumption DEF IsText, Ids
    <2>2. CASE OpenScenario
      <3>1. PICK w \in MapDocuments, s \in ScenarioDocuments, actor \in Actors :
               /\ IsMapDocument(w) /\ IsScenario(s, MapOf(w), StandardRules)
               /\ Bootstraps(ScenarioOf(s, MapOf(w), StandardRules), MapOf(w), StandardRules)
               /\ session' = Start(MapOf(w), StandardRules,
                                   Bootstrap(ScenarioOf(s, MapOf(w), StandardRules), MapOf(w),
                                             StandardRules),
                                   actor, Zero, 0)
               /\ file = None /\ file' = None /\ edits' = edits
        BY <2>2 DEF OpenScenario
      <3> DEFINE g == Bootstrap(ScenarioOf(s, MapOf(w), StandardRules), MapOf(w),
                                StandardRules)
      <3>2. g \in State /\ ValidState(g) /\ Prepared(MapOf(w), StandardRules, g)
        BY <3>1, ScenarioStarts
      <3>3. session' = Start(MapOf(w), StandardRules, g, actor, Zero, 0)
        BY <3>1
      <3> HIDE DEF g
      <3>4. Fresh(session')
        BY <2>1, <3>1, <3>2, <3>3 DEF Fresh
      <3> QED BY <3>1, <3>4 DEF ExportInvariant
    <2>3. CASE OpenState
      <3>1. PICK w \in MapDocuments, game \in Games, actor \in Actors :
               /\ IsMapDocument(w) /\ Prepared(MapOf(w), StandardRules, game)
               /\ session' = Start(MapOf(w), StandardRules, game, actor, Zero, 0)
               /\ file = None /\ file' = None /\ edits' = edits
        BY <2>3 DEF OpenState
      <3>2. game \in State /\ ValidState(game)
        BY HostAssumption
      <3>3. Fresh(session')
        BY <2>1, <3>1, <3>2 DEF Fresh
      <3> QED BY <3>1, <3>3 DEF ExportInvariant
    <2>4. ASSUME NEW document \in {SaveOf(session), ReplayOf(session)}, Export(document)
          PROVE  ExportInvariant'
      <3>1. /\ session # None /\ file = None /\ edits' = 0 /\ file' = document
            /\ saved' = [session |-> session, file |-> document] /\ session' = session
        BY <2>4 DEF Export
      <3>2. Fresh(session)
        BY <3>1 DEF ExportInvariant
      <3>3. saved'.session = session /\ saved'.file = document
        BY <3>1
      <3>4. Fresh(session') /\ Fresh(saved'.session)
        BY <3>1, <3>2, <3>3
      <3>5. saved'.file \in {SaveOf(saved'.session), ReplayOf(saved'.session)}
        BY <2>4, <3>3
      <3>6. edits' \in Nat /\ file' = saved'.file
        BY <3>1, <3>3
      <3> QED BY <3>4, <3>5, <3>6, Zenon DEF ExportInvariant
    <2>5. CASE ExportSave \/ ExportReplay
      BY <2>4, <2>5 DEF ExportSave, ExportReplay
    <2>6. CASE Alter
      <3>1. /\ file # None /\ edits' = edits + 1 /\ session' = session /\ saved' = saved
            /\ verdict = None
        BY <2>6 DEF Alter
      <3>2. edits' \in Nat /\ edits' # 0
        BY <3>1 DEF ExportInvariant
      <3> QED BY <3>1, <3>2 DEF ExportInvariant
    <2>7. CASE OpenSave
      <3>1. PICK w \in MapDocuments :
               /\ file # None /\ verdict = None
               /\ verdict' = SaveVerdict(file, MapOf(w), StandardRules)
               /\ verdict' # "opened" => session' = session
               /\ file' = file /\ edits' = edits /\ saved' = saved
        BY <2>7, Zenon DEF OpenSave
      <3>2. verdict' # "opened" \/ verdict' # None
        BY VerdictAssumption DEF Verdicts
      <3>3. CASE verdict' = "opened"
        BY <3>1, <3>2, <3>3 DEF ExportInvariant
      <3>4. CASE verdict' # "opened"
        BY <3>1, <3>4 DEF ExportInvariant
      <3> QED BY <3>3, <3>4
    <2>8. CASE VerifyReplay \/ UNCHANGED vars
      <3>1. /\ session' = session /\ file' = file /\ edits' = edits /\ saved' = saved
            /\ verdict' = None => file = None \/ verdict = None
        BY <2>8, Zenon DEF VerifyReplay, vars
      <3> QED BY <3>1 DEF ExportInvariant
    <2> QED BY <2>2, <2>3, <2>5, <2>6, <2>7, <2>8 DEF Next
  <1> QED BY <1>1, <1>2, PTL DEF Spec

\* LocalRuntime::export_save_json and open_save_json, the replay header, and
\* StateMapping in both directions: a file that nobody touched decodes to the
\* session's own state, and opens against exactly the map documents that say
\* what the session's map says, if the state is within the limits that
\* decode_game_state has and an export does not ask about.
THEOREM ExportsAreOpen == ASSUME NullIsNoDocument PROVE Spec => []ExportsOpen
  <1>1. ExportInvariant => ExportsOpen
    <2> SUFFICES ASSUME ExportInvariant, file # None, edits = 0, verdict = None
                 PROVE  LET s == saved.session
                        IN  /\ DecodeState(Document(file)) = s.state
                            /\ \A w \in MapDocuments : IsMapDocument(w) =>
                                  ("opened" \in {SaveVerdict(file, MapOf(w), s.rules),
                                                 ReplayVerdict(file, MapOf(w), s.rules)}
                                      <=> /\ WithinLimits(EncodeState(s.state))
                                          /\ Described(w) = MapSaid(s.map))
      BY DEF ExportsOpen, MapSaid
    <2> DEFINE s == saved.session
               d == EncodeState(s.state)
               n == Digest(s.state)
    <2>1. Fresh(s) /\ file \in {SaveOf(s), ReplayOf(s)}
      BY DEF ExportInvariant
    <2>2. PICK v \in MapDocuments, g \in State, actor \in Ids :
             /\ IsMapDocument(v) /\ ValidState(g)
             /\ s = Start(MapOf(v), StandardRules, g, actor, Zero, 0)
      BY <2>1 DEF Fresh
    <2>3. s.map = MapOf(v) /\ s.rules = StandardRules /\ s.state = g
      BY <2>2 DEF Start
    <2> HIDE DEF s
    <2>4. DecodeState(d) = s.state
      BY <2>2, <2>3, StateEncoding
    <2> HIDE DEF d, n
    <2>5. Document(file) = d
      <3>1. CASE file = SaveOf(s)
        BY <2>1, <3>1, ExportsAreFiles DEF Document, d
      <3>2. CASE file = ReplayOf(s)
        BY <2>1, <3>2, ExportsAreFiles DEF Document, d
      <3> QED BY <2>1, <3>1, <3>2
    <2>6. \A map : "opened" \in {SaveVerdict(file, map, s.rules),
                                 ReplayVerdict(file, map, s.rules)}
                      <=> Restore(file, d, n, map, s.rules) = "opened"
      <3>1. CASE file = SaveOf(s)
        <4>1. /\ IsSave(file) /\ ~ IsReplay(file) /\ file.state = d /\ file.stateDigest = n
          BY <2>1, <3>1, ExportsAreFiles DEF d, n
        <4> QED BY <4>1 DEF SaveVerdict, ReplayVerdict
      <3>2. CASE file = ReplayOf(s)
        <4>1. /\ IsReplay(file) /\ ~ IsSave(file)
              /\ file.initialState = d /\ file.initialStateDigest = n
          BY <2>1, <3>2, ExportsAreFiles DEF d, n
        <4> QED BY <4>1 DEF SaveVerdict, ReplayVerdict
      <3> QED BY <2>1, <3>1, <3>2
    <2>7. \A map : Restore(file, d, n, map, s.rules) = "opened"
                      <=> map = s.map /\ WithinLimits(d)
      BY <2>1, ExportsRestore DEF d, n
    <2>8. ASSUME NEW w \in MapDocuments, IsMapDocument(w)
          PROVE  MapOf(w) = s.map <=> Described(w) = MapSaid(s.map)
      <3>1. MapSaid(s.map) = Described(v)
        BY <2>2, <2>3, MapIsDescribed
      <3> QED BY <2>2, <2>3, <2>8, <3>1, DescriptionsAreMaps
    <2> QED BY <2>4, <2>5, <2>6, <2>7, <2>8 DEF s, d
  <1> QED BY <1>1, ExportsAreFresh, PTL
=============================================================================
