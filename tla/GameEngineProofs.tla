-------------------------- MODULE GameEngineProofs --------------------------
(***************************************************************************)
(* For every world: the engine's game stays well typed, and no command it  *)
(* accepts builds an aggregate that the constructor refuses.               *)
(*                                                                         *)
(* Plans can be applied and agree with the overlay, queries tell nothing   *)
(* of what is hidden, moves walk free tiles, and knowledge is kept.        *)
(*                                                                         *)
(* The inductive invariant is the conjunction of the type invariant, the   *)
(* validity of the aggregate and the absence of a fault.  That commands    *)
(* keep a game valid is shown in CommandProofs.                            *)
(*                                                                         *)
(* Then, of TurnLedger: a turn's accounts balance.  The commands of one    *)
(* turn never let a unit spend movement that it was not granted, and a     *)
(* move that hidden occupancy stops costs nothing.                         *)
(***************************************************************************)
EXTENDS GameProperties, TurnLedger, CommandProofs

-----------------------------------------------------------------------------
(* The next-state relation, and the theorems.                              *)

IInv == TypeOK /\ ValidGame(game) /\ ~fault

LEMMA InitEstablishes == Init => IInv
  BY InitialGamesAssumption, NoEvidenceTyping DEF Init, IInv, TypeOK

\* A sound candidate is settled on, and without a fault.
LEMMA SettlePreserves ==
  ASSUME IInv, NEW candidate, Sound(candidate),
         NEW evidence \in Evidence, Settle(candidate, evidence)
  PROVE  IInv'
  BY DEF IInv, TypeOK, Sound, Settle

LEMMA MovePreserves ==
  ASSUME IInv, NEW actor, NEW u, NEW target, NEW expected,
         Move(actor, u, target, expected)
  PROVE  IInv'
  <1> DEFINE plan == Plan(game, actor, u, target, expected)
  <1>1. Sound(game)
    BY DEF IInv, TypeOK, Sound
  <1>2. CASE UNCHANGED vars
    BY <1>2 DEF IInv, TypeOK, vars, ValidGame
  <1>3. CASE ~UNCHANGED vars
    <2>1. plan.refusal = "" /\ game.revision # MaxRevision
      BY <1>3 DEF Move
    <2>2. u \in Units /\ plan.routes = PlannedRoutes(game, u, target)
      BY <2>1, AcceptedPlan
    <2> HIDE DEF plan
    <2>3. PICK route \in PlannedRoutes(game, u, target) :
             \E k \in ReachedIndex(route, Available(game, u)) :
                /\ Queueable(game, u, route, k)
                /\ Settle(AfterMove(game, u, MovedUnit(game, u, route, k)),
                          MoveEvidence(game, u, route, k))
      BY <1>3, <2>1, <2>2 DEF Move, plan
    <2>4. PICK k \in ReachedIndex(route, Available(game, u)) :
             /\ Queueable(game, u, route, k)
             /\ Settle(AfterMove(game, u, MovedUnit(game, u, route, k)),
                       MoveEvidence(game, u, route, k))
      BY <2>3
    <2>5. game.revision < MaxRevision
      BY <2>1, RevisionTyping DEF IInv, TypeOK
    <2>6. Sound(AfterMove(game, u, MovedUnit(game, u, route, k)))
      BY <1>1, <2>2, <2>4, <2>5, MoveSound
    <2>7. MoveEvidence(game, u, route, k) \in Evidence
      BY <1>1, <2>2, EvidenceTyping DEF Sound
    <2> QED BY <2>4, <2>6, <2>7, SettlePreserves
  <1> QED BY <1>2, <1>3

LEMMA ActionPreserves ==
  ASSUME IInv, NEW actor, NEW u, NEW kind, NEW expected, NEW candidate,
         ActionRefusal(game, actor, u, kind, expected) = "",
         Sound(game) /\ game.revision < MaxRevision /\ u \in Units => Sound(candidate),
         Settle(candidate, NoEvidence)
  PROVE  IInv'
  <1>1. Sound(game)
    BY DEF IInv, TypeOK, Sound
  <1>2. u \in Units /\ game.revision # MaxRevision
    BY DEF ActionRefusal
  <1>3. game.revision < MaxRevision
    BY <1>2, RevisionTyping DEF IInv, TypeOK
  <1> QED BY <1>1, <1>2, <1>3, NoEvidenceTyping, SettlePreserves

LEMMA StepPreserves == IInv /\ [Next]_vars => IInv'
  <1> SUFFICES ASSUME IInv, [Next]_vars PROVE IInv'
    OBVIOUS
  <1>1. ASSUME NEW actor, NEW u, NEW target, NEW expected,
               Move(actor, u, target, expected)
        PROVE  IInv'
    BY <1>1, MovePreserves
  <1>2. ASSUME NEW actor, NEW u, NEW expected, Cancel(actor, u, expected)
        PROVE  IInv'
    BY <1>2, ActionPreserves, CancelSound DEF Cancel
  <1>3. ASSUME NEW actor, NEW u, NEW expected, Skip(actor, u, expected)
        PROVE  IInv'
    BY <1>3, ActionPreserves, SkipSound DEF Skip
  <1>4. ASSUME NEW actor, NEW u, NEW expected, Fortify(actor, u, expected)
        PROVE  IInv'
    BY <1>4, ActionPreserves, FortifySound DEF Fortify
  <1>5. ASSUME NEW actor, NEW u, NEW kind, NEW expected,
               RefuseAction(actor, u, kind, expected)
        PROVE  UNCHANGED vars
    BY <1>5 DEF RefuseAction
  <1>6. CASE UNCHANGED vars
    BY <1>6 DEF IInv, TypeOK, vars, ValidGame
  <1> QED BY <1>1, <1>2, <1>3, <1>4, <1>5, <1>6 DEF Next

\* The invariant of the engine: typed, valid, and without a fault.
THEOREM EngineInvariant == Spec => []IInv
  <1>1. Init => IInv
    BY InitEstablishes
  <1>2. IInv /\ [Next]_vars => IInv'
    BY StepPreserves
  <1> QED BY <1>1, <1>2, PTL DEF Spec

\* Every slice of the game keeps its type: movement stays within the balance
\* limit, positions stay on the map, identifiers stay known.
THEOREM TypeCorrect == Spec => []TypeOK
  <1>1. IInv => TypeOK
    BY DEF IInv
  <1> QED BY <1>1, EngineInvariant, PTL

\* No accepted command builds an aggregate that its constructor refuses,
\* whatever the map, the units, the fog and the order of commands.
THEOREM NeverFaults == Spec => []NoFault
  <1>1. IInv => NoFault
    BY DEF IInv, NoFault
  <1> QED BY <1>1, EngineInvariant, PTL

-----------------------------------------------------------------------------
(* Plans and moves.                                                        *)

\* The plan of a route can be applied.
Executes(g, u, route) ==
    \E k \in ReachedIndex(route, Available(g, u)) :
       /\ Queueable(g, u, route, k)
       /\ k < Len(route) => Rebased(route, k)[1].tile = route[k].tile

LEMMA PlannedExecutes ==
  ASSUME NEW g \in Game, NEW u \in Units, NEW target,
         NEW route \in PlannedRoutes(g, u, target)
  PROVE  Executes(g, u, route)
  <1>1. route \in Seq(MovementStep) /\ Len(route) >= 1
    BY PlannedFacts
  <1>2. PICK k \in ReachedIndex(route, Available(g, u)) : TRUE
    BY <1>1, TurnReachesSomewhere
  <1>3. /\ Queueable(g, u, route, k)
        /\ k < Len(route) => Rebased(route, k)[1].tile = route[k].tile
    BY PlansQueue
  <1> QED BY <1>3 DEF Executes

LEMMA PlanExecutes ==
  ASSUME NEW g \in Game, NEW actor, NEW u, NEW target, NEW expected,
         Plan(g, actor, u, target, expected).refusal = "",
         NEW route, route \in Plan(g, actor, u, target, expected).routes
  PROVE  Executes(g, u, route)
  <1>1. /\ u \in Units
        /\ Plan(g, actor, u, target, expected).routes = PlannedRoutes(g, u, target)
    BY AcceptedPlan
  <1>2. route \in PlannedRoutes(g, u, target)
    BY <1>1
  <1> QED BY <1>1, <1>2, PlannedExecutes

\* Whatever a player knows, a plan it was given can be applied: a turn pays
\* for some prefix of the route, and QueuedMovePath accepts the rest.
THEOREM PlansAreExecuted == Spec => []PlansExecute
  <1>1. ASSUME IInv, NEW u \in Units, NEW target \in Tiles,
               Plan(game, Owner[u], u, target, game.revision).refusal = "",
               NEW route, route \in Plan(game, Owner[u], u, target, game.revision).routes
        PROVE  Executes(game, u, route)
    <2>1. game \in Game
      BY <1>1 DEF IInv, TypeOK
    <2> QED BY <1>1, <2>1, PlanExecutes
  <1>2. IInv => PlansExecute
    BY <1>1, Zenon DEF PlansExecute, Executes
  <1> QED BY <1>2, EngineInvariant, PTL

\* Whatever the map and the fog: the overlay of a unit names exactly the tiles
\* whose plan the turn carries out as a whole, though the overlay is searched
\* by cost and the plan by turns.
THEOREM OverlaysArePlanned == Spec => []OverlayMatchesPlan
  <1>1. ASSUME IInv, NEW u \in Units, UnitRefusal(game, Owner[u], u) = "",
               NEW target \in Tiles \ {Position(game, u)}
        PROVE  OverlayAgrees(game, u, target)
    <2>1. game \in Game
      BY <1>1 DEF IInv, TypeOK
    <2> QED BY <1>1, <2>1, OverlayIsPlanned
  <1>2. IInv => OverlayMatchesPlan
    BY <1>1, Zenon DEF OverlayMatchesPlan, OverlayAgrees
  <1> QED BY <1>2, EngineInvariant, PTL

-----------------------------------------------------------------------------
(* What queries disclose.                                                  *)

LEMMA UnseenUnitsDoNotShow ==
  ASSUME NEW g \in Game, NEW u \in Units, NEW v \in Units, Owner[v] # Owner[u],
         NEW t, Visibility(g, Owner[u], t) # "visible",
         Visibility(g, Owner[u], Position(g, v)) # "visible",
         NEW h, h = [g EXCEPT !.units[v].position = t]
  PROVE  SameToPlanner(g, h, u)
  <1> DEFINE p == Owner[u]
  <1>1. g.units \in [Units -> Unit]
    BY DEF Game
  <1>2. /\ h.units = [g.units EXCEPT ![v].position = t]
        /\ h.revision = g.revision /\ h.fog = g.fog
        /\ h.cities = g.cities /\ h.roads = g.roads
    BY DEF Game
  <1>3. /\ Position(h, v) = t
        /\ \A w \in Units \ {v} : Position(h, w) = Position(g, w)
        /\ h.units[u] = g.units[u]
    BY <1>1, <1>2 DEF Position, Unit
  <1>4. \A q, s : Visibility(h, q, s) = Visibility(g, q, s)
    BY <1>2 DEF Visibility
  <1>5. \A s : KnownBlockers(h, u, s) = KnownBlockers(g, u, s)
    <2>1. ~Observes(g, u, v) /\ ~Observes(h, u, v)
      BY <1>3, <1>4 DEF Observes
    <2>2. \A w \in Units \ {v} : Observes(h, u, w) <=> Observes(g, u, w)
      BY <1>3, <1>4 DEF Observes
    <2> QED BY <1>3, <2>1, <2>2 DEF KnownBlockers
  <1>6. \A s : CityBlockKnown(h, u, s) <=> CityBlockKnown(g, u, s)
    BY <1>2, <1>4 DEF CityBlockKnown, CityBlocks
  <1>7. \A s : /\ KnownRoad(h, p, s) <=> KnownRoad(g, p, s)
               /\ KnownCityCenter(h, p, s) <=> KnownCityCenter(g, p, s)
    BY <1>2, <1>4 DEF KnownRoad, KnownCityCenter
  <1>8. \A r, s : OnKnownRoad(h, p, r, s) <=> OnKnownRoad(g, p, r, s)
    BY <1>7 DEF OnKnownRoad
  <1> QED BY <1>2, <1>3, <1>5, <1>6, <1>8 DEF SameToPlanner

LEMMA UnknownCitiesDoNotShow ==
  ASSUME NEW g \in Game, NEW u \in Units, NEW c \in g.cities, CityOwner[c] # Owner[u],
         Visibility(g, Owner[u], CityCenter[c]) = "hidden",
         NEW h, h = [g EXCEPT !.cities = g.cities \ {c}]
  PROVE  SameToPlanner(g, h, u)
  <1> DEFINE p == Owner[u]
  <1>1. /\ h.cities = g.cities \ {c} /\ h.units = g.units
        /\ h.revision = g.revision /\ h.fog = g.fog /\ h.roads = g.roads
    BY DEF Game
  <1>2. /\ \A q, s : Visibility(h, q, s) = Visibility(g, q, s)
        /\ \A w : Position(h, w) = Position(g, w)
    BY <1>1 DEF Visibility, Position
  <1>3. \A s : KnownBlockers(h, u, s) = KnownBlockers(g, u, s)
    BY <1>2 DEF KnownBlockers, Observes
  <1>4. \A s : CityBlockKnown(h, u, s) <=> CityBlockKnown(g, u, s)
    BY <1>1, <1>2 DEF CityBlockKnown, CityBlocks
  <1>5. \A s : /\ KnownRoad(h, p, s) <=> KnownRoad(g, p, s)
               /\ KnownCityCenter(h, p, s) <=> KnownCityCenter(g, p, s)
    BY <1>1, <1>2 DEF KnownRoad, KnownCityCenter
  <1>6. \A r, s : OnKnownRoad(h, p, r, s) <=> OnKnownRoad(g, p, r, s)
    BY <1>5 DEF OnKnownRoad
  <1> QED BY <1>1, <1>3, <1>4, <1>6 DEF SameToPlanner

LEMMA UnknownRoadsDoNotShow ==
  ASSUME NEW g \in Game, NEW u \in Units, NEW roads,
         \A t : Owner[u] \in RoadOwners[t] => (t \in roads <=> t \in g.roads),
         \A t : Visibility(g, Owner[u], t) # "hidden" => (t \in roads <=> t \in g.roads),
         NEW h, h = [g EXCEPT !.roads = roads]
  PROVE  SameToPlanner(g, h, u)
  <1> DEFINE p == Owner[u]
  <1>1. /\ h.cities = g.cities /\ h.units = g.units
        /\ h.revision = g.revision /\ h.fog = g.fog /\ h.roads = roads
    BY DEF Game
  <1>2. /\ \A q, s : Visibility(h, q, s) = Visibility(g, q, s)
        /\ \A w : Position(h, w) = Position(g, w)
    BY <1>1 DEF Visibility, Position
  <1>3. \A s : KnownBlockers(h, u, s) = KnownBlockers(g, u, s)
    BY <1>2 DEF KnownBlockers, Observes
  <1>4. \A s : CityBlockKnown(h, u, s) <=> CityBlockKnown(g, u, s)
    BY <1>1, <1>2 DEF CityBlockKnown, CityBlocks
  <1>5. \A s : /\ KnownRoad(h, p, s) <=> KnownRoad(g, p, s)
               /\ KnownCityCenter(h, p, s) <=> KnownCityCenter(g, p, s)
    BY <1>1, <1>2 DEF KnownRoad, KnownCityCenter
  <1>6. \A r, s : OnKnownRoad(h, p, r, s) <=> OnKnownRoad(g, p, r, s)
    BY <1>5 DEF OnKnownRoad
  <1> QED BY <1>1, <1>3, <1>4, <1>6 DEF SameToPlanner

\* What a player cannot tell apart is the same to the planner of its units.
LEMMA LooksTheSame ==
  ASSUME NEW g \in Game, NEW u \in Units, NEW h \in Indistinguishable(g, Owner[u])
  PROVE  SameToPlanner(g, h, u)
  <1> DEFINE p == Owner[u]
             Moved == {[g EXCEPT !.units[v].position = t] :
                          v \in {w \in Units : Owner[w] # p /\ Position(g, w) \in Unseen(g, p)},
                          t \in Unseen(g, p)}
             Razed == {[g EXCEPT !.cities = g.cities \ {c}] :
                          c \in {d \in g.cities :
                                    CityOwner[d] # p /\ CityCenter[d] \in Unknown(g, p)}}
             Roads == {g.roads \cup Unknown(g, p), g.roads \ Unknown(g, p)}
                      \cap {r \in SUBSET Tiles :
                              \A t \in Tiles : p \in RoadOwners[t] =>
                                                  (t \in r <=> t \in g.roads)}
             Built == {[g EXCEPT !.roads = r] : r \in Roads}
  <1>1. h \in Moved \/ h \in Razed \/ h \in Built
    BY DEF Indistinguishable
  <1>2. CASE h \in Moved
    <2>1. PICK v \in Units, t \in Unseen(g, p) :
             /\ Owner[v] # p /\ Position(g, v) \in Unseen(g, p)
             /\ h = [g EXCEPT !.units[v].position = t]
      BY <1>2
    <2>2. Visibility(g, p, t) # "visible" /\ Visibility(g, p, Position(g, v)) # "visible"
      BY <2>1 DEF Unseen
    <2> QED BY <2>1, <2>2, UnseenUnitsDoNotShow
  <1>3. CASE h \in Razed
    <2>1. PICK c \in g.cities :
             /\ CityOwner[c] # p /\ CityCenter[c] \in Unknown(g, p)
             /\ h = [g EXCEPT !.cities = g.cities \ {c}]
      BY <1>3
    <2>2. Visibility(g, p, CityCenter[c]) = "hidden"
      BY <2>1 DEF Unknown
    <2> QED BY <2>1, <2>2, UnknownCitiesDoNotShow
  <1>4. CASE h \in Built
    <2>1. PICK r \in Roads : h = [g EXCEPT !.roads = r]
      BY <1>4
    <2>2. \A t \in Tiles : p \in RoadOwners[t] => (t \in r <=> t \in g.roads)
      OBVIOUS
    <2>3. r \subseteq Tiles /\ g.roads \subseteq Tiles
      BY DEF Game
    <2>4. \A t : p \in RoadOwners[t] => (t \in r <=> t \in g.roads)
      BY <2>2, <2>3
    <2>5. \A t : Visibility(g, p, t) # "hidden" => (t \in r <=> t \in g.roads)
      BY DEF Unknown
    <2> HIDE DEF Roads
    <2> QED BY <2>1, <2>4, <2>5, UnknownRoadsDoNotShow
  <1> QED BY <1>1, <1>2, <1>3, <1>4

\* Before a move is applied, no plan and no overlay tells a player anything of
\* the units, cities and roads it does not see.
THEOREM QueriesDiscloseNothing == Spec => []QueriesBlindToHidden
  <1>1. ASSUME IInv, NEW u \in Units, NEW g \in Indistinguishable(game, Owner[u])
        PROVE  /\ ReachableTiles(g, u) = ReachableTiles(game, u)
               /\ [t \in Tiles |-> Plan(g, Owner[u], u, t, g.revision)]
                  = [t \in Tiles |-> Plan(game, Owner[u], u, t, game.revision)]
    <2>1. game \in Game
      BY <1>1 DEF IInv, TypeOK
    <2>2. SameToPlanner(game, g, u)
      BY <1>1, <2>1, LooksTheSame
    <2>3. Position(game, u) \in Tiles
      BY <2>1, UnitTyping
    <2>4. g.revision = game.revision
      BY <2>2 DEF SameToPlanner
    <2>5. /\ ReachableTiles(g, u) = ReachableTiles(game, u)
          /\ \A actor, target, expected :
                Plan(g, actor, u, target, expected) = Plan(game, actor, u, target, expected)
      BY <2>2, <2>3, SamePlans
    <2> QED BY <2>4, <2>5
  <1>2. IInv => QueriesBlindToHidden
    BY <1>1 DEF QueriesBlindToHidden
  <1> QED BY <1>2, EngineInvariant, PTL

-----------------------------------------------------------------------------
(* Moves.                                                                  *)

\* Steps that take u from where it is to the given tile, over free tiles.
FreeWalk(g, u, steps, end) ==
    /\ steps # <<>> /\ steps[Len(steps)].tile = end
    /\ \A i \in DOMAIN steps :
          /\ steps[i].tile \in
                Neighbors(IF i = 1 THEN Position(g, u) ELSE steps[i - 1].tile)
          /\ ~CityBlocks(g, u, steps[i].tile)
          /\ \A v \in Units \ {u} : Position(g, v) # steps[i].tile

\* The tiles of a move that was not stopped.
LEMMA WalkedTiles ==
  ASSUME NEW g \in Game, NEW u \in Units, NEW target,
         NEW route \in PlannedRoutes(g, u, target),
         NEW k \in ReachedIndex(route, Available(g, u)),
         MovedUnit(g, u, route, k).position # Position(g, u)
  PROVE  FreeWalk(g, u, SubSeq(route, 2, k), MovedUnit(g, u, route, k).position)
  <1> DEFINE steps == SubSeq(route, 2, k)
  <1>1. Travels(route, g, u) /\ route \in Seq(MovementStep) /\ Len(route) \in Nat
    BY PlannedFacts
  <1>2. k \in 1 .. Len(route)
    BY <1>1 DEF ReachedIndex
  <1>3. g.units[u] \in Unit
    BY UnitTyping
  <1>4. ~HiddenBlocker(g, u, route, k) /\ MovedUnit(g, u, route, k).position = route[k].tile
    BY <1>3 DEF MovedUnit, AfterMovement, Position, Unit
  <1>5. k \in 2 .. Len(route)
    <2>1. k # 1
      BY <1>1, <1>4 DEF Travels
    <2> QED BY <1>1, <1>2, <2>1
  <1>6. /\ Len(steps) = k - 1 /\ DOMAIN steps = 1 .. k - 1
        /\ \A i \in 1 .. k - 1 : steps[i] = route[i + 1]
    BY <1>1, <1>5
  <1> HIDE DEF steps
  <1>7. steps # <<>> /\ steps[Len(steps)] = route[k]
    BY <1>5, <1>6
  <1>8. ASSUME NEW i \in DOMAIN steps
        PROVE  /\ steps[i].tile \in
                     Neighbors(IF i = 1 THEN Position(g, u) ELSE steps[i - 1].tile)
               /\ ~CityBlocks(g, u, steps[i].tile)
               /\ \A v \in Units \ {u} : Position(g, v) # steps[i].tile
    <2>1. /\ i + 1 \in 2 .. k /\ i + 1 \in 2 .. Len(route) /\ i \in 1 .. k - 1
          /\ steps[i] = route[i + 1]
      BY <1>1, <1>5, <1>6, <1>8
    <2>2. route[i + 1].tile \in Open(g, u) /\ route[i + 1].tile \in Neighbors(route[i].tile)
      <3>1. (i + 1) - 1 = i
        BY <2>1
      <3> QED BY <1>1, <2>1, <3>1 DEF Travels
    <2>3. route[i].tile = IF i = 1 THEN Position(g, u) ELSE steps[i - 1].tile
      <3>1. CASE i = 1
        BY <1>1, <3>1 DEF Travels
      <3>2. CASE i # 1
        <4>1. i - 1 \in 1 .. k - 1 /\ (i - 1) + 1 = i
          BY <1>5, <2>1, <3>2
        <4> QED BY <1>6, <3>2, <4>1
      <3> QED BY <3>1, <3>2
    <2>4. ~CityBlocks(g, u, route[i + 1].tile)
      BY <1>4, <2>1, <2>2 DEF HiddenBlocker, Open
    <2>5. \A v \in Units \ {u} : Position(g, v) # route[i + 1].tile
      BY <1>4, <1>5, <2>1, StopsOnFreeTile
    <2> QED BY <2>1, <2>2, <2>3, <2>4, <2>5
  <1>9. FreeWalk(g, u, steps, route[k].tile)
    BY <1>7, <1>8 DEF FreeWalk
  <1> QED BY <1>4, <1>9 DEF steps

\* Where the unit of an accepted move stands.
LEMMA MovedPosition ==
  ASSUME NEW g \in Game, NEW u \in Units, NEW unit
  PROVE  Position(AfterMove(g, u, unit), u) = unit.position
  <1> DEFINE moved == [g EXCEPT !.revision = @ + 1, !.units[u] = unit]
             seen == [moved EXCEPT !.fog = RecomputedFog(moved, Owner[u])]
             met == [seen EXCEPT !.contacts = @ \cup SightedPairs(seen)]
  <1>1. g.units \in [Units -> Unit]
    BY UnitTyping
  <1>2. moved.units = [g.units EXCEPT ![u] = unit] /\ met.units = moved.units
    BY DEF Game
  <1>3. AfterMove(g, u, unit).units = [g.units EXCEPT ![u] = unit]
    BY <1>2 DEF AfterMove
  <1> QED BY <1>1, <1>3 DEF Position

\* No move takes a unit over a tile that holds another unit or a foreign
\* city, though its route was planned without knowing of the hidden ones.
THEOREM MovesWalkFree == Spec => WalksFreeTiles
  <1> DEFINE Free ==
        executed' # executed /\ executed' # NoEvidence =>
          LET u == executed'.unit
              steps == executed'.steps
          IN  /\ executed'.from = Position(game, u)
              /\ steps # <<>> /\ steps[Len(steps)].tile = Position(game', u)
              /\ \A i \in DOMAIN steps :
                    /\ steps[i].tile \in
                          Neighbors(IF i = 1 THEN executed'.from ELSE steps[i - 1].tile)
                    /\ ~CityBlocks(game, u, steps[i].tile)
                    /\ \A v \in Units \ {u} : Position(game, v) # steps[i].tile
  <1>1. ASSUME IInv, NEW actor, NEW u, NEW target, NEW expected,
               Move(actor, u, target, expected)
        PROVE  Free
    <2> SUFFICES ASSUME executed' # executed, executed' # NoEvidence PROVE Free
      OBVIOUS
    <2> DEFINE plan == Plan(game, actor, u, target, expected)
    <2>1. plan.refusal = ""
      BY <1>1 DEF Move, vars
    <2>2. u \in Units /\ plan.routes = PlannedRoutes(game, u, target) /\ game \in Game
      BY <1>1, <2>1, AcceptedPlan DEF IInv, TypeOK
    <2>3. PICK route \in PlannedRoutes(game, u, target) :
             \E k \in ReachedIndex(route, Available(game, u)) :
                Settle(AfterMove(game, u, MovedUnit(game, u, route, k)),
                       MoveEvidence(game, u, route, k))
      <3> HIDE DEF Free
      <3> QED BY <1>1, <2>1, <2>2 DEF Move, vars
    <2>4. PICK k \in ReachedIndex(route, Available(game, u)) :
             Settle(AfterMove(game, u, MovedUnit(game, u, route, k)),
                    MoveEvidence(game, u, route, k))
      BY <2>3
    <2> DEFINE unit == MovedUnit(game, u, route, k)
               next == AfterMove(game, u, unit)
    <2> HIDE DEF plan, unit, next
    <2>5. game' = next /\ executed' = MoveEvidence(game, u, route, k)
      BY <2>4 DEF Settle, unit, next
    <2>6. /\ unit.position # Position(game, u)
          /\ executed' = [unit |-> u, from |-> Position(game, u), steps |-> SubSeq(route, 2, k)]
      BY <2>5 DEF MoveEvidence, unit
    <2>7. Position(game', u) = unit.position
      BY <2>2, <2>5, MovedPosition DEF next
    <2>8. /\ executed'.unit = u /\ executed'.from = Position(game, u)
          /\ executed'.steps = SubSeq(route, 2, k)
      BY <2>6
    <2>9. FreeWalk(game, u, SubSeq(route, 2, k), unit.position)
      BY <2>2, <2>6, WalkedTiles DEF unit
    <2> QED BY <2>7, <2>8, <2>9 DEF FreeWalk
  <1>2. ASSUME NEW candidate, Settle(candidate, NoEvidence)
        PROVE  Free
    <2>1. executed' = executed \/ executed' = NoEvidence
      BY <1>2 DEF Settle
    <2> QED BY <2>1
  <1>3. ASSUME UNCHANGED vars PROVE Free
    BY <1>3 DEF vars
  <1>4. IInv /\ [Next]_vars => [Free]_vars
    <2> SUFFICES ASSUME IInv, [Next]_vars PROVE Free
      OBVIOUS
    <2> HIDE DEF Free
    <2> QED BY <1>1, <1>2, <1>3 DEF Next, Cancel, Skip, Fortify, RefuseAction
  <1> QED BY <1>4, EngineInvariant, PTL DEF Spec, WalksFreeTiles

-----------------------------------------------------------------------------
(* Fog and contacts.                                                       *)

\* What a command leaves of a game's knowledge when no unit changed tile.
Stood(g, h) ==
    /\ h.fog = g.fog /\ h.contacts = g.contacts /\ h.cities = g.cities
    /\ \A v \in Units : Position(h, v) = Position(g, v)

\* And when unit u did.
Walked(g, h, u) ==
    /\ h.cities = g.cities
    /\ \A v \in Units \ {u} : Position(h, v) = Position(g, v)
    /\ h.fog = [g.fog EXCEPT ![Owner[u]] =
                  [tracked |-> TRUE, visible |-> SeenBy(h, Owner[u]),
                   discovered |-> (IF g.fog[Owner[u]].tracked
                                   THEN g.fog[Owner[u]].discovered ELSE {})
                                  \cup SeenBy(h, Owner[u])]]
    /\ h.contacts = g.contacts \cup SightedPairs(h)

\* Sight depends on the player's units and cities only.
LEMMA SightFrame ==
  ASSUME NEW g, NEW h, NEW p, h.cities = g.cities,
         \A v \in Units : Owner[v] = p => Position(h, v) = Position(g, v)
  PROVE  SeenBy(h, p) = SeenBy(g, p)
  <1> DEFINE source(k, v) ==
        VisibleFromSource(Position(k, v), SightRange(Position(k, v)),
                          TileTerrain[Position(k, v)].height)
             mine == {v \in Units : Owner[v] = p}
  <1>1. \A v \in mine : source(h, v) = source(g, v)
    OBVIOUS
  <1> HIDE DEF source, mine
  <1>2. {source(h, v) : v \in mine} = {source(g, v) : v \in mine}
    BY <1>1
  <1> QED BY <1>2 DEF SeenBy, source, mine

\* Contacts depend on fog, cities and positions.
LEMMA ContactFrame ==
  ASSUME NEW g, NEW h, h.cities = g.cities, h.fog = g.fog,
         \A v \in Units : Position(h, v) = Position(g, v)
  PROVE  SightedPairs(h) = SightedPairs(g)
  <1>1. Observers(h) = Observers(g)
    BY DEF Observers
  <1>2. \A p, t : Visibility(h, p, t) = Visibility(g, p, t)
    BY DEF Visibility
  <1>3. \A p, q : Sights(h, p, q) <=> Sights(g, p, q)
    BY <1>2 DEF Sights
  <1> QED BY <1>1, <1>3 DEF SightedPairs

LEMMA MoveShape ==
  ASSUME NEW g \in Game, NEW u \in Units, NEW unit
  PROVE  LET next == AfterMove(g, u, unit)
         IN  Stood(g, next) \/ Walked(g, next, u)
  <1> DEFINE moved == [g EXCEPT !.revision = @ + 1, !.units[u] = unit]
             seen == [moved EXCEPT !.fog = RecomputedFog(moved, Owner[u])]
             met == [seen EXCEPT !.contacts = @ \cup SightedPairs(seen)]
             p == Owner[u]
  <1>1. g.units \in [Units -> Unit]
    BY UnitTyping
  <1>2. /\ moved.units = [g.units EXCEPT ![u] = unit] /\ moved.cities = g.cities
        /\ moved.fog = g.fog /\ moved.contacts = g.contacts
        /\ seen.units = moved.units /\ seen.cities = g.cities
        /\ seen.fog = RecomputedFog(moved, p) /\ seen.contacts = g.contacts
        /\ met.units = moved.units /\ met.cities = g.cities
        /\ met.fog = seen.fog /\ met.contacts = g.contacts \cup SightedPairs(seen)
    BY DEF Game
  <1>3. AfterMove(g, u, unit) = IF unit.position = Position(g, u) THEN moved ELSE met
    BY DEF AfterMove
  <1> HIDE DEF moved, seen, met
  <1>4. CASE unit.position = Position(g, u)
    BY <1>1, <1>2, <1>3, <1>4 DEF Stood, Position
  <1>5. CASE unit.position # Position(g, u)
    <2>1. \A v \in Units \ {u} : Position(met, v) = Position(g, v)
      BY <1>1, <1>2 DEF Position
    <2>2. \A v \in Units : /\ Position(met, v) = Position(moved, v)
                           /\ Position(met, v) = Position(seen, v)
      BY <1>2 DEF Position
    <2>3. SeenBy(met, p) = SeenBy(moved, p)
      BY <1>2, <2>2, SightFrame
    <2>4. SightedPairs(met) = SightedPairs(seen)
      BY <1>2, <2>2, ContactFrame
    <2>5. Walked(g, met, u)
      BY <1>2, <2>1, <2>3, <2>4 DEF Walked, RecomputedFog
    <2> QED BY <1>3, <1>5, <2>5
  <1> QED BY <1>4, <1>5

LEMMA ActionShape ==
  ASSUME NEW g \in Game, NEW u \in Units
  PROVE  /\ Stood(g, AfterCancel(g, u))
         /\ Stood(g, AfterSkip(g, u))
         /\ Stood(g, AfterFortification(g, u))
  <1>1. g.units \in [Units -> Unit] /\ g.units[u] \in Unit
    BY UnitTyping
  <1>2. /\ AfterCancelAction(g.units[u], CancelMovement(g, u)).position = Position(g, u)
        /\ AfterSkipTurn(g.units[u]).position = Position(g, u)
        /\ AfterFortify(g.units[u]).position = Position(g, u)
    BY <1>1 DEF AfterCancelAction, AfterSkipTurn, AfterFortify, Position, Unit
  <1>3. Stood(g, AfterCancel(g, u))
    BY <1>1, <1>2 DEF AfterCancel, Stood, Position, Game
  <1>4. Stood(g, AfterSkip(g, u))
    BY <1>1, <1>2 DEF AfterSkip, Stood, Position, Game
  <1>5. Stood(g, AfterFortification(g, u))
    BY <1>1, <1>2 DEF AfterFortification, Stood, Position, Game
  <1> QED BY <1>3, <1>4, <1>5

LEMMA StepShape ==
  ASSUME IInv, [Next]_vars
  PROVE  Stood(game, game') \/ \E u \in Units : Walked(game, game', u)
  <1> DEFINE Shape == Stood(game, game') \/ \E u \in Units : Walked(game, game', u)
  <1>0. game \in Game
    BY DEF IInv, TypeOK
  <1>1. UNCHANGED game => Shape
    BY DEF Stood
  <1>2. ASSUME NEW actor, NEW u, NEW target, NEW expected,
               Move(actor, u, target, expected)
        PROVE  Shape
    <2> HIDE DEF Shape
    <2> DEFINE plan == Plan(game, actor, u, target, expected)
    <2>1. CASE UNCHANGED game
      BY <1>1, <2>1
    <2>2. CASE ~UNCHANGED game
      <3>1. plan.refusal = ""
        BY <1>2, <2>2 DEF Move, vars
      <3>2. u \in Units
        BY <3>1, AcceptedPlan
      <3> HIDE DEF plan
      <3>3. \E unit : game' = AfterMove(game, u, unit)
        BY <1>2, <2>2 DEF Move, vars, Settle
      <3> QED BY <1>0, <3>2, <3>3, MoveShape DEF Shape
    <2> QED BY <2>1, <2>2
  <1>3. ASSUME NEW actor, NEW u, NEW expected,
               \/ Cancel(actor, u, expected)
               \/ Skip(actor, u, expected)
               \/ Fortify(actor, u, expected)
        PROVE  Shape
    <2> HIDE DEF Shape
    <2>1. u \in Units
      BY <1>3 DEF Cancel, Skip, Fortify, ActionRefusal
    <2>2. \/ UNCHANGED game
          \/ game' = AfterCancel(game, u)
          \/ game' = AfterSkip(game, u)
          \/ game' = AfterFortification(game, u)
      BY <1>3 DEF Cancel, Skip, Fortify, Settle
    <2> QED BY <1>0, <1>1, <2>1, <2>2, ActionShape DEF Shape
  <1>4. ASSUME UNCHANGED vars PROVE Shape
    BY <1>1, <1>4 DEF vars
  <1> HIDE DEF Shape
  <1>5. Shape
    BY <1>2, <1>3, <1>4 DEF Next, RefuseAction
  <1> QED BY <1>5 DEF Shape

\* What a player has discovered, and whom it has met, it never forgets.
THEOREM KnowledgeIsKept == Spec => KnowledgeGrows
  <1>1. ASSUME IInv, [Next]_vars
        PROVE  /\ game.contacts \subseteq game'.contacts
               /\ \A p \in Players :
                     game.fog[p].tracked =>
                        /\ game'.fog[p].tracked
                        /\ game.fog[p].discovered \subseteq game'.fog[p].discovered
    <2>1. game.fog \in [Players -> PlayerFog]
      BY <1>1 DEF IInv, TypeOK, Game
    <2>2. ASSUME NEW u \in Units, Walked(game, game', u), NEW p \in Players,
                 game.fog[p].tracked
          PROVE  game'.fog[p].tracked
                 /\ game.fog[p].discovered \subseteq game'.fog[p].discovered
      BY <2>1, <2>2 DEF Walked
    <2> QED BY <1>1, <2>2, StepShape DEF Stood, Walked
  <1> QED BY <1>1, EngineInvariant, PTL DEF Spec, KnowledgeGrows

\* A game whose fog is current stays so: the fog of the players that did not
\* move needs no recomputing, whatever the command.
THEOREM FogStaysCurrent == Spec /\ FogIsCurrent => []FogIsCurrent
  <1>1. ASSUME IInv, [Next]_vars, FogIsCurrent
        PROVE  FogIsCurrent'
    <2>0. game.fog \in [Players -> PlayerFog]
      BY <1>1 DEF IInv, TypeOK, Game
    <2>1. CASE Stood(game, game')
      <3>1. \A p \in Players : SeenBy(game', p) = SeenBy(game, p)
        BY <2>1, SightFrame DEF Stood
      <3> QED BY <1>1, <2>1, <3>1 DEF FogIsCurrent, Stood
    <2>2. ASSUME NEW u \in Units, Walked(game, game', u)
          PROVE  FogIsCurrent'
      <3> SUFFICES ASSUME NEW p \in Players, game'.fog[p].tracked
                   PROVE  game'.fog[p].visible = SeenBy(game', p)
        BY DEF FogIsCurrent
      <3>1. CASE p = Owner[u]
        BY <2>0, <2>2, <3>1 DEF Walked
      <3>2. CASE p # Owner[u]
        <4>1. SeenBy(game', p) = SeenBy(game, p)
          BY <2>2, <3>2, SightFrame DEF Walked
        <4>2. game'.fog[p] = game.fog[p]
          BY <2>0, <2>2, <3>2 DEF Walked
        <4> QED BY <1>1, <4>1, <4>2 DEF FogIsCurrent
      <3> QED BY <3>1, <3>2
    <2> QED BY <1>1, <2>1, <2>2, StepShape
  <1> QED BY <1>1, EngineInvariant, PTL DEF Spec

\* A game in which all who see each other have met stays so.
THEOREM ContactsStayComplete == Spec /\ ContactsComplete => []ContactsComplete
  <1>1. ASSUME IInv, [Next]_vars, ContactsComplete
        PROVE  ContactsComplete'
    <2>1. CASE Stood(game, game')
      <3>1. SightedPairs(game') = SightedPairs(game)
        BY <2>1, ContactFrame DEF Stood
      <3> QED BY <1>1, <2>1, <3>1 DEF ContactsComplete, Stood
    <2>2. ASSUME NEW u \in Units, Walked(game, game', u)
          PROVE  ContactsComplete'
      BY <2>2 DEF ContactsComplete, Walked
    <2> QED BY <1>1, <2>1, <2>2, StepShape
  <1> QED BY <1>1, EngineInvariant, PTL DEF Spec

-----------------------------------------------------------------------------
(* The ledger of a turn.  Its accounts are an invariant only of typed,     *)
(* valid games, so the inductive invariant adds them to the engine's; a    *)
(* step of the ledger is a step of the engine.                             *)

\* The accounts of a game: what was paid, what is left and what a skip may
\* give back is covered by what was granted.
Accounts(g, given, spent) ==
    /\ given \in [Units -> Nat] /\ spent \in [Units -> Nat]
    /\ \A u \in Units : spent[u] + g.units[u].movement + Restorable(g, u) <= given[u]

LInv == IInv /\ Accounts(game, granted, paid)

-----------------------------------------------------------------------------
(* What a command books, from game g to game h.                            *)

\* What u is granted by waking up.
Grant(g, h, u) ==
    IF g.units[u].posture = "fortified" /\ h.units[u].posture # "fortified"
    THEN MaximumMovement(g, u) ELSE 0

\* A command on u leaves the other units alone, and gives no other unit a
\* movement to take back.
OthersKept(g, h, u) ==
    \A v \in Units \ {u} :
        h.units[v] = g.units[v] /\ Restorable(h, v) <= Restorable(g, v)

\* What u pays, has left and may take back was there before, or is granted.
Covered(g, h, u, payment) ==
    payment + h.units[u].movement + Restorable(h, u)
    <= g.units[u].movement + Restorable(g, u) + Grant(g, h, u)

LEMMA BookTyping ==
  ASSUME NEW g \in Game, NEW h, NEW u \in Units
  PROVE  /\ g.units[u].movement \in Nat /\ Restorable(g, u) \in Nat
         /\ Grant(g, h, u) \in Nat /\ Available(g, u) \in Nat
         /\ MaximumMovement(g, u) \in Nat
  <1>1. \A n \in 0 .. MovementLimit : n \in Nat
    BY BalanceAssumption
  <1>2. g.pending.restore \in 0 .. MovementLimit
    BY DEF Game, Pending
  <1> QED BY <1>1, <1>2, UnitTyping, AllowanceTyping DEF Restorable, Grant

LEMMA AccountsKept ==
  ASSUME NEW g \in Game, NEW h \in Game, NEW u \in Units, NEW given, NEW spent,
         Accounts(g, given, spent), OthersKept(g, h, u),
         NEW payment \in Nat, Covered(g, h, u, payment)
  PROVE  Accounts(h, [given EXCEPT ![u] = @ + Grant(g, h, u)],
                     [spent EXCEPT ![u] = @ + payment])
  <1> DEFINE given2 == [given EXCEPT ![u] = @ + Grant(g, h, u)]
             spent2 == [spent EXCEPT ![u] = @ + payment]
  <1>1. given \in [Units -> Nat] /\ spent \in [Units -> Nat]
    BY DEF Accounts
  <1>2. Grant(g, h, u) \in Nat
    BY BookTyping
  <1>3. given2 \in [Units -> Nat] /\ spent2 \in [Units -> Nat]
    BY <1>1, <1>2
  <1>4. ASSUME NEW v \in Units
        PROVE  spent2[v] + h.units[v].movement + Restorable(h, v) <= given2[v]
    <2>1. spent[v] + g.units[v].movement + Restorable(g, v) <= given[v]
      BY DEF Accounts
    <2>2. /\ g.units[v].movement \in Nat /\ Restorable(g, v) \in Nat
          /\ h.units[v].movement \in Nat /\ Restorable(h, v) \in Nat
          /\ spent[v] \in Nat /\ given[v] \in Nat
      BY <1>1, BookTyping
    <2>3. CASE v = u
      <3>1. spent2[v] = spent[v] + payment /\ given2[v] = given[v] + Grant(g, h, u)
        BY <1>1, <2>3
      <3>2. payment + h.units[v].movement + Restorable(h, v)
            <= g.units[v].movement + Restorable(g, v) + Grant(g, h, u)
        BY <2>3 DEF Covered
      <3> QED BY <1>2, <2>1, <2>2, <3>1, <3>2
    <2>4. CASE v # u
      <3>1. spent2[v] = spent[v] /\ given2[v] = given[v]
        BY <1>1, <2>4
      <3>2. h.units[v].movement = g.units[v].movement /\ Restorable(h, v) <= Restorable(g, v)
        BY <2>4 DEF OthersKept
      <3> QED BY <2>1, <2>2, <3>1, <3>2
    <2> QED BY <2>3, <2>4
  <1> HIDE DEF given2, spent2
  <1>5. Accounts(h, given2, spent2)
    BY <1>3, <1>4 DEF Accounts
  <1> QED BY <1>5 DEF given2, spent2

-----------------------------------------------------------------------------
(* Moves.                                                                  *)

LEMMA AfterMoveUnits ==
  ASSUME NEW g \in Game, NEW u \in Units, NEW unit
  PROVE  /\ AfterMove(g, u, unit).units = [g.units EXCEPT ![u] = unit]
         /\ AfterMove(g, u, unit).pending = g.pending
  <1> DEFINE moved == [g EXCEPT !.revision = @ + 1, !.units[u] = unit]
             seen == [moved EXCEPT !.fog = RecomputedFog(moved, Owner[u])]
             met == [seen EXCEPT !.contacts = @ \cup SightedPairs(seen)]
  <1>1. /\ moved.units = [g.units EXCEPT ![u] = unit] /\ met.units = moved.units
        /\ moved.pending = g.pending /\ met.pending = g.pending
    BY DEF Game
  <1> QED BY <1>1 DEF AfterMove

\* The walk of a move that was not stopped costs what its last tile costs in
\* all, and a move without evidence has walked nothing.
LEMMA WalkFacts ==
  ASSUME NEW g \in Game, NEW u \in Units, NEW target,
         NEW route \in PlannedRoutes(g, u, target),
         NEW k \in ReachedIndex(route, Available(g, u))
  PROVE  /\ k \in 1 .. Len(route) /\ route[k].cumulative \in Nat
         /\ MoveEvidence(g, u, route, k) # NoEvidence =>
               WalkCost(MoveEvidence(g, u, route, k)) = route[k].cumulative
         /\ WalkCost(NoEvidence) = 0
  <1>1. Travels(route, g, u) /\ route \in Seq(MovementStep) /\ Len(route) \in Nat
    BY PlannedFacts
  <1>2. k \in 1 .. Len(route)
    BY <1>1 DEF ReachedIndex
  <1>3. route[k].cumulative \in Nat
    <2>1. route[k] \in MovementStep
      BY <1>1, <1>2
    <2> QED BY <2>1, BalanceAssumption DEF MovementStep
  <1>4. ASSUME MoveEvidence(g, u, route, k) # NoEvidence
        PROVE  WalkCost(MoveEvidence(g, u, route, k)) = route[k].cumulative
    <2> DEFINE steps == SubSeq(route, 2, k)
    <2>1. /\ MovedUnit(g, u, route, k).position # Position(g, u)
          /\ MoveEvidence(g, u, route, k).steps = steps
      BY <1>4 DEF MoveEvidence
    <2>2. g.units[u] \in Unit
      BY UnitTyping
    <2>3. MovedUnit(g, u, route, k).position = route[k].tile
      BY <2>1, <2>2 DEF MovedUnit, AfterMovement, Position, Unit
    <2>4. k # 1
      BY <1>1, <2>1, <2>3 DEF Travels
    <2>5. k \in 2 .. Len(route)
      BY <1>1, <1>2, <2>4
    <2>6. Len(steps) = k - 1 /\ steps[k - 1] = route[k] /\ steps # <<>>
      BY <1>1, <2>5
    <2> HIDE DEF steps
    <2> QED BY <2>1, <2>6 DEF WalkCost
  <1> QED BY <1>2, <1>3, <1>4 DEF WalkCost, NoEvidence

LEMMA MoveBooked ==
  ASSUME NEW g \in Game, NEW u \in Units, NEW target,
         NEW route \in PlannedRoutes(g, u, target),
         NEW k \in ReachedIndex(route, Available(g, u)),
         NEW h, h = AfterMove(g, u, MovedUnit(g, u, route, k)),
         NEW payment,
         payment = Lesser(Available(g, u), WalkCost(MoveEvidence(g, u, route, k)))
  PROVE  payment \in Nat /\ OthersKept(g, h, u) /\ Covered(g, h, u, payment)
  <1> DEFINE unit == MovedUnit(g, u, route, k)
             available == Available(g, u)
             cost == route[k].cumulative
             old == g.units[u]
  <1>1. g.units \in [Units -> Unit] /\ old \in Unit
    BY UnitTyping
  <1>2. h.units = [g.units EXCEPT ![u] = unit] /\ h.pending = g.pending
    BY AfterMoveUnits
  <1>3. h.units[u] = unit /\ \A v \in Units : Restorable(h, v) = Restorable(g, v)
    BY <1>1, <1>2 DEF Restorable
  <1>4. OthersKept(g, h, u)
    <2>1. \A v \in Units : Restorable(h, v) <= Restorable(g, v)
      BY <1>3, BookTyping
    <2> QED BY <1>1, <1>2, <2>1 DEF OthersKept
  <1>5. /\ old.movement \in Nat /\ available \in Nat /\ MaximumMovement(g, u) \in Nat
        /\ Restorable(g, u) \in Nat /\ cost \in Nat
    BY BookTyping, WalkFacts
  <1>6. /\ unit.posture = "active"
        /\ \/ unit.position = Position(g, u) /\ unit.movement = old.movement
           \/ unit.movement = Remaining(available, cost)
    BY <1>1 DEF MovedUnit, AfterMovement, Position, Unit
  <1>7. Grant(g, h, u) = IF old.posture = "fortified" THEN MaximumMovement(g, u) ELSE 0
    BY <1>3, <1>6 DEF Grant
  <1>8. available <= old.movement + Grant(g, h, u)
    BY <1>5, <1>7 DEF Available
  <1>9. payment \in Nat /\ payment + unit.movement <= old.movement + Grant(g, h, u)
    <2>1. CASE MoveEvidence(g, u, route, k) = NoEvidence
      <3>1. WalkCost(MoveEvidence(g, u, route, k)) = 0
        BY <2>1, WalkFacts
      <3>2. payment = 0
        BY <1>5, <3>1 DEF Lesser
      <3>3. unit.movement = old.movement \/ unit.movement <= available
        BY <1>5, <1>6 DEF Remaining
      <3>4. unit.movement \in Nat
        BY <1>5, <1>6 DEF Remaining
      <3>5. Grant(g, h, u) \in Nat
        BY BookTyping
      <3> HIDE DEF unit, available, old
      <3> QED BY <1>5, <1>8, <3>2, <3>3, <3>4, <3>5
    <2>2. CASE MoveEvidence(g, u, route, k) # NoEvidence
      <3>1. WalkCost(MoveEvidence(g, u, route, k)) = cost
        BY <2>2, WalkFacts
      <3>2. unit.position # Position(g, u)
        BY <2>2 DEF MoveEvidence
      <3>3. unit.movement = Remaining(available, cost)
        BY <1>6, <3>2
      <3>4. payment = Lesser(available, cost)
        BY <3>1
      <3>5. Grant(g, h, u) \in Nat
        BY BookTyping
      <3> HIDE DEF unit, available, old, cost
      <3>6. payment \in Nat /\ payment + unit.movement = available
        BY <1>5, <3>3, <3>4 DEF Remaining, Lesser
      <3> QED BY <1>5, <1>8, <3>5, <3>6
    <2> QED BY <2>1, <2>2
  <1>10. Covered(g, h, u, payment)
    <2>1. Restorable(h, u) = Restorable(g, u) /\ Restorable(g, u) \in Nat
      BY <1>3, <1>5
    <2>2. unit.movement \in Nat /\ Grant(g, h, u) \in Nat
      BY <1>5, <1>6, BookTyping DEF Remaining
    <2> HIDE DEF unit, available, old, cost
    <2>3. payment + unit.movement + Restorable(h, u)
          <= old.movement + Restorable(g, u) + Grant(g, h, u)
      BY <1>5, <1>9, <2>1, <2>2
    <2> QED BY <1>3, <2>3 DEF Covered, old
  <1> QED BY <1>4, <1>9, <1>10

-----------------------------------------------------------------------------
(* Unit actions.  They walk nothing.                                       *)

LEMMA CancelBooked ==
  ASSUME NEW g, Sound(g), NEW u \in Units, NEW h, h = AfterCancel(g, u)
  PROVE  OthersKept(g, h, u) /\ Covered(g, h, u, 0)
  <1> DEFINE old == g.units[u]
             unit == AfterCancelAction(old, CancelMovement(g, u))
  <1>1. g \in Game /\ ValidInteraction(g)
    BY DEF Sound, ValidGame
  <1>2. g.units \in [Units -> Unit] /\ old \in Unit
    BY <1>1, UnitTyping
  <1>3. h.units = [g.units EXCEPT ![u] = unit] /\ h.pending = PendingWithoutUnit(g, u)
    BY <1>1 DEF AfterCancel, Game
  <1>4. h.units[u] = unit /\ \A v \in Units \ {u} : h.units[v] = g.units[v]
    BY <1>2, <1>3
  <1>5. unit.movement = CancelMovement(g, u) /\ unit.posture = "active"
    BY <1>2 DEF AfterCancelAction, Unit
  <1>6. /\ old.movement \in Nat /\ MaximumMovement(g, u) \in Nat
        /\ \A v \in Units : Restorable(g, v) \in Nat
    BY <1>1, BookTyping
  <1>7. \A v \in Units : Restorable(h, v) = IF v = u THEN 0 ELSE Restorable(g, v)
    <2>1. u # None
      BY EntityAssumption
    <2> QED BY <1>3, <2>1 DEF Restorable, PendingWithoutUnit, NoPending
  <1>8. OthersKept(g, h, u)
    BY <1>4, <1>6, <1>7 DEF OthersKept
  <1>9. Grant(g, h, u) = IF old.posture = "fortified" THEN MaximumMovement(g, u) ELSE 0
    BY <1>4, <1>5 DEF Grant
  <1>10. unit.movement <= old.movement + Restorable(g, u) + Grant(g, h, u)
    <2>1. CASE g.pending.kind = "skip" /\ g.pending.unit = u
      <3>1. unit.movement = Restorable(g, u)
        BY <1>5, <2>1 DEF CancelMovement, Restorable
      <3> QED BY <1>6, <1>9, <3>1
    <2>2. CASE ~(g.pending.kind = "skip" /\ g.pending.unit = u)
      <3>1. unit.movement = IF old.posture = "fortified" THEN MaximumMovement(g, u)
                            ELSE old.movement
        BY <1>5, <2>2 DEF CancelMovement
      <3> QED BY <1>6, <1>9, <3>1
    <2> QED BY <2>1, <2>2
  <1>11. unit.movement \in Nat
    BY <1>5, <1>6 DEF CancelMovement, Restorable
  <1>12. h.units[u].movement = unit.movement /\ Restorable(h, u) = 0
    BY <1>4, <1>7
  <1> HIDE DEF unit
  <1>13. 0 + unit.movement + 0 <= old.movement + Restorable(g, u) + Grant(g, h, u)
    BY <1>10, <1>11
  <1> QED BY <1>8, <1>12, <1>13 DEF Covered

LEMMA SkipBooked ==
  ASSUME NEW g \in Game, NEW u \in Units, NEW h, h = AfterSkip(g, u)
  PROVE  OthersKept(g, h, u) /\ Covered(g, h, u, 0)
  <1> DEFINE old == g.units[u]
             unit == AfterSkipTurn(old)
  <1>1. g.units \in [Units -> Unit] /\ old \in Unit
    BY UnitTyping
  <1>2. h.units = [g.units EXCEPT ![u] = unit] /\ h.pending = PendingAfterSkip(g, u)
    BY DEF AfterSkip, Game
  <1>3. h.units[u] = unit /\ \A v \in Units \ {u} : h.units[v] = g.units[v]
    BY <1>1, <1>2
  <1>4. unit.movement = 0
    BY <1>1 DEF AfterSkipTurn, Unit
  <1>5. old.movement \in Nat /\ \A v \in Units : Restorable(g, v) \in Nat
    BY BookTyping
  <1>6. \A v \in Units : Restorable(h, v) = IF v = u THEN old.movement ELSE 0
    BY <1>2 DEF Restorable, PendingAfterSkip
  <1>7. OthersKept(g, h, u)
    BY <1>3, <1>5, <1>6 DEF OthersKept
  <1>8. Grant(g, h, u) \in Nat
    BY BookTyping
  <1>9. h.units[u].movement = 0 /\ Restorable(h, u) = old.movement
    BY <1>3, <1>4, <1>6
  <1>10. 0 + 0 + old.movement <= old.movement + Restorable(g, u) + Grant(g, h, u)
    BY <1>5, <1>8
  <1> QED BY <1>7, <1>9, <1>10 DEF Covered

LEMMA FortifyBooked ==
  ASSUME NEW g \in Game, NEW u \in Units, NEW h, h = AfterFortification(g, u)
  PROVE  OthersKept(g, h, u) /\ Covered(g, h, u, 0)
  <1> DEFINE old == g.units[u]
             unit == AfterFortify(old)
  <1>1. g.units \in [Units -> Unit] /\ old \in Unit
    BY UnitTyping
  <1>2. h.units = [g.units EXCEPT ![u] = unit] /\ h.pending = PendingWithoutUnit(g, u)
    BY DEF AfterFortification, Game
  <1>3. h.units[u] = unit /\ \A v \in Units \ {u} : h.units[v] = g.units[v]
    BY <1>1, <1>2
  <1>4. unit.movement = 0
    BY <1>1 DEF AfterFortify, Unit
  <1>5. old.movement \in Nat /\ \A v \in Units : Restorable(g, v) \in Nat
    BY BookTyping
  <1>6. \A v \in Units : Restorable(h, v) = IF v = u THEN 0 ELSE Restorable(g, v)
    <2>1. u # None
      BY EntityAssumption
    <2> QED BY <1>2, <2>1 DEF Restorable, PendingWithoutUnit, NoPending
  <1>7. OthersKept(g, h, u)
    BY <1>3, <1>5, <1>6 DEF OthersKept
  <1>8. Grant(g, h, u) \in Nat
    BY BookTyping
  <1>9. h.units[u].movement = 0 /\ Restorable(h, u) = 0
    BY <1>3, <1>4, <1>6
  <1>10. 0 + 0 + 0 <= old.movement + Restorable(g, u) + Grant(g, h, u)
    BY <1>5, <1>8
  <1> QED BY <1>7, <1>9, <1>10 DEF Covered

-----------------------------------------------------------------------------
(* The ledger's steps.                                                     *)

LEMMA LedgerStepsAreSteps == [LedgerNext]_ledgerVars => [Next]_vars
  <1>1. game.revision \in ExpectedRevisions
    BY DEF ExpectedRevisions
  <1> QED BY <1>1 DEF LedgerNext, Next, ledgerVars, vars

\* A command that changed the game by what one unit does, booked.
LEMMA BookingKeepsAccounts ==
  ASSUME IInv, IInv', Accounts(game, granted, paid),
         NEW u \in Units, NEW kind, NEW payment \in Nat, game' # game, Book(kind, u),
         payment = IF kind = "move"
                   THEN Lesser(Available(game, u), WalkCost(executed')) ELSE 0,
         OthersKept(game, game', u), Covered(game, game', u, payment)
  PROVE  Accounts(game, granted, paid)'
  <1>1. game \in Game /\ game' \in Game
    BY DEF IInv, TypeOK
  <1>2. granted \in [Units -> Nat] /\ paid \in [Units -> Nat]
    BY DEF Accounts
  <1>3. Accounts(game', [granted EXCEPT ![u] = @ + Grant(game, game', u)],
                        [paid EXCEPT ![u] = @ + payment])
    BY <1>1, AccountsKept
  <1>4. granted' = [granted EXCEPT ![u] = @ + Grant(game, game', u)]
    <2>1. [granted EXCEPT ![u] = @ + 0] = granted
      BY <1>2
    <2> QED BY <2>1 DEF Book, Granted, Grant
  <1>5. paid' = [paid EXCEPT ![u] = @ + payment]
    <2>1. [paid EXCEPT ![u] = @ + 0] = paid
      BY <1>2
    <2> QED BY <2>1 DEF Book
  <1> QED BY <1>3, <1>4, <1>5 DEF Accounts, Restorable

LEMMA LedgerStepPreserves == LInv /\ [LedgerNext]_ledgerVars => LInv'
  <1> SUFFICES ASSUME LInv, [LedgerNext]_ledgerVars PROVE LInv'
    OBVIOUS
  <1>1. IInv /\ IInv' /\ Accounts(game, granted, paid)
    BY LedgerStepsAreSteps, StepPreserves DEF LInv
  <1>2. Sound(game) /\ game \in Game
    BY <1>1 DEF IInv, TypeOK, Sound
  <1>3. ASSUME game' = game, UNCHANGED ledger
        PROVE  Accounts(game, granted, paid)'
    BY <1>1, <1>3 DEF ledger, Accounts, Restorable
  <1>4. ASSUME NEW actor, NEW u, NEW target, NEW expected,
               Move(actor, u, target, expected), Book("move", u)
        PROVE  Accounts(game, granted, paid)'
    <2> DEFINE plan == Plan(game, actor, u, target, expected)
    <2>1. CASE game' = game
      BY <1>3, <1>4, <2>1 DEF Book
    <2>2. CASE game' # game
      <3>1. plan.refusal = ""
        BY <1>4, <2>2 DEF Move, vars
      <3>2. u \in Units /\ plan.routes = PlannedRoutes(game, u, target)
        BY <3>1, AcceptedPlan
      <3> HIDE DEF plan
      <3>3. PICK route \in PlannedRoutes(game, u, target) :
               \E k \in ReachedIndex(route, Available(game, u)) :
                  Settle(AfterMove(game, u, MovedUnit(game, u, route, k)),
                         MoveEvidence(game, u, route, k))
        BY <1>4, <2>2, <3>1, <3>2 DEF Move, vars, plan
      <3>4. PICK k \in ReachedIndex(route, Available(game, u)) :
               Settle(AfterMove(game, u, MovedUnit(game, u, route, k)),
                      MoveEvidence(game, u, route, k))
        BY <3>3
      <3>5. /\ game' = AfterMove(game, u, MovedUnit(game, u, route, k))
            /\ executed' = MoveEvidence(game, u, route, k)
        BY <2>2, <3>4 DEF Settle
      <3> DEFINE payment == Lesser(Available(game, u), WalkCost(executed'))
      <3>6. /\ payment \in Nat /\ OthersKept(game, game', u)
            /\ Covered(game, game', u, payment)
        <4>1. payment = Lesser(Available(game, u),
                               WalkCost(MoveEvidence(game, u, route, k)))
          BY <3>5
        <4> HIDE DEF payment
        <4> QED BY <1>2, <3>2, <3>5, <4>1, MoveBooked
      <3> QED BY <1>1, <1>4, <2>2, <3>2, <3>6, BookingKeepsAccounts
    <2> QED BY <2>1, <2>2
  <1>5. ASSUME NEW actor, NEW u, NEW kind \in ActionKinds, NEW expected, NEW candidate,
               ActionRefusal(game, actor, u, kind, expected) = "",
               Settle(candidate, NoEvidence), Book(kind, u),
               u \in Units => OthersKept(game, candidate, u) /\ Covered(game, candidate, u, 0)
        PROVE  Accounts(game, granted, paid)'
    <2>1. CASE game' = game
      BY <1>3, <1>5, <2>1 DEF Book
    <2>2. CASE game' # game
      <3>1. u \in Units /\ game' = candidate
        BY <1>5, <2>2 DEF ActionRefusal, Settle
      <3>2. kind # "move" /\ 0 \in Nat
        BY DEF ActionKinds
      <3>3. OthersKept(game, game', u) /\ Covered(game, game', u, 0)
        BY <1>5, <3>1
      <3> QED BY <1>1, <1>5, <2>2, <3>1, <3>2, <3>3, BookingKeepsAccounts
    <2> QED BY <2>1, <2>2
  <1>6. "cancel" \in ActionKinds /\ "skip" \in ActionKinds /\ "fortify" \in ActionKinds
    BY DEF ActionKinds
  <1>7. ASSUME NEW actor, NEW u, NEW expected, Cancel(actor, u, expected),
               Book("cancel", u)
        PROVE  Accounts(game, granted, paid)'
    BY <1>2, <1>5, <1>6, <1>7, CancelBooked DEF Cancel
  <1>8. ASSUME NEW actor, NEW u, NEW expected, Skip(actor, u, expected), Book("skip", u)
        PROVE  Accounts(game, granted, paid)'
    BY <1>2, <1>5, <1>6, <1>8, SkipBooked DEF Skip
  <1>9. ASSUME NEW actor, NEW u, NEW expected, Fortify(actor, u, expected),
               Book("fortify", u)
        PROVE  Accounts(game, granted, paid)'
    BY <1>2, <1>5, <1>6, <1>9, FortifyBooked DEF Fortify
  <1>10. ASSUME NEW actor, NEW u, NEW kind, NEW expected,
                RefuseAction(actor, u, kind, expected), UNCHANGED ledger
         PROVE  Accounts(game, granted, paid)'
    BY <1>3, <1>10 DEF RefuseAction, vars
  <1>11. CASE UNCHANGED ledgerVars
    BY <1>1, <1>3, <1>11 DEF ledgerVars, LInv
  <1>12. CASE LedgerNext
    BY <1>1, <1>4, <1>7, <1>8, <1>9, <1>10, <1>12 DEF LedgerNext, LInv
  <1> QED BY <1>11, <1>12

LEMMA LedgerInitEstablishes == LedgerInit => LInv
  <1> SUFFICES ASSUME LedgerInit PROVE LInv
    OBVIOUS
  <1>1. IInv
    BY InitEstablishes DEF LedgerInit
  <1>2. game \in Game
    BY <1>1 DEF IInv, TypeOK
  <1>3. \A u \in Units : game.units[u].movement \in Nat /\ Restorable(game, u) \in Nat
    BY <1>2, BookTyping
  <1>4. /\ granted = [u \in Units |-> game.units[u].movement + Restorable(game, u)]
        /\ paid = [u \in Units |-> 0]
    BY DEF LedgerInit
  <1>5. Accounts(game, granted, paid)
    BY <1>3, <1>4 DEF Accounts
  <1> QED BY <1>1, <1>5 DEF LInv

\* A turn's accounts are kept along with the invariant of the engine.
THEOREM LedgerInvariant == LedgerSpec => []LInv
  <1>1. LInv /\ [LedgerNext]_ledgerVars => LInv'
    BY LedgerStepPreserves
  <1> QED BY <1>1, LedgerInitEstablishes, PTL DEF LedgerSpec

\* Keeping accounts changes nothing: every turn with its accounts is a
\* behaviour of the engine, so what is proved of the engine holds in it.
THEOREM LedgersOnlyWatch == LedgerSpec => Spec
  <1>1. LedgerInit => Init
    BY DEF LedgerInit
  <1>2. [LedgerNext]_ledgerVars => [Next]_vars
    BY LedgerStepsAreSteps
  <1> QED BY <1>1, <1>2, PTL DEF LedgerSpec, Spec

\* Whatever has been ordered in a turn: what the engine plans it can execute,
\* its overlay shows what it would plan, and neither tells of what is hidden.
THEOREM TurnsArePlanned ==
    LedgerSpec => [](PlansExecute /\ OverlayMatchesPlan /\ QueriesBlindToHidden)
  <1> QED BY LedgersOnlyWatch, PlansAreExecuted, OverlaysArePlanned,
             QueriesDiscloseNothing, PTL

\* What a unit paid for its walks, has left and could take back from a skip
\* is never more than what it had and was granted, in whatever order it is
\* moved, skipped, cancelled and fortified.
THEOREM TurnsBalance == LedgerSpec => []MovementIsConserved
  <1>1. LInv => MovementIsConserved
    BY DEF LInv, Accounts, MovementIsConserved
  <1> QED BY <1>1, LedgerInvariant, PTL

-----------------------------------------------------------------------------
(* Moves that are stopped.                                                 *)

\* Every kind of unit that has a definition has movement points, with an
\* artifact as without one.
EveryKindMoves == \A u \in Defined : Maximum[u] > 0 /\ ArtifactMaximum[u] > 0

\* An accepted plan goes somewhere.
LEMMA PlansLeadAway ==
  ASSUME NEW g \in Game, NEW u \in Units, NEW target,
         target # Position(g, u), NEW route \in PlannedRoutes(g, u, target)
  PROVE  Len(route) >= 2
  <1>1. Travels(route, g, u) /\ Len(route) \in Nat /\ Len(route) >= 1
    BY PlannedFacts
  <1>2. CASE KnownBlockers(g, u, target) # {}
    BY <1>1, <1>2 DEF PlannedRoutes
  <1>3. CASE KnownBlockers(g, u, target) = {}
    <2>1. route \in BestRoutes(g, u, {target})
      BY <1>3 DEF PlannedRoutes
    <2>2. route \in Routes(g, u, {target}, MaximumMovement(g, u))
      BY <2>1 DEF BestRoutes
    <2>3. route[Len(route)].tile \in {target}
      BY <2>2, RouteEnds
    <2> QED BY <1>1, <2>3, PlannedEnds
  <1> QED BY <1>2, <1>3

\* A unit that a turn takes nowhere, though nothing was in the way, has no
\* movement to start with.
LEMMA IdleMeansSpent ==
  ASSUME NEW g \in Game, NEW u \in Units, NEW route, Travels(route, g, u),
         Len(route) >= 2, 1 \in ReachedIndex(route, Available(g, u))
  PROVE  Available(g, u) = 0
  <1>0. Len(route) \in Nat /\ 2 \in 2 .. Len(route) /\ 2 - 1 = 1
    BY DEF Travels
  <1>1. /\ route[2] \in MovementStep /\ route[1].cumulative = 0
        /\ route[2].enter > 0
        /\ route[2].cumulative = route[1].cumulative + route[2].enter
    BY <1>0 DEF Travels
  <1>2. route[2].enter \in Nat
    BY <1>1, BalanceAssumption DEF MovementStep
  <1>3. ~PaidFor(route[2], Available(g, u))
    BY <1>1 DEF ReachedIndex
  <1>4. Available(g, u) \in Nat
    BY BookTyping
  <1>5. route[2].cumulative = route[2].enter
    BY <1>1, <1>2
  <1>6. ~(route[2].enter - route[2].enter < Available(g, u))
    BY <1>3, <1>5 DEF PaidFor
  <1> QED BY <1>2, <1>4, <1>6

LEMMA StoppedUnit ==
  ASSUME EveryKindMoves, NEW g \in Game, NEW u \in Units \cap Defined, NEW target,
         target # Position(g, u), NEW route \in PlannedRoutes(g, u, target),
         NEW k \in ReachedIndex(route, Available(g, u)),
         MoveEvidence(g, u, route, k) = NoEvidence,
         MovedUnit(g, u, route, k).queued = g.units[u].queued
  PROVE  MovedUnit(g, u, route, k) = [g.units[u] EXCEPT !.posture = "active"]
  <1> DEFINE old == g.units[u]
             unit == MovedUnit(g, u, route, k)
  <1>1. old \in Unit
    BY UnitTyping
  <1>2. CASE HiddenBlocker(g, u, route, k)
    BY <1>1, <1>2 DEF MovedUnit, AfterMovement, Unit
  <1>3. CASE ~HiddenBlocker(g, u, route, k)
    <2>1. Travels(route, g, u) /\ Len(route) \in Nat /\ Len(route) >= 2
      BY PlannedFacts, PlansLeadAway
    <2>2. k \in 1 .. Len(route)
      BY WalkFacts
    <2> DEFINE left == Remaining(Available(g, u), route[k].cumulative)
               queued == IF k = Len(route) THEN <<>> ELSE Rebased(route, k)
    <2>3. unit = AfterMovement(old, route[k].tile, left, queued)
      BY <1>3 DEF MovedUnit
    <2>4. unit.position = Position(g, u)
      <3>1. u # None
        BY EntityAssumption
      <3> HIDE DEF unit
      <3>2. ASSUME unit.position # Position(g, u) PROVE FALSE
        <4>1. MoveEvidence(g, u, route, k).unit = u
          BY <3>2 DEF MoveEvidence, unit
        <4> QED BY <3>1, <4>1 DEF NoEvidence
      <3> QED BY <3>2
    <2> HIDE DEF unit
    <2>5. /\ unit.position = route[k].tile /\ unit.movement = left
          /\ unit.queued = queued
      BY <1>1, <2>3 DEF AfterMovement, Unit
    <2>6. k = 1
      <3>1. \A i \in 2 .. Len(route) : route[i].tile # Position(g, u)
        BY <2>1 DEF Travels
      <3> QED BY <2>1, <2>2, <2>4, <2>5, <3>1
    <2>7. Available(g, u) = 0
      BY <2>1, <2>6, IdleMeansSpent
    <2>8. old.posture # "fortified"
      <3>1. MaximumMovement(g, u) > 0
        BY BalanceAssumption DEF MaximumMovement, EveryKindMoves
      <3> QED BY <2>7, <3>1 DEF Available
    <2>9. old.movement = 0
      BY <2>7, <2>8 DEF Available
    <2>10. left = 0
      BY <2>1, <2>6, <2>7 DEF Remaining, Travels
    <2>11. route[k].tile = old.position
      BY <2>4, <2>5 DEF Position
    <2>12. queued = old.queued
      BY <2>5 DEF unit
    <2> HIDE DEF left, queued
    <2>13. unit = AfterMovement(old, old.position, old.movement, old.queued)
      BY <2>3, <2>9, <2>10, <2>11, <2>12
    <2>14. unit = [old EXCEPT !.posture = "active"]
      BY <1>1, <2>13 DEF AfterMovement, Unit
    <2> QED BY <2>14 DEF unit
  <1> QED BY <1>2, <1>3

\* A move that walked nowhere and queued nothing new has left the unit what
\* it had, and at most woken it: what stopped it was hidden occupancy, which
\* costs nothing, or it had no movement to lose.
THEOREM StoppedMovesAreFree ==
  ASSUME EveryKindMoves
  PROVE  LedgerSpec => StoppedMoveOnlyWakes
  <1> DEFINE Stopped(u) ==
                /\ command'.kind = "move" /\ command'.unit = u /\ game' # game
                /\ executed' = NoEvidence
                /\ game'.units[u].queued = game.units[u].queued
             Free == \A u \in Units : Stopped(u) =>
                        game'.units[u] = [game.units[u] EXCEPT !.posture = "active"]
  <1>1. ASSUME LInv, NEW actor, NEW u, NEW target, NEW expected,
               Move(actor, u, target, expected), Book("move", u)
        PROVE  Free
    <2> SUFFICES ASSUME NEW v \in Units, Stopped(v)
                 PROVE  game'.units[v] = [game.units[v] EXCEPT !.posture = "active"]
      OBVIOUS
    <2> DEFINE plan == Plan(game, actor, u, target, expected)
    <2>1. game \in Game
      BY <1>1 DEF LInv, IInv, TypeOK
    <2>2. v = u
      BY <1>1 DEF Book
    <2>3. plan.refusal = ""
      BY <1>1 DEF Move, vars
    <2>4. u \in Units /\ plan.routes = PlannedRoutes(game, u, target)
      BY <2>3, AcceptedPlan
    <2>5. u \in Defined /\ target # Position(game, u)
      <3>1. RequestRefusal(game, actor, u, target, expected) = ""
        BY <2>3 DEF Plan
      <3>2. UnitRefusal(game, actor, u) = "" /\ TargetRefusal(game, u, target) = ""
        BY <3>1 DEF RequestRefusal
      <3> QED BY <3>2 DEF UnitRefusal, TargetRefusal
    <2> HIDE DEF plan
    <2>6. PICK route \in PlannedRoutes(game, u, target) :
             \E k \in ReachedIndex(route, Available(game, u)) :
                Settle(AfterMove(game, u, MovedUnit(game, u, route, k)),
                       MoveEvidence(game, u, route, k))
      BY <1>1, <2>3, <2>4 DEF Move, vars, plan
    <2>7. PICK k \in ReachedIndex(route, Available(game, u)) :
             Settle(AfterMove(game, u, MovedUnit(game, u, route, k)),
                    MoveEvidence(game, u, route, k))
      BY <2>6
    <2>8. /\ game' = AfterMove(game, u, MovedUnit(game, u, route, k))
          /\ executed' = MoveEvidence(game, u, route, k)
      BY <2>7 DEF Settle
    <2>9. game'.units[u] = MovedUnit(game, u, route, k)
      <3>1. game'.units = [game.units EXCEPT ![u] = MovedUnit(game, u, route, k)]
        BY <2>1, <2>4, <2>8, AfterMoveUnits
      <3> QED BY <2>1, <2>4, <3>1, UnitTyping
    <2>10. /\ MoveEvidence(game, u, route, k) = NoEvidence
           /\ MovedUnit(game, u, route, k).queued = game.units[u].queued
      BY <2>2, <2>8, <2>9
    <2>11. MovedUnit(game, u, route, k) = [game.units[u] EXCEPT !.posture = "active"]
      BY <2>1, <2>4, <2>5, <2>10, StoppedUnit
    <2> QED BY <2>2, <2>9, <2>11
  <1>2. ASSUME NEW u, NEW kind \in ActionKinds, Book(kind, u)
        PROVE  Free
    <2>1. game' # game => command'.kind # "move"
      BY <1>2 DEF Book, ActionKinds
    <2> QED BY <2>1
  <1>3. ASSUME game' = game PROVE Free
    BY <1>3
  <1> HIDE DEF Free
  <1>4. LInv /\ [LedgerNext]_ledgerVars => [Free]_ledgerVars
    <2> SUFFICES ASSUME LInv, LedgerNext PROVE Free
      OBVIOUS
    <2>1. "cancel" \in ActionKinds /\ "skip" \in ActionKinds /\ "fortify" \in ActionKinds
      BY DEF ActionKinds
    <2> QED BY <1>1, <1>2, <1>3, <2>1 DEF LedgerNext, RefuseAction, vars
  <1>5. LedgerSpec => [][Free]_ledgerVars
    BY <1>4, LedgerInvariant, PTL DEF LedgerSpec
  <1> QED BY <1>5 DEF Free, StoppedMoveOnlyWakes
=============================================================================
