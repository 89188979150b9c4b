------------------------------ MODULE Commands ------------------------------
(***************************************************************************)
(* The command family of aonw_engine: what each command refuses, in the    *)
(* order the code looks for it, and what an accepted command makes of a    *)
(* game.  No operator here has state: module GameEngine runs them as a     *)
(* state machine, module LocalRuntime as the commands of a session.        *)
(***************************************************************************)
EXTENDS GameState

\* What a move tells its caller: the unit, where it was, the tiles it walked.
Evidence == [unit : Units \cup {None}, from : Tiles \cup {None}, steps : Seq(MovementStep)]
NoEvidence == [unit |-> None, from |-> None, steps |-> <<>>]

-----------------------------------------------------------------------------
(* Refusals, in the order the code looks for them; "" is none.             *)

UnitRefusal(g, actor, u) ==
    IF u \notin Units THEN "unit_not_found"
    ELSE IF Owner[u] # actor THEN "unit_not_controlled"
    ELSE IF BlocksManualMovement(g.units[u]) \/ u \notin Defined THEN "unit_unavailable"
    ELSE IF u \in Traders THEN "unit_uses_trade_routes"
    ELSE IF Position(g, u) \notin Tiles THEN "unit_out_of_bounds"
    ELSE ""

TargetRefusal(g, u, target) ==
    IF target \notin Tiles THEN "move_target_out_of_bounds"
    ELSE IF target = Position(g, u) THEN "move_target_is_current_tile"
    ELSE IF CityBlockKnown(g, u, target) THEN "move_target_is_foreign_city_center"
    ELSE ""

KnownBlockers(g, u, target) ==
    {v \in Units \ {u} : Position(g, v) = target /\ Observes(g, u, v)}

\* The routes a plan may settle on.  Next to a known blocker is as far as a
\* plan goes; a blocker of the same player must be out of this turn's reach.
PlannedRoutes(g, u, target) ==
    IF KnownBlockers(g, u, target) = {} THEN BestRoutes(g, u, {target})
    ELSE {route \in BestRoutes(g, u, Neighbors(target)) :
            /\ Len(route) > 1
            /\ \/ \A v \in KnownBlockers(g, u, target) : Owner[v] # Owner[u]
               \/ route[Len(route)].cumulative > Available(g, u)}

RouteRefusal(g, u, target, routes) ==
    IF routes # {} THEN ""
    ELSE IF KnownBlockers(g, u, target) # {} THEN "move_target_occupied"
    ELSE IF ReachableIgnoringCapacity(g, u, target) THEN "unit_movement_capacity_insufficient"
    ELSE "move_path_not_found"

\* What is refused before a route is looked for.
RequestRefusal(g, actor, u, target, expected) ==
    IF g.revision # expected THEN "stale_revision"
    ELSE IF UnitRefusal(g, actor, u) # "" THEN UnitRefusal(g, actor, u)
    ELSE TargetRefusal(g, u, target)

\* plan_terrain_route: the refusal, or else the routes the plan may be.
Plan(g, actor, u, target, expected) ==
    LET refusal == RequestRefusal(g, actor, u, target, expected)
        routes == IF refusal = "" THEN PlannedRoutes(g, u, target) ELSE {}
    IN  [routes |-> routes,
         refusal |-> IF refusal = "" THEN RouteRefusal(g, u, target, routes) ELSE refusal]

ActionKinds == {"cancel", "skip", "fortify"}

ActionRefusal(g, actor, u, kind, expected) ==
    IF g.revision # expected THEN "stale_state_revision"
    ELSE IF u \notin Units THEN "unit_not_found"
    ELSE IF Owner[u] # actor THEN "unit_not_controlled"
    ELSE IF kind = "fortify" /\ BlocksManualMovement(g.units[u]) THEN "unit_busy"
    ELSE IF kind = "cancel" /\ u \notin Defined THEN "unit_definition_missing"
    ELSE IF g.revision = MaxRevision THEN "state_revision_overflow"
    ELSE ""

-----------------------------------------------------------------------------
(* Accepted moves.                                                         *)

\* Fault: a hidden city does not stop a move.
HiddenBlocker_UnitsOnly(g, u, route, k) ==
    \E i \in 2 .. k : \E v \in Units \ {u} :
        Position(g, v) = route[i].tile /\ Owner[v] # Owner[u] /\ ~Observes(g, u, v)

\* Only when it applies a move does the engine look at what the player does
\* not see: a unit or a city standing in this turn's part of the route.
HiddenBlocker(g, u, route, k) ==
    \E i \in 2 .. k :
        \/ \E v \in Units \ {u} :
              Position(g, v) = route[i].tile /\ Owner[v] # Owner[u] /\ ~Observes(g, u, v)
        \/ CityBlocks(g, u, route[i].tile) /\ ~CityBlockKnown(g, u, route[i].tile)

\* Fault: the unit pays for the way it was not let.
MovedUnit_Charged(g, u, route, k) ==
    LET unit == g.units[u]
        left == Remaining(Available(g, u), route[k].cumulative)
    IN  IF HiddenBlocker(g, u, route, k)
        THEN AfterMovement(unit, unit.position, left, unit.queued)
        ELSE AfterMovement(unit, route[k].tile, left,
                           IF k = Len(route) THEN <<>> ELSE Rebased(route, k))

\* A hidden blocker leaves the unit where it is, awake.
MovedUnit(g, u, route, k) ==
    LET unit == g.units[u]
    IN  IF HiddenBlocker(g, u, route, k)
        THEN AfterMovement(unit, unit.position, unit.movement, unit.queued)
        ELSE AfterMovement(unit, route[k].tile,
                           Remaining(Available(g, u), route[k].cumulative),
                           IF k = Len(route) THEN <<>> ELSE Rebased(route, k))

\* The rest of a route that does not fit into the turn is queued, unless its
\* costs overflow or QueuedMovePath::try_new refuses it: the command is then
\* refused as "invalid_queued_movement_path".
Queueable(g, u, route, k) ==
    \/ HiddenBlocker(g, u, route, k)
    \/ k = Len(route)
    \/ Rebased(route, k) \in Seq(MovementStep) /\ ValidQueuedPath(Rebased(route, k))

\* Fault: contacts are looked for before the fog is brought up to date.
AfterMove_ContactsFirst(g, u, unit) ==
    LET moved == [g EXCEPT !.revision = @ + 1, !.units[u] = unit]
    IN  IF unit.position = Position(g, u) THEN moved
        ELSE [moved EXCEPT !.fog = RecomputedFog(moved, Owner[u]),
                           !.contacts = @ \cup SightedPairs(moved)]

\* The game after a unit changed: fog and contacts follow a change of tile.
AfterMove(g, u, unit) ==
    LET moved == [g EXCEPT !.revision = @ + 1, !.units[u] = unit]
        seen == [moved EXCEPT !.fog = RecomputedFog(moved, Owner[u])]
    IN  IF unit.position = Position(g, u) THEN moved
        ELSE [seen EXCEPT !.contacts = @ \cup SightedPairs(seen)]

MoveEvidence(g, u, route, k) ==
    IF MovedUnit(g, u, route, k).position = Position(g, u) THEN NoEvidence
    ELSE [unit |-> u, from |-> Position(g, u), steps |-> SubSeq(route, 2, k)]

-----------------------------------------------------------------------------
(* Accepted unit actions.                                                  *)

\* What an accepted unit action makes of the game.
AfterCancel(g, u) ==
    [g EXCEPT !.revision = @ + 1,
              !.units[u] = AfterCancelAction(g.units[u], CancelMovement(g, u)),
              !.pending = PendingWithoutUnit(g, u),
              !.draft = DraftWithoutUnit(g, u),
              !.artifacts = [a \in Artifacts |->
                  IF a = g.units[u].excavating
                  THEN RestoreExcavation(g.artifacts[a], u) ELSE g.artifacts[a]]]

AfterSkip(g, u) ==
    [g EXCEPT !.revision = @ + 1,
              !.units[u] = AfterSkipTurn(g.units[u]),
              !.pending = PendingAfterSkip(g, u),
              !.draft = DraftWithoutUnit(g, u)]

AfterFortification(g, u) ==
    [g EXCEPT !.revision = @ + 1,
              !.units[u] = AfterFortify(g.units[u]),
              !.pending = PendingWithoutUnit(g, u),
              !.draft = DraftWithoutUnit(g, u)]
=============================================================================
