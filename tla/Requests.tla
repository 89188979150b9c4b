------------------------------ MODULE Requests ------------------------------
(***************************************************************************)
(* What a client of aonw_local_runtime may ask a session and order of it,  *)
(* as operators of the game the engine looks at.  The engine is            *)
(* deterministic: among the best routes it takes a certain one.            *)
(*                                                                         *)
(* A plan is made in a view: the game, with the actor's fog as the caller  *)
(* has it prepared (EngineContext::with_movement_visibility).              *)
(***************************************************************************)
EXTENDS Commands

CONSTANTS
    Openings,    \* what a host may open: a game, an actor, and whether it fits
    Questions,   \* the queries a host may ask
    Orders,      \* the commands a host may dispatch
    MaxOffset    \* the last representable event offset (u64::MAX)

Question ==
    [kind : {"reachable"}, unit : UnitIds, target : {None}]
    \cup [kind : {"routePlan"}, unit : UnitIds, target : Tiles]
Order ==
    [kind : {"move"}, unit : UnitIds, target : Tiles]
    \cup [kind : ActionKinds, unit : UnitIds, target : {None}]

ASSUME RequestAssumption ==
    /\ MaxOffset \in Nat
    /\ Questions \subseteq Question
    /\ Orders \subseteq Order
    /\ \A opening \in Openings :
          /\ opening.game \in Game /\ ValidGame(opening.game)
          /\ \A u \in Units : Len(opening.game.units[u].queued) <= Cols * Rows
          /\ opening.actor \in Players /\ opening.fits \in BOOLEAN

\* A host names the revision it last saw, or one that is not there yet.
Expected(game) == {game.revision, game.revision + 1}

Chosen(routes) == CHOOSE route \in routes : TRUE

-----------------------------------------------------------------------------
(* Queries.                                                                *)

Overlay(view, u, refusal) ==
    [refusal |-> refusal, route |-> <<>>,
     tiles |-> IF refusal = "" THEN ReachableTiles(view, u) ELSE {}]

Route(plan) ==
    [refusal |-> plan.refusal, tiles |-> {},
     route |-> IF plan.refusal = "" THEN Chosen(plan.routes) ELSE <<>>]

\* The refusal, or else the tiles of the overlay, or the route.
Answer(view, actor, question, expected) ==
    LET u == question.unit
    IN  IF question.kind = "reachable"
        THEN Overlay(view, u, IF view.revision # expected THEN "stale_revision"
                              ELSE UnitRefusal(view, actor, u))
        ELSE Route(Plan(view, actor, u, question.target, expected))

-----------------------------------------------------------------------------
(* Commands: DomainTransition as the runtime takes it apart.               *)

Refused(game, code) ==
    [refusal |-> code, game |-> game, evidence |-> NoEvidence, lost |-> FALSE]

\* An accepted command is lost if the aggregate's constructor refuses what
\* the command makes of the game.
Accepted(game, evidence) ==
    [refusal |-> "", game |-> game, evidence |-> evidence, lost |-> ~ValidGame(game)]

MoveTo(game, view, u, route, stop) ==
    IF Queueable(view, u, route, stop)
    THEN Accepted(AfterMove(game, u, MovedUnit(view, u, route, stop)),
                  MoveEvidence(view, u, route, stop))
    ELSE Refused(game, "invalid_queued_movement_path")

MoveAlong(game, view, u, route) ==
    MoveTo(game, view, u, route, CHOOSE k \in ReachedIndex(route, Available(view, u)) : TRUE)

\* The move is planned in the view; fog and contacts are brought up to date
\* in the game itself.
MoveOutcome(game, view, u, plan) ==
    IF plan.refusal # "" THEN Refused(game, plan.refusal)
    ELSE IF game.revision = MaxRevision THEN Refused(game, "state_revision_overflow")
    ELSE MoveAlong(game, view, u, Chosen(plan.routes))

ActionOutcome(game, order, refusal) ==
    LET u == order.unit
    IN  IF refusal # "" THEN Refused(game, refusal)
        ELSE Accepted(CASE order.kind = "cancel" -> AfterCancel(game, u)
                        [] order.kind = "skip" -> AfterSkip(game, u)
                        [] order.kind = "fortify" -> AfterFortification(game, u),
                      NoEvidence)

Outcome(game, view, actor, order, expected) ==
    IF order.kind = "move"
    THEN MoveOutcome(game, view, order.unit,
                     Plan(view, actor, order.unit, order.target, expected))
    ELSE ActionOutcome(game, order,
                       ActionRefusal(game, actor, order.unit, order.kind, expected))

\* The one event there is, UnitMoved, goes with the evidence of a move.
Events(evidence) == IF evidence = NoEvidence THEN 0 ELSE 1

-----------------------------------------------------------------------------
(* What a player is shown.                                                 *)

Shown(game, actor) ==
    [u \in {v \in Units : \/ Owner[v] = actor
                          \/ Visibility(game, actor, Position(game, v)) = "visible"} |->
        [tile |-> Position(game, u), movement |-> game.units[u].movement,
         posture |-> game.units[u].posture]]

\* Fault: units that are no longer seen are not taken off the client's map.
ViewPatch_Additive(before, after) ==
    [changed |-> [u \in {v \in DOMAIN after :
                          v \in DOMAIN before => before[v] # after[v]} |-> after[u]],
     removed |-> {}]

\* diff_view
ViewPatch(before, after) ==
    [changed |-> [u \in {v \in DOMAIN after :
                          v \in DOMAIN before => before[v] # after[v]} |-> after[u]],
     removed |-> DOMAIN before \ DOMAIN after]

\* What a client that applies the patch shows afterwards.
Patched(shown, patch) ==
    [u \in (DOMAIN shown \ patch.removed) \cup DOMAIN patch.changed |->
        IF u \in DOMAIN patch.changed THEN patch.changed[u] ELSE shown[u]]
=============================================================================
