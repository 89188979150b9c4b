----------------------------- MODULE GameEngine -----------------------------
(***************************************************************************)
(* The authoritative engine of aonw_engine: GameEngine::apply_owned as a   *)
(* state machine over one canonical game.  A command is refused, in which  *)
(* case the identical game is returned; or it is accepted and the game is  *)
(* replaced by an updated aggregate; or the updated aggregate is refused   *)
(* by its constructor, a CanonicalEngineError, which is a fault of the     *)
(* engine.                                                                 *)
(***************************************************************************)
EXTENDS Commands

CONSTANT InitialGames   \* the games a host may hand to the engine

ASSUME InitialGamesAssumption ==
    \A g \in InitialGames : g \in Game /\ ValidGame(g)

VARIABLES
    game,       \* the canonical state
    executed,   \* the tiles the last accepted command walked a unit over
    fault       \* a command ended in CanonicalEngineError

vars == <<game, executed, fault>>

TypeOK == game \in Game /\ executed \in Evidence /\ fault \in BOOLEAN

Init == game \in InitialGames /\ executed = NoEvidence /\ fault = FALSE

-----------------------------------------------------------------------------
(* The next-state relation.                                                *)

\* The aggregate's constructor has the last word on every accepted command.
Settle(candidate, evidence) ==
    IF ValidGame(candidate)
    THEN game' = candidate /\ executed' = evidence /\ UNCHANGED fault
    ELSE fault' = TRUE /\ UNCHANGED <<game, executed>>

\* A refused command hands back the state it was given.
Move(actor, u, target, expected) ==
    LET plan == Plan(game, actor, u, target, expected)
    IN  IF game.revision = MaxRevision \/ plan.refusal # ""
        THEN UNCHANGED vars
        ELSE \E route \in plan.routes : \E k \in ReachedIndex(route, Available(game, u)) :
                IF Queueable(game, u, route, k)
                THEN Settle(AfterMove(game, u, MovedUnit(game, u, route, k)),
                            MoveEvidence(game, u, route, k))
                ELSE UNCHANGED vars

Cancel(actor, u, expected) ==
    /\ ActionRefusal(game, actor, u, "cancel", expected) = ""
    /\ Settle(AfterCancel(game, u), NoEvidence)

Skip(actor, u, expected) ==
    /\ ActionRefusal(game, actor, u, "skip", expected) = ""
    /\ Settle(AfterSkip(game, u), NoEvidence)

Fortify(actor, u, expected) ==
    /\ ActionRefusal(game, actor, u, "fortify", expected) = ""
    /\ Settle(AfterFortification(game, u), NoEvidence)

RefuseAction(actor, u, kind, expected) ==
    /\ ActionRefusal(game, actor, u, kind, expected) # ""
    /\ UNCHANGED vars

\* The targets and revisions a caller may send.
OffMap == <<Cols, 0>>
Targets == Tiles \cup {OffMap}
ExpectedRevisions == {game.revision, game.revision + 1}

Next ==
    \E actor \in Players, u \in UnitIds, expected \in ExpectedRevisions :
        \/ \E target \in Targets : Move(actor, u, target, expected)
        \/ Cancel(actor, u, expected)
        \/ Skip(actor, u, expected)
        \/ Fortify(actor, u, expected)
        \/ \E kind \in ActionKinds : RefuseAction(actor, u, kind, expected)

Spec == Init /\ [][Next]_vars
=============================================================================
