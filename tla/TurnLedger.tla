----------------------------- MODULE TurnLedger -----------------------------
(***************************************************************************)
(* A turn's accounts: GameEngine with history variables that add up, over  *)
(* the commands of one turn, the movement a unit was granted, what it paid *)
(* and what a skip took from it.  The engine has no command that ends a    *)
(* turn, so a behaviour of this module is one turn.                        *)
(***************************************************************************)
EXTENDS GameEngine

VARIABLES
    command,    \* the last accepted command: its kind and its unit
    granted,    \* the movement a unit has been given this turn
    paid,       \* the movement a unit has paid for the tiles it walked
    held        \* what a unit had when it was skipped, None if it is not

ledger == <<command, granted, paid, held>>
ledgerVars == <<game, executed, fault, ledger>>

\* What a pending skip of u would give back.
Restorable(g, u) ==
    IF g.pending.kind = "skip" /\ g.pending.unit = u THEN g.pending.restore ELSE 0

LedgerInit ==
    /\ Init
    /\ command = [kind |-> "none", unit |-> None]
    /\ granted = [u \in Units |-> game.units[u].movement + Restorable(game, u)]
    /\ paid = [u \in Units |-> 0]
    /\ held = [u \in Units |-> None]

Lesser(m, n) == IF m < n THEN m ELSE n

\* The cost of the tiles a move walked.
WalkCost(evidence) ==
    IF evidence.steps = <<>> THEN 0
    ELSE evidence.steps[Len(evidence.steps)].cumulative

\* Waking a fortified unit grants it its allowance.
Granted(u) ==
    IF game.units[u].posture = "fortified" /\ game'.units[u].posture # "fortified"
    THEN [granted EXCEPT ![u] = @ + MaximumMovement(game, u)] ELSE granted

\* A command that is refused, or ends in a fault, is not booked.
Book(kind, u) ==
    IF game' = game THEN UNCHANGED ledger
    ELSE /\ command' = [kind |-> kind, unit |-> u]
         /\ granted' = Granted(u)
         /\ paid' = IF kind = "move"
                    THEN [paid EXCEPT ![u] =
                            @ + Lesser(Available(game, u), WalkCost(executed'))]
                    ELSE paid
         /\ held' = [held EXCEPT ![u] =
                       IF kind # "skip" THEN None
                       ELSE IF @ = None THEN game.units[u].movement ELSE @]

LedgerNext ==
    \E actor \in Players, u \in UnitIds :
        \/ \E target \in Targets : Move(actor, u, target, game.revision) /\ Book("move", u)
        \/ Cancel(actor, u, game.revision) /\ Book("cancel", u)
        \/ Skip(actor, u, game.revision) /\ Book("skip", u)
        \/ Fortify(actor, u, game.revision) /\ Book("fortify", u)
        \/ \E kind \in ActionKinds :
              RefuseAction(actor, u, kind, game.revision) /\ UNCHANGED ledger

LedgerSpec == LedgerInit /\ [][LedgerNext]_ledgerVars

-----------------------------------------------------------------------------

\* Movement comes from nowhere but the turn's grants: what a unit paid, has
\* left and could still get back from a skip never exceeds what it was
\* given, however skips, cancels, moves and fortifications are interleaved.
MovementIsConserved ==
    \A u \in Units :
        paid[u] + game.units[u].movement + Restorable(game, u) <= granted[u]

\* "Reversible current-turn movement skip": cancelling the order of a
\* skipped unit gives back the movement the skip took from it.
SkipIsReversible ==
    [][\A u \in Units :
        command'.kind = "cancel" /\ command'.unit = u /\ game' # game
            /\ held[u] # None
        => game'.units[u].movement = held[u]]_ledgerVars

\* A move that hidden occupancy stops costs nothing, though the plan had
\* counted on the way: the unit that walked nowhere and queued nothing has
\* what it had, and at most has woken up.
StoppedMoveOnlyWakes ==
    [][\A u \in Units :
        /\ command'.kind = "move" /\ command'.unit = u /\ game' # game
        /\ executed' = NoEvidence
        /\ game'.units[u].queued = game.units[u].queued
        => game'.units[u] = [game.units[u] EXCEPT !.posture = "active"]]_ledgerVars
=============================================================================
