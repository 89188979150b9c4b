----------------------------- MODULE PlannedTurn -----------------------------
(***************************************************************************)
(* The engine of TurnLedger with the planner of RouteSearch in it: between *)
(* two commands anyone may ask for plans, and while one is looked for the  *)
(* game, which the planner has borrowed, stands still.                     *)
(***************************************************************************)
EXTENDS TurnLedger, RouteSearch

CONSTANT MaxAsked   \* the last revision at which plans are asked for

plannedVars == <<ledgerVars, searchVars>>

PlannedInit == LedgerInit /\ SearchInit

Command == stage = "idle" /\ LedgerNext /\ UNCHANGED searchVars

AskPlan(u, target) ==
    game.revision <= MaxAsked /\ Ask(game, u, target) /\ UNCHANGED ledgerVars

Search == SearchStep(game) /\ UNCHANGED ledgerVars

HandOut == HandOver /\ UNCHANGED ledgerVars

PlannedNext ==
    \/ Command
    \/ \E u \in Units, target \in Tiles : AskPlan(u, target)
    \/ Search
    \/ HandOut

PlannedSpec == PlannedInit /\ [][PlannedNext]_plannedVars

\* A search runs on the caller's thread until it has its answer.
FairPlannedSpec == PlannedSpec /\ WF_plannedVars(Search)

-----------------------------------------------------------------------------

\* The best-first search answers what a plan has to be: the refusal Plan has
\* for it, or one of the routes of least turns, cost and steps, although it
\* keeps one score for a node, drops overtaken records and stops at the first
\* tile sought that comes off its heap.
AnswersArePlans ==
    stage = "answered" =>
        LET plan == Plan(game, Owner[asked.unit], asked.unit, asked.target, game.revision)
        IN  /\ answer.refusal = plan.refusal
            /\ answer.refusal = "" => answer.route \in plan.routes

\* What has left the heap is settled: no better way to a node is found once
\* its record has been expanded, so no node is expanded twice.
SettledStays ==
    [][stage' = stage /\ Searching => best \ frontier \subseteq best']_plannedVars

\* Every plan that is asked for is answered.
PlansAreAnswered == Searching ~> stage = "answered"
=============================================================================
