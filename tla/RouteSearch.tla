----------------------------- MODULE RouteSearch -----------------------------
(***************************************************************************)
(* How aonw_engine plans a route: plan_terrain_route as a state machine    *)
(* over a game that does not change meanwhile, with the best-first search  *)
(* of route_search.rs run node by node and edge by edge.  A node is a tile *)
(* together with the movement left there: the search keeps the best score  *)
(* of every node, and a heap of the records still to be expanded, some of  *)
(* which have been overtaken by better ones.                               *)
(*                                                                         *)
(* What a plan has to be is operator Plan of Commands, which knows nothing *)
(* of records and heaps.                                                   *)
(***************************************************************************)
EXTENDS Commands

CONSTANT MaxSteps       \* the largest u16, the type of a score's step count

\* The most a tile costs to enter: snow with every feature that slows.
DearestEntry == 14

\* No map is so large that the score of a shortest way would not fit: with
\* 40 x 30 tiles and the contract's movement limit of 14, a product of 50400.
ASSUME CounterAssumption ==
    /\ MaxSteps \in Nat /\ MaxSteps <= MaxCost
    /\ Cols * Rows * (MovementLimit + 2 * DearestEntry) <= MaxSteps

VARIABLES
    stage,      \* the search that runs, if one does
    asked,      \* the plan asked for: its unit and its target
    records,    \* the records retained, each a node with how it was come to
    best,       \* best_by_tile: the record that holds each node's best score
    frontier,   \* the records on the heap
    current,    \* the record whose neighbours are looked at, 0 for none
    direction,  \* where its next neighbour lies
    answer      \* what the plan comes to

heap == <<records, best, frontier, current, direction>>
searchVars == <<stage, asked, heap, answer>>

\* The first search is bound by the unit's allowance; when it finds nothing a
\* second one tells whether the allowance is to blame.
Searching == stage \in {"allowance", "diagnosis"}

NoAnswer == [refusal |-> "", route |-> <<>>]
Refuse(refusal) == stage' = "answered" /\ answer' = [refusal |-> refusal, route |-> <<>>]
Accept(route) == stage' = "answered" /\ answer' = [refusal |-> "", route |-> route]

-----------------------------------------------------------------------------
(* Nodes and records.                                                      *)

\* The record of the tile of departure.
Departure(g, u) ==
    [state |-> [tile |-> Position(g, u), remaining |-> Available(g, u), started |-> FALSE],
     score |-> <<0, 0, 0>>, parent |-> 0, enter |-> 0]

\* advance_route: the turns a route takes and the movement left at a tile
\* entered at the given cost.
Advanced(record, cost, maximum) ==
    LET left == record.state.remaining
        turns == IF record.state.started THEN record.score[1] ELSE record.score[1] + 1
    IN  IF cost <= left THEN [turns |-> turns, remaining |-> left - cost]
        ELSE IF left > 0 THEN [turns |-> turns, remaining |-> 0]
        ELSE [turns |-> turns + 1, remaining |-> Remaining(maximum, cost)]

\* The record of a tile entered from the one of a record.
Entered(record, parent, tile, cost, maximum) ==
    LET advanced == Advanced(record, cost, maximum)
    IN  [state |-> [tile |-> tile, remaining |-> advanced.remaining, started |-> TRUE],
         score |-> <<advanced.turns, record.score[2] + cost, record.score[3] + 1>>,
         parent |-> parent, enter |-> cost]

\* A score that its counters hold: an edge past them is not followed.
Fits(score) == score[1] <= MaxCost /\ score[2] <= MaxCost /\ score[3] <= MaxSteps

\* The edges of the map a search follows.
CanEnter(g, u, from, to, maximum) ==
    to \in Neighbors(from) \cap Open(g, u) /\ CanPay(g, u, from, to, maximum)

Holders(state) == {j \in best : records[j].state = state}

\* record_if_better: no record of the node is as good.
Improves(record) ==
    \A j \in Holders(record.state) : ~NoWorse(records[j].score, record.score)

\* Fault: the heap goes by cost before it goes by turns.
Rank_CostFirst(i) ==
    LET state == records[i].state
        score == records[i].score
    IN  <<score[2], score[1], score[3]>> \o state.tile \o <<0 - state.remaining, i>>

\* The order of the heap: score, column, row, most movement left, first come.
Rank(i) ==
    LET state == records[i].state
    IN  records[i].score \o state.tile \o <<0 - state.remaining, i>>

Precedes(a, b) == \E k \in DOMAIN a : a[k] < b[k] /\ \A m \in 1 .. k - 1 : a[m] = b[m]

\* Fault: BinaryHeap pops the greatest, and the order is not reversed.
IsTop_Last(i) ==
    i \in frontier /\ \A j \in frontier \ {i} : Precedes(Rank(j), Rank(i))

IsTop(i) == i \in frontier /\ \A j \in frontier \ {i} : Precedes(Rank(i), Rank(j))

\* reconstruct_route: back along the parents to the record without one.
Reconstructed(i) ==
    LET back[n \in 1 .. Len(records)] ==
            IF n = 1 THEN i
            ELSE IF back[n - 1] = 0 THEN 0 ELSE records[back[n - 1]].parent
        length == CHOOSE n \in 1 .. Len(records) :
                      back[n] # 0 /\ records[back[n]].parent = 0
    IN  [k \in 1 .. length |->
            LET record == records[back[length - k + 1]]
            IN  [tile |-> record.state.tile, enter |-> record.enter,
                 cumulative |-> record.score[2]]]

-----------------------------------------------------------------------------
(* A plan, step by step.  Game g is the one the plan is for.               *)

Nothing == [unit |-> None, target |-> None]

SearchInit ==
    /\ stage = "idle" /\ asked = Nothing /\ answer = NoAnswer
    /\ records = <<>> /\ best = {} /\ frontier = {} /\ current = 0 /\ direction = 1

\* A search starts from nothing but the tile of departure.
Prepare(g, u) ==
    /\ records' = <<Departure(g, u)>> /\ best' = {1} /\ frontier' = {1}
    /\ current' = 0 /\ direction' = 1

\* A plan that is not refused outright is looked for.
Ask(g, u, target) ==
    /\ stage = "idle"
    /\ RequestRefusal(g, Owner[u], u, target, g.revision) = ""
    /\ stage' = "allowance" /\ asked' = [unit |-> u, target |-> target]
    /\ Prepare(g, u)
    /\ UNCHANGED answer

Blockers(g) == KnownBlockers(g, asked.unit, asked.target)

\* Next to a known blocker is as far as a plan goes; only without one is
\* there a diagnosis.
Sought(g) == IF Blockers(g) = {} THEN {asked.target} ELSE Neighbors(asked.target)

Ceiling(g) ==
    IF stage = "diagnosis" THEN DearestTile(g, asked.unit)
    ELSE MaximumMovement(g, asked.unit)

\* The search looks at the next record of the heap.
Pops(i) == Searching /\ current = 0 /\ IsTop(i)

\* Fault: the heap is only peeked at.
Drop_Peeks(i) == Pops(i) /\ i \notin best /\ UNCHANGED searchVars

\* A record that has been overtaken is dropped.
Drop(i) ==
    /\ Pops(i) /\ i \notin best
    /\ frontier' = frontier \ {i}
    /\ UNCHANGED <<stage, asked, records, best, current, direction, answer>>

Expand(g, i) ==
    /\ Pops(i) /\ i \in best /\ records[i].state.tile \notin Sought(g)
    /\ frontier' = frontier \ {i} /\ current' = i /\ direction' = 1
    /\ UNCHANGED <<stage, asked, records, best, answer>>

\* The tile in the next direction, and how it is entered from the current one.
Here == records[current].state.tile
Ahead == Toward(Here, direction)

Candidate(g) ==
    Entered(records[current], current, Ahead, EnterCost(g, asked.unit, Here, Ahead),
            Ceiling(g))

Retained(g) ==
    /\ CanEnter(g, asked.unit, Here, Ahead, Ceiling(g))
    /\ Fits(Candidate(g).score) /\ Improves(Candidate(g))

Retain(record) ==
    LET added == Len(records) + 1
    IN  /\ records' = Append(records, record)
        /\ best' = (best \ Holders(record.state)) \cup {added}
        /\ frontier' = frontier \cup {added}

Examine(g) ==
    /\ Searching /\ current # 0
    /\ IF Retained(g) THEN Retain(Candidate(g))
       ELSE UNCHANGED <<records, best, frontier>>
    /\ IF direction = 6 THEN current' = 0 /\ direction' = 1
       ELSE current' = current /\ direction' = direction + 1
    /\ UNCHANGED <<stage, asked, answer>>

\* Whether a plan may end next to a blocker: an own one must be out of this
\* turn's reach.
Approaches(g, route, blocker) ==
    /\ Len(route) > 1
    /\ \/ Owner[blocker] # Owner[asked.unit]
       \/ route[Len(route)].cumulative > Available(g, asked.unit)

\* The first tile sought that comes off the heap ends the search.
Arrive(g, i) ==
    /\ Pops(i) /\ i \in best /\ records[i].state.tile \in Sought(g)
    /\ \/ stage = "diagnosis" /\ Refuse("unit_movement_capacity_insufficient")
       \/ stage = "allowance" /\ Blockers(g) = {} /\ Accept(Reconstructed(i))
       \/ /\ stage = "allowance"
          /\ \E blocker \in Blockers(g) :
                IF Approaches(g, Reconstructed(i), blocker) THEN Accept(Reconstructed(i))
                ELSE Refuse("move_target_occupied")
    /\ frontier' = frontier \ {i}
    /\ UNCHANGED <<asked, records, best, current, direction>>

\* Nothing is left on the heap.
Exhaust(g) ==
    /\ Searching /\ current = 0 /\ frontier = {}
    /\ \/ stage = "diagnosis" /\ Refuse("move_path_not_found") /\ UNCHANGED heap
       \/ /\ stage = "allowance" /\ Blockers(g) # {}
          /\ Refuse("move_target_occupied") /\ UNCHANGED heap
       \/ /\ stage = "allowance" /\ Blockers(g) = {}
          /\ stage' = "diagnosis" /\ Prepare(g, asked.unit) /\ UNCHANGED answer
    /\ UNCHANGED asked

SearchStep(g) ==
    \/ \E i \in frontier : Drop(i) \/ Expand(g, i) \/ Arrive(g, i)
    \/ Examine(g)
    \/ Exhaust(g)

\* The answer is handed out and the search forgotten.
HandOver ==
    /\ stage = "answered"
    /\ stage' = "idle" /\ asked' = Nothing /\ answer' = NoAnswer
    /\ records' = <<>> /\ best' = {} /\ frontier' = {} /\ current' = 0 /\ direction' = 1
=============================================================================
