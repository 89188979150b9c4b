--------------------------- MODULE GameProperties ---------------------------
(***************************************************************************)
(* What the engine owes its callers, as properties of GameEngine.          *)
(***************************************************************************)
EXTENDS GameEngine

\* No accepted command ever builds an aggregate that its own constructor
\* refuses: apply_owned never returns CanonicalEngineError::State.  The
\* engine re-validates occupancy, artifacts, queued paths and the pending
\* interaction after every command and consumes the old state to do so.
NoFault == ~fault

\* A tile walked over, or stopped at, by a move holds no other unit and no
\* foreign city, whether or not the mover could see it; and the evidence of
\* a move is a chain of neighbours from the old position to the new one.
WalksFreeTiles ==
    [][executed' # executed /\ executed' # NoEvidence =>
        LET u == executed'.unit
            steps == executed'.steps
        IN  /\ executed'.from = Position(game, u)
            /\ steps # <<>> /\ steps[Len(steps)].tile = Position(game', u)
            /\ \A i \in DOMAIN steps :
                  /\ steps[i].tile \in
                        Neighbors(IF i = 1 THEN executed'.from ELSE steps[i - 1].tile)
                  /\ ~CityBlocks(game, u, steps[i].tile)
                  /\ \A v \in Units \ {u} : Position(game, v) # steps[i].tile]_vars

\* What a fogged player is shown is what its units and cities see now: only
\* the mover's fog is recomputed, and only when a unit changed tile, so no
\* other command may make anybody's view out of date.
FogIsCurrent ==
    \A p \in Players : game.fog[p].tracked => game.fog[p].visible = SeenBy(game, p)

\* Two players know each other as soon as one of them sees a unit of the
\* other or knows a city of the other, also when the one that sees did not
\* move: the contact scan runs over all players.
ContactsComplete == SightedPairs(game) \subseteq game.contacts

\* Discoveries and contacts are never lost.
KnowledgeGrows ==
    [][/\ game.contacts \subseteq game'.contacts
       /\ \A p \in Players :
             game.fog[p].tracked =>
                /\ game'.fog[p].tracked
                /\ game.fog[p].discovered \subseteq game'.fog[p].discovered]_vars

\* Every plan the engine hands out can be applied: one prefix of each route
\* is this turn's, and what is left over is a path QueuedMovePath accepts,
\* rooted where the unit stops.
PlansExecute ==
    \A u \in Units, target \in Tiles :
        LET plan == Plan(game, Owner[u], u, target, game.revision)
        IN  plan.refusal = "" =>
            \A route \in plan.routes :
               \E k \in ReachedIndex(route, Available(game, u)) :
                  /\ Queueable(game, u, route, k)
                  /\ k < Len(route) => Rebased(route, k)[1].tile = route[k].tile

\* The reachable overlay and the planner agree, though one minimises cost
\* and the other turns: a tile is in the overlay exactly when a plan for it
\* is accepted and this turn's movement carries the unit all the way.
OverlayMatchesPlan ==
    \A u \in Units :
        UnitRefusal(game, Owner[u], u) = "" =>
        \A target \in Tiles \ {Position(game, u)} :
            LET plan == Plan(game, Owner[u], u, target, game.revision)
                available == Available(game, u)
            IN  target \in ReachableTiles(game, u) <=>
                /\ plan.refusal = ""
                /\ \A route \in plan.routes :
                      /\ route[Len(route)].tile = target
                      /\ Len(route) \in ReachedIndex(route, available)

\* The games that player p cannot tell from g: another player's unseen
\* unit stands on another unseen tile, an unseen city is not there, or an
\* unseen road of another player is or is not there.
Unseen(g, p) == {t \in Tiles : Visibility(g, p, t) # "visible"}
Unknown(g, p) == {t \in Tiles : Visibility(g, p, t) = "hidden"}
Indistinguishable(g, p) ==
    {[g EXCEPT !.units[v].position = t] :
        v \in {w \in Units : Owner[w] # p /\ Position(g, w) \in Unseen(g, p)},
        t \in Unseen(g, p)}
    \cup {[g EXCEPT !.cities = g.cities \ {c}] :
        c \in {d \in g.cities : CityOwner[d] # p /\ CityCenter[d] \in Unknown(g, p)}}
    \cup {[g EXCEPT !.roads = r] :
        r \in {g.roads \cup Unknown(g, p), g.roads \ Unknown(g, p)}
              \cap {r \in SUBSET Tiles :
                      \A t \in Tiles : p \in RoadOwners[t] => (t \in r <=> t \in g.roads)}}

\* Queries disclose nothing: a player's plans and overlays are the same in
\* every game the player cannot tell from this one, so hidden units, cities
\* and roads make no difference before a move is applied.
QueriesBlindToHidden ==
    \A u \in Units :
        LET overlay == ReachableTiles(game, u)
            plan == [t \in Tiles |-> Plan(game, Owner[u], u, t, game.revision)]
        IN  \A g \in Indistinguishable(game, Owner[u]) :
                /\ ReachableTiles(g, u) = overlay
                /\ [t \in Tiles |-> Plan(g, Owner[u], u, t, g.revision)] = plan
=============================================================================
