---------------------------- MODULE IslandWorld ----------------------------
(***************************************************************************)
(* A 3 x 2 island for TLC.  Woods keep sight short, so that the scout and  *)
(* the port of player q are hidden from player p at first.  The ranger     *)
(* crosses most tiles in a turn, the cannon hardly one.                    *)
(***************************************************************************)
EXTENDS GameState, TLC

CONSTANTS p, q, ranger, cannon, scout, ghost, crown, port

MCUnitIds == {ranger, cannon, scout, ghost}
MCOwner == ranger :> p @@ cannon :> p @@ scout :> q
MCDomain == [u \in {ranger, cannon, scout} |-> "land"]
MCMaximum == ranger :> 6 @@ cannon :> 4 @@ scout :> 6
MCArtifactMaximum == [u \in {ranger, cannon, scout} |-> 4]
MCCityOwner == port :> q
MCCityCenter == port :> <<2, 1>>
MCCityHexes == port :> {<<2, 0>>}

Land(base, features) == [base |-> base, features |-> features, height |-> 0]
MCTerrain ==
    <<0, 0>> :> Land("plains", {})
    @@ <<1, 0>> :> Land("grassland", {"forest", "hills"})
    @@ <<2, 0>> :> Land("plains", {"forest"})
    @@ <<0, 1>> :> Land("plains", {"river"})
    @@ <<1, 1>> :> Land("desert", {"jungle"})
    @@ <<2, 1>> :> Land("coast", {"forest"})
MCRoadOwners == [t \in Tiles |-> IF t = <<1, 1>> THEN {q} ELSE {p}]

Rested(tile, movement) ==
    [position |-> tile, movement |-> movement, queued |-> <<>>, tradeRoute |-> FALSE,
     busy |-> FALSE, excavating |-> None, posture |-> "active", carried |-> None]

\* A game in which every player has looked around.
LookedAround(g) ==
    LET seen == [g EXCEPT !.fog = [x \in Players |->
                    [tracked |-> TRUE, discovered |-> SeenBy(g, x),
                     visible |-> SeenBy(g, x)]]]
    IN  [seen EXCEPT !.contacts = SightedPairs(seen)]

Dark == [tracked |-> FALSE, discovered |-> {}, visible |-> {}]

Opening ==
    [revision |-> 0,
     units |-> ranger :> Rested(<<0, 0>>, 6) @@ cannon :> Rested(<<0, 1>>, 4)
               @@ scout :> Rested(<<2, 0>>, 6),
     artifacts |-> crown :> [kind |-> "map", tile |-> <<1, 0>>, at |-> None],
     pending |-> NoPending, draft |-> NoDraft, fog |-> [x \in Players |-> Dark],
     contacts |-> {}, cities |-> {port}, roads |-> {}]

\* The turn is under way: the cannon is dug in, the ranger digs up the crown
\* where it stands, the scout is nearly spent and about to found a city.
Midgame ==
    [Opening EXCEPT
        !.units[cannon].posture = "fortified", !.units[cannon].movement = 0,
        !.units[ranger].excavating = crown,
        !.units[scout].movement = 1,
        !.artifacts[crown] = [kind |-> "excavation", tile |-> <<0, 0>>, at |-> ranger],
        !.pending = [kind |-> "unit", owner |-> p, unit |-> ranger, city |-> None,
                     restore |-> 0],
        !.draft = [owner |-> q, unit |-> scout],
        !.roads = {<<1, 1>>, <<0, 1>>}]

\* The scout carries the crown, a road leads to the port, the cannon is at
\* work, and player q plays without fog.
Carrying ==
    [LookedAround([Opening EXCEPT
        !.units[scout].carried = crown, !.units[scout].movement = 4,
        !.units[cannon].busy = TRUE,
        !.artifacts[crown] = [kind |-> "carried", tile |-> None, at |-> scout],
        !.pending = [kind |-> "city", owner |-> q, unit |-> None, city |-> port,
                     restore |-> 0],
        !.roads = {<<1, 1>>}])
     EXCEPT !.fog[q] = Dark, !.contacts = {{p, q}}]

MCInitialGames == {LookedAround(Opening), LookedAround(Midgame), Carrying}
=============================================================================
