------------------------------ MODULE MCRuntime ------------------------------
\* A local runtime on the island: either player opens the same game, or a
\* game under way; one content does not fit.
EXTENDS RuntimeProperties, IslandWorld

RouteOf(u, tile) == [kind |-> "routePlan", unit |-> u, target |-> tile]
OverlayOf(u) == [kind |-> "reachable", unit |-> u, target |-> None]
MCQuestions == {RouteOf(ranger, <<2, 0>>), OverlayOf(scout)}

Move(u, tile) == [kind |-> "move", unit |-> u, target |-> tile]
Action(kind, u) == [kind |-> kind, unit |-> u, target |-> None]
\* The ranger leaves the scout's sight and comes back.
MCOrders ==
    {Move(ranger, <<1, 0>>), Move(ranger, <<0, 0>>), Move(scout, <<1, 0>>),
     Action("fortify", cannon)}

Opens(game, actor) == [game |-> game, actor |-> actor, fits |-> TRUE]
\* On a road the ranger could come and go more often than there are offsets.
AtTheScout ==
    LookedAround([Opening EXCEPT !.units[ranger].position = <<1, 0>>,
                                 !.roads = {<<0, 0>>, <<1, 0>>}])
MCOpenings ==
    {Opens(AtTheScout, p), Opens(AtTheScout, q),
     [game |-> Carrying, actor |-> p, fits |-> FALSE]}

\* What the next step depends on: it does not look at the last request and reply.
State == <<session, cache, document>>
=============================================================================
