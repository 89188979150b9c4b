---------------------------- MODULE MCEngineStrip ----------------------------
(***************************************************************************)
(* The engine and its properties on a strip of six tiles: long enough for  *)
(* hexes more than three away, with a snowy ridge in the middle that ends  *)
(* views and that only an artifact carrier overdraws its movement for.     *)
(* Units of one player may share a tile.  The boat is confined to the      *)
(* coast, the caravan trades, the relic is a unit whose kind the ruleset   *)
(* does not define.                                                        *)
(***************************************************************************)
EXTENDS GameProperties, TLC

CONSTANTS p, q, rider, boat, caravan, relic, ghost, mask

MCUnits == {rider, boat, caravan, relic}
MCOwner == rider :> p @@ boat :> p @@ caravan :> p @@ relic :> q
MCDomain == rider :> "land" @@ boat :> "naval" @@ caravan :> "land" @@ relic :> "air"
MCMaximum == rider :> 6 @@ boat :> 4 @@ caravan :> 6 @@ relic :> 6
MCArtifactMaximum == [u \in MCUnits |-> 4]
MCCityOwner == <<>>

Land(base, features, height) == [base |-> base, features |-> features, height |-> height]
MCTerrain ==
    <<0, 0>> :> Land("coast", {}, 0)
    @@ <<1, 0>> :> Land("coast", {}, 0)
    @@ <<2, 0>> :> Land("plains", {}, 0)
    @@ <<3, 0>> :> Land("snow", {"forest", "hills"}, 2)
    @@ <<4, 0>> :> Land("plains", {}, 0)
    @@ <<5, 0>> :> Land("plains", {}, 0)
MCRoadOwners == [t \in Tiles |-> {}]

Rested(tile, movement) ==
    [position |-> tile, movement |-> movement, queued |-> <<>>, tradeRoute |-> FALSE,
     busy |-> FALSE, excavating |-> None, posture |-> "active", carried |-> None]

Dark == [tracked |-> FALSE, discovered |-> {}, visible |-> {}]

Seen(g, x) == [tracked |-> TRUE, discovered |-> SeenBy(g, x), visible |-> SeenBy(g, x)]

Setting ==
    [revision |-> 0,
     units |-> rider :> Rested(<<1, 0>>, 6) @@ boat :> Rested(<<0, 0>>, 4)
               @@ caravan :> [Rested(<<1, 0>>, 6) EXCEPT !.tradeRoute = TRUE]
               @@ relic :> Rested(<<5, 0>>, 6),
     artifacts |-> mask :> [kind |-> "map", tile |-> <<2, 0>>, at |-> None],
     pending |-> NoPending, draft |-> NoDraft, fog |-> [x \in Players |-> Dark],
     contacts |-> {}, cities |-> {}, roads |-> {}]

\* Only player p is fogged.
Fogged == [Setting EXCEPT !.fog[p] = Seen(Setting, p), !.contacts = {{p, q}}]

\* The rider carries the mask and stands before the ridge; the relic waits
\* behind it at the given tile, out of sight; the caravan was skipped.
AtTheRidge(tile) ==
    LET g == [Setting EXCEPT
                !.units[rider].position = <<2, 0>>, !.units[rider].movement = 4,
                !.units[rider].carried = mask,
                !.units[relic].position = tile,
                !.units[caravan].movement = 0,
                !.artifacts[mask] = [kind |-> "carried", tile |-> None, at |-> rider],
                !.pending = [kind |-> "skip", owner |-> p, unit |-> caravan,
                             city |-> None, restore |-> 6]]
    IN  [g EXCEPT !.fog = [x \in Players |-> Seen(g, x)]]

MCInitialGames == {Fogged, AtTheRidge(<<4, 0>>), AtTheRidge(<<5, 0>>)}
=============================================================================
