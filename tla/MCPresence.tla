----------------------------- MODULE MCPresence -----------------------------
(***************************************************************************)
(* Two players; p may open two streams and q one, after q has joined once, *)
(* in one quickplay lobby twice.  One server meets with a fault in a match *)
(* that is hosted, or two servers with none; quickplay lobbies differ from *)
(* it only before their start.                                             *)
(***************************************************************************)
EXTENDS PresenceProperties, TLC

CONSTANTS p, q, c1, c2, c3, t1, t2, s1, s2

StreamsOf == c1 :> p @@ c2 :> p @@ c3 :> q

Hosted == [quickplay |-> FALSE, seats |-> 2]
QuickplayOfTwo == [quickplay |-> TRUE, seats |-> 2]
QuickplayOfThree == [quickplay |-> TRUE, seats |-> 3]

LobbyKinds == {Hosted, QuickplayOfTwo, QuickplayOfThree}

SetupsLookedAt ==
    [lobby : {Hosted}, servers : {{s1}}, faults : {1}, joins : {1}]
    \cup [lobby : {QuickplayOfTwo}, servers : {{s1}}, faults : {0}, joins : {1}]
    \cup [lobby : {QuickplayOfThree}, servers : {{s1}}, faults : {0}, joins : {2}]
    \cup [lobby : {Hosted}, servers : {{s1, s2}}, faults : {0}, joins : {1}]
=============================================================================
