--------------------------- MODULE MatchChannels ---------------------------
(***************************************************************************)
(* What a match's server and one player's client have in common: the       *)
(* streams between them and the messages on these.                         *)
(*                                                                         *)
(* The match is seen from one player, "me".  A state of the match is the   *)
(* number of events it has logged, for the server stores a snapshot with   *)
(* every event; a snapshot stands for the offset in it.                    *)
(***************************************************************************)
EXTENDS Naturals, Sequences, FiniteSets

CONSTANTS
    Connections,  \* streams that "me" may have at the server at one time
    Commands,     \* what "me" may order
    None,         \* an absent optional value
    MaxLog,       \* bound: events of the match
    MaxTick,      \* bound: commands of "me"
    MaxQueue      \* bound: messages under way, or waiting at the client

ASSUME ChannelAssumption ==
    /\ Connections \cap {None, "none", "over"} = {}
    /\ None \notin Commands \cup (0 .. MaxLog)
    /\ MaxLog \in Nat /\ MaxTick \in Nat /\ MaxQueue \in Nat \ {0}

VARIABLES
    link,   \* the stream the client listens to, "none" or "over"
    up,     \* what is under way to the server, per stream
    down    \* what is under way to the client, on its stream

channels == <<link, up, down>>

Offsets == 0 .. MaxLog
Ticks == 1 .. MaxTick

\* A wire command.  Its tick and its client message id are drawn together
\* and kept together, so the tick stands for both.  Heartbeats, which only
\* renew the lease as every command does, are left out.
Wires == [tick : Ticks, command : Commands]

-----------------------------------------------------------------------------
(* Server messages, as projected for "me": the tick of an event is seen by *)
(* its actor only.  A snapshot of None is none.                            *)

Ack(tick, accepted, offset, snapshot) ==
    [kind |-> "ack", tick |-> tick, accepted |-> accepted,
     offset |-> offset, snapshot |-> snapshot]
Event(tick, offset, snapshot) ==
    [kind |-> "event", tick |-> tick, accepted |-> FALSE,
     offset |-> offset, snapshot |-> snapshot]
State(snapshot) ==
    [kind |-> "state", tick |-> 0, accepted |-> FALSE,
     offset |-> snapshot, snapshot |-> snapshot]
Failure(terminal) ==
    [kind |-> IF terminal THEN "not_match_player" ELSE "failure", tick |-> 0,
     accepted |-> FALSE, offset |-> 0, snapshot |-> None]

ServerMessage ==
    [kind : {"ack", "event", "state", "failure", "not_match_player"},
     tick : 0 .. MaxTick + MaxLog, accepted : BOOLEAN,
     offset : Offsets, snapshot : Offsets \cup {None}]

ChannelsTyped ==
    /\ link \in Connections \cup {"none", "over"}
    /\ \A c \in Connections :
          /\ Len(up[c]) <= MaxQueue
          /\ \A i \in DOMAIN up[c] : up[c][i] \in Wires
    /\ \A i \in DOMAIN down : down[i] \in ServerMessage
=============================================================================
