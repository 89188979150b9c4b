-------------------------- MODULE StreamProperties --------------------------
(* What a player may rely on in a running match. *)
EXTENDS MatchStream

\* Streams, server and client keep their types and their bounds.
TypeOK == ChannelsTyped /\ HubTyped /\ ClientTyped

Mine(k, wire) == log[k] = Entry("me", wire.tick, wire.command)

\* However often a command is sent again, on whichever stream, the match
\* has it once (the lookup by client message id in _handleCommand).
AppliedOnce ==
    \A wire \in Wires : Cardinality({k \in 1 .. Now : Mine(k, wire)}) <= 1

\* A command the client is told was accepted is in the match, and in the
\* state that comes with the answer: no late answer completes another command.
AnswersAreTrue ==
    order.stage = "answered" /\ order.result.accepted =>
        \E k \in 1 .. order.result.offset : Mine(k, order.wire)

\* A command the client is told was refused is not in the match: a repeated
\* command gets the result it got (docs/multiplayer-protocol.md:56).
RefusalsAreTrue ==
    order.stage = "answered" /\ ~order.result.accepted =>
        ~\E k \in 1 .. Now : Mine(k, order.wire)

\* The state on the screen never goes back to an earlier one
\* (docs/multiplayer-protocol.md:72).
OffsetsAreMonotonic == [][offset' >= offset]_vars

Quiet ==
    /\ job = None /\ swept = None /\ down = <<>> /\ inbox = <<>> /\ loading = {}
    /\ order = Idle
    /\ link \in Connections /\ streams[link].phase = "subscribed"

Current == \A k \in offset + 1 .. Now : log[k].actor = "me"

\* When nothing is under way any more the screen shows the match: all it may
\* lack are commands of its own, carried out when it had given them up, whose
\* events the echo guard has dropped.
QuietIsCurrent == Quiet => Current

\* The echo guard keeps from the screen only what the client's own commands
\* have caused (_LocalCommandEchoGuard), when no sweep gives events a tick.
EchoesAreOwn ==
    [][\A message \in {down[i] : i \in DOMAIN down} :
          (message.kind = "event" /\ HandleMessage /\ message = Head(down)
              /\ inbox' = inbox /\ loading' = loading)
          => log[message.offset].command # None]_vars

\* A stream that is subscribed gets every event newer than its snapshot: its
\* backlog, read a while before, still reaches to the last event, for jobs
\* wait for each other and no sweep runs (docs/multiplayer-protocol.md:74).
NoEventIsMissed ==
    [][\A c \in Connections : Subscribe(c) => streams[c].newest = Now]_vars

\* Closing one of several streams of a player changes nothing: while any is
\* connected the player holds a lease (docs/multiplayer-protocol.md:102).
PresenceFollowsStreams == \A c \in Connections : Registered(c) => leased

\* A snapshot that is to show an event is not from before the event,
\* whether it came with it or was loaded (_acceptedNetworkSnapshotOffset).
EventsBringTheirState ==
    \A i \in DOMAIN inbox : inbox[i].snapshot >= inbox[i].event

\* The client of a participant does not give up on a running match
\* (docs/multiplayer-protocol.md:109).
KeepsRecoveryRights == link # "over"

\* A client whose stream is not lost any more comes to show the match and
\* goes on showing it, but for commands of its own (as in QuietIsCurrent).
Recovers ==
    (\E c \in Connections : <>[](link = c)) =>
        <>[](link \in Connections /\ streams[link].phase = "subscribed"
             /\ Current)
=============================================================================
