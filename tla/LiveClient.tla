----------------------------- MODULE LiveClient -----------------------------
(***************************************************************************)
(* One player's client of a running match: the live event stream with its  *)
(* echo guard, the command transport with its retries, and the queue       *)
(* through which snapshots reach the screen.                               *)
(*                                                                         *)
(* The client's commands wait for each other, so one is under way at most. *)
(* Its result is published to the screen some time after the server's      *)
(* answer has come in; what comes in between may be handled first.         *)
(***************************************************************************)
EXTENDS MatchChannels

CONSTANT Lagging   \* whether messages may be handled before a result is published

ASSUME LaggingAssumption == Lagging \in BOOLEAN

VARIABLES
    offset,     \* eventLogOffset: the state that is on the screen
    order,      \* the command under way: its stage, wire and result
    retry,      \* None, or the wire that may be sent again
    nextTick,   \* of the tick generator
    echo,       \* the ticks the echo guard remembers
    inbox,      \* snapshots on their way to the screen
    loading     \* events whose snapshot is being loaded

client == <<offset, order, retry, nextTick, echo, inbox, loading>>

Idle == [stage |-> "idle", wire |-> None, result |-> 0]
Pending(wire) == [stage |-> "pending", wire |-> wire, result |-> 0]

Ready == Lagging \/ order.stage # "answered"

-----------------------------------------------------------------------------
(* Sending commands.                                                       *)

IsRetry(command) == retry # None /\ retry.command = command

WireFor(command) ==
    IF IsRetry(command) THEN retry ELSE [tick |-> nextTick, command |-> command]

\* A command that cannot be sent has still taken its tick and its id.
Send(command) ==
    LET wire == WireFor(command)
    IN  /\ order = Idle
        /\ wire.tick <= MaxTick
        /\ nextTick' = IF IsRetry(command) THEN nextTick ELSE nextTick + 1
        /\ IF link \in Connections
           THEN /\ Len(up[link]) < MaxQueue
                /\ up' = [up EXCEPT ![link] = Append(@, wire)]
                /\ order' = Pending(wire)
                /\ retry' = IF IsRetry(command) THEN retry ELSE None
                /\ echo' = echo \cup {wire.tick}
           ELSE retry' = wire /\ UNCHANGED <<up, order, echo>>
        /\ UNCHANGED <<link, down, offset, inbox, loading>>

\* No answer: the command may be sent again under its id.
GivenUp ==
    IF order.stage = "pending"
    THEN order' = Idle /\ retry' = order.wire
    ELSE UNCHANGED <<order, retry>>

AckTimeout ==
    /\ order.stage = "pending"
    /\ GivenUp
    /\ UNCHANGED <<channels, offset, nextTick, echo, inbox, loading>>

-----------------------------------------------------------------------------
(* Messages.                                                               *)

\* Fault: an answer completes whatever command is waiting.
Answers_Any(message) == order.stage = "pending"

\* A late or unknown answer completes nothing.
Answers(message) == order.stage = "pending" /\ order.wire.tick = message.tick

HandleAck(message) ==
    /\ message.kind = "ack"
    /\ IF Answers(message)
       THEN /\ order' = [stage |-> "answered", wire |-> order.wire,
                         result |-> [accepted |-> message.accepted,
                                     offset |-> IF message.snapshot > message.offset
                                                THEN message.snapshot ELSE message.offset]]
            /\ retry' = None
       ELSE UNCHANGED <<order, retry>>
    /\ UNCHANGED <<link, inbox, loading>>

\* Fault: an event's offset is taken for its tick.
IsLocalEcho_Offset(message) == message.offset \in echo

\* The guard compares actor and tick: a tick is seen by the actor only.
IsLocalEcho(message) == message.tick \in echo

Queued(snapshot, event) ==
    /\ Len(inbox) < MaxQueue
    /\ inbox' = Append(inbox, [snapshot |-> snapshot, event |-> event])

\* Fault: an event without a snapshot is queued as it is.
HandleEvent_Unloaded(message) ==
    /\ message.kind = "event"
    /\ IF IsLocalEcho(message) THEN UNCHANGED inbox
       ELSE Queued(message.snapshot, message.offset)
    /\ UNCHANGED <<link, order, retry, loading>>

\* An event that comes without a snapshot has one loaded.
HandleEvent(message) ==
    /\ message.kind = "event"
    /\ IF IsLocalEcho(message) THEN UNCHANGED <<inbox, loading>>
       ELSE IF message.snapshot = None
       THEN loading' = loading \cup {message.offset} /\ UNCHANGED inbox
       ELSE Queued(message.snapshot, message.offset) /\ UNCHANGED loading
    /\ UNCHANGED <<link, order, retry>>

HandleState(message) ==
    /\ message.kind = "state"
    /\ Queued(message.snapshot, 0)
    /\ UNCHANGED <<link, order, retry, loading>>

\* Any failure ends the stream; some end the subscription.
HandleFailure(message) ==
    /\ message.kind \in {"failure", "not_match_player"}
    /\ link' = IF message.kind = "failure" THEN "none" ELSE "over"
    /\ GivenUp
    /\ UNCHANGED <<inbox, loading>>

HandleMessage ==
    /\ Ready
    /\ down # <<>>
    /\ LET message == Head(down)
       IN  HandleAck(message) \/ HandleEvent(message) \/ HandleState(message)
           \/ HandleFailure(message)
    /\ down' = IF link' = link THEN Tail(down) ELSE <<>>
    /\ UNCHANGED <<up, offset, nextTick, echo>>

\* A loaded snapshot is of some state since; loading may fail.
Load(event, stored) ==
    /\ event \in loading
    /\ loading' = loading \ {event}
    /\ Queued(stored, event) \/ UNCHANGED inbox
    /\ UNCHANGED <<channels, offset, order, retry, nextTick, echo>>

\* The stream the client listens to breaks.
ConnectionLost ==
    /\ link \in Connections
    /\ link' = "none" /\ down' = <<>>
    /\ GivenUp
    /\ UNCHANGED <<up, offset, nextTick, echo, inbox, loading>>

\* The guard keeps a command in mind for ten seconds.
ForgetEcho ==
    /\ echo # {}
    /\ echo' = {tick \in echo : \E other \in echo : other < tick}
    /\ UNCHANGED <<channels, offset, order, retry, nextTick, inbox, loading>>

-----------------------------------------------------------------------------
(* The screen.                                                             *)

\* Fault: what is older than the screen is shown all the same.
Incoming_Any(item) == item.snapshot

\* Fault: after a gap nothing is shown.
Incoming_Adjacent(item) == IF item.snapshot = offset + 1 THEN item.snapshot ELSE None

\* The offset a snapshot brings, or None if it is to be ignored.
Incoming(item) ==
    LET incoming == IF item.snapshot > 0 THEN item.snapshot ELSE item.event
    IN  IF \/ item.snapshot > 0 /\ item.snapshot < item.event
           \/ incoming > 0 /\ incoming <= offset
        THEN None ELSE incoming

Apply ==
    /\ Ready
    /\ inbox # <<>>
    /\ inbox' = Tail(inbox)
    /\ LET incoming == Incoming(Head(inbox))
       IN  offset' = IF incoming = None THEN offset ELSE incoming
    /\ UNCHANGED <<channels, order, retry, nextTick, echo, loading>>

\* The result of a command is shown, whatever the screen shows by now.
Publish ==
    /\ order.stage = "answered"
    /\ offset' = order.result.offset
    /\ order' = Idle
    /\ UNCHANGED <<channels, retry, nextTick, echo, inbox, loading>>

ClientTyped ==
    /\ offset \in Offsets
    /\ order \in {Idle} \cup {Pending(wire) : wire \in Wires}
                 \cup [stage : {"answered"}, wire : Wires,
                       result : [accepted : BOOLEAN, offset : Offsets]]
    /\ retry \in Wires \cup {None}
    /\ nextTick \in 1 .. MaxTick + 1
    /\ echo \subseteq Ticks
    /\ \A i \in DOMAIN inbox : inbox[i] \in [snapshot : Offsets, event : Offsets]
    /\ loading \subseteq Offsets
=============================================================================
