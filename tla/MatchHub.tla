------------------------------ MODULE MatchHub ------------------------------
(***************************************************************************)
(* The server's side of a running match: the log of its events, the        *)
(* registry's streams, the queue through which the registry runs one job   *)
(* at a time, and the maintenance sweeps, which run outside the queue. The *)
(* order in which jobs are queued is left open.                            *)
(*                                                                         *)
(* A job or a sweep first commits its transaction, then delivers what it   *)
(* has to tell: these are two steps.  What is sent to a stream the client  *)
(* has left is lost.  The other players are part of the environment.       *)
(***************************************************************************)
EXTENDS MatchChannels

CONSTANTS
    Acceptable, Refusable,   \* what the rules may accept, what they may refuse
    Sweeping                 \* whether the maintenance sweeps run

ASSUME HubAssumption ==
    /\ Acceptable \cup Refusable = Commands
    /\ Sweeping \in BOOLEAN
    /\ None \notin ServerMessage
    /\ None \notin [caller : {None} \cup Connections, reply : {None} \cup ServerMessage,
                    cast : {None} \cup ServerMessage]

VARIABLES
    log,        \* the events of the match
    streams,    \* the state of each stream
    job,        \* None, or what the job in the queue has yet to deliver
    swept,      \* None, or what the sweep has yet to deliver
    leased      \* whether "me" holds a presence lease

hub == <<log, streams, job, swept, leased>>

Now == Len(log)

Closed == [phase |-> "closed", after |-> 0, base |-> 0, newest |-> 0]

Registered(c) == streams[c].phase \in {"connected", "listed", "subscribed"}

IsLast(c) == Registered(c) /\ \A d \in Connections \ {c} : ~Registered(d)

\* When the player's last stream is closed a job is queued for it.
Left(c) == IF IsLast(c) THEN [Closed EXCEPT !.phase = "left"] ELSE Closed

\* Fault: a connecting stream does not hold the queue.
QueueIsFree_JobOnly == job = None

\* A connecting stream holds the queue from its first transaction on.
QueueIsFree ==
    /\ job = None
    /\ \A c \in Connections : streams[c].phase \notin {"connected", "listed"}

-----------------------------------------------------------------------------
(* Notifications.                                                          *)

Sent(messages) == down' = down \o messages

\* What a broadcast and a reply put on the client's stream.
OnLink(message) ==
    IF link \in Connections /\ streams[link].phase = "subscribed" THEN <<message>> ELSE <<>>

Notified(notice) ==
    IF notice.caller # None /\ notice.caller = link THEN <<notice.reply>>
    ELSE IF notice.cast # None THEN OnLink(notice.cast) ELSE <<>>

Notice(caller, reply, cast) == [caller |-> caller, reply |-> reply, cast |-> cast]

\* Fault: the event is stored with the snapshot from before it.
NewEvent_Before(tick) == Event(tick, Now + 1, Now)

\* The next event comes with the snapshot it leads to.
NewEvent(tick) == Event(tick, Now + 1, Now + 1)

Deliver ==
    /\ job # None
    /\ Len(down) < MaxQueue
    /\ Sent(Notified(job))
    /\ job' = None
    /\ UNCHANGED <<link, up, log, streams, swept, leased>>

-----------------------------------------------------------------------------
(* Commands of "me".                                                       *)

Entry(actor, tick, command) == [actor |-> actor, tick |-> tick, command |-> command]

\* Fault: the last event is not looked at.
Duplicates_Before(wire) ==
    {k \in 1 .. Now : k < Now /\ log[k].command # None /\ log[k].tick = wire.tick}

\* A sweep's event has an id of its own, and no command.
Duplicates(wire) ==
    {k \in 1 .. Now : log[k].actor = "me" /\ log[k].command # None /\ log[k].tick = wire.tick}

Answer(c, wire, accepted, offset, snapshot, cast) ==
    job' = Notice(c, Ack(wire.tick, accepted, offset, snapshot), cast)

Repeat(c, wire) ==
    \E k \in Duplicates(wire) :
       /\ IF log[k].command = wire.command THEN Answer(c, wire, TRUE, k, Now, None)
          ELSE Answer(c, wire, FALSE, Now, Now, None)
       /\ UNCHANGED <<log, streams, down>>

Accept(c, wire) ==
    /\ Duplicates(wire) = {}
    /\ wire.command \in Acceptable /\ Now < MaxLog
    /\ log' = Append(log, Entry("me", wire.tick, wire.command))
    /\ Answer(c, wire, TRUE, Now + 1, Now + 1, NewEvent(wire.tick))
    /\ UNCHANGED <<streams, down>>

\* The reducer refuses the command.  Nothing is stored.
Reject(c, wire) ==
    /\ Duplicates(wire) = {}
    /\ wire.command \in Refusable
    /\ Answer(c, wire, FALSE, Now, Now, None)
    /\ UNCHANGED <<log, streams, down>>

\* The transaction fails, and the error goes to the stream.
Abort(c) ==
    /\ down' = IF c = link THEN Append(down, Failure(FALSE)) ELSE down
    /\ UNCHANGED <<log, streams, job>>

\* No lease is left to renew: the stream is failed and closed.
RejectPresence(c) ==
    /\ ~leased
    /\ down' = IF c = link THEN Append(down, Failure(TRUE)) ELSE down
    /\ streams' = [streams EXCEPT ![c] = Left(c)]
    /\ UNCHANGED <<log, job>>

Renew(c, wire) ==
    /\ leased
    /\ Repeat(c, wire) \/ Accept(c, wire) \/ Reject(c, wire) \/ Abort(c)

HandleInput(c) ==
    /\ QueueIsFree
    /\ streams[c].phase = "subscribed"
    /\ up[c] # <<>>
    /\ Len(down) < MaxQueue
    /\ up' = [up EXCEPT ![c] = Tail(@)]
    /\ RejectPresence(c) \/ Renew(c, Head(up[c]))
    /\ UNCHANGED <<link, swept, leased>>

-----------------------------------------------------------------------------
(* Streams.                                                                *)

\* participantConnected: the player is marked connected under a new lease.
Connect(c) ==
    /\ QueueIsFree
    /\ streams[c].phase = "queued"
    /\ streams' = [streams EXCEPT ![c].phase = "connected", ![c].base = Now]
    /\ leased' = TRUE
    /\ UNCHANGED <<channels, log, job, swept>>

Larger(m, n) == IF m > n THEN m ELSE n

\* The stream's backlog: the events after those the client has, up to here.
ListEvents(c) ==
    /\ streams[c].phase = "connected"
    /\ streams' = [streams EXCEPT ![c].phase = "listed", ![c].newest = Now]
    /\ UNCHANGED <<channels, log, job, swept, leased>>

Backlog(c) ==
    LET stream == streams[c]
        from == Larger(stream.after, stream.base)
        Seen(k) == IF log[k].actor = "me" THEN log[k].tick ELSE 0
    IN  [i \in 1 .. stream.newest - from |-> Event(Seen(from + i), from + i, None)]

\* Fault: only the backlog is sent, not the snapshot it is behind.
Initial_BacklogOnly(c) == Backlog(c)

Initial(c) == <<State(streams[c].base)>> \o Backlog(c)

Subscribe(c) ==
    /\ streams[c].phase = "listed"
    /\ streams' = [streams EXCEPT ![c] = [Closed EXCEPT !.phase = "subscribed"]]
    /\ IF c = link THEN Sent(Initial(c)) ELSE UNCHANGED down
    /\ UNCHANGED <<link, up, log, job, swept, leased>>

\* The server finds that the client has left the stream.
Disconnect(c) ==
    /\ c # link
    /\ streams[c].phase \notin {"closed", "left"}
    /\ streams' = [streams EXCEPT ![c] = Left(c)]
    /\ up' = [up EXCEPT ![c] = <<>>]
    /\ job' = IF job # None /\ job.caller = c THEN [job EXCEPT !.caller = None] ELSE job
    /\ UNCHANGED <<link, down, log, swept, leased>>

\* Fault: the job does not look for streams that have come since.
StillConnected_Never == FALSE

StillConnected == \E c \in Connections : Registered(c)

\* The player is marked offline and gives up the lease.
ParticipantDisconnected(c) ==
    /\ QueueIsFree
    /\ streams[c].phase = "left"
    /\ streams' = [streams EXCEPT ![c] = Closed]
    /\ leased' = (leased /\ StillConnected)
    /\ UNCHANGED <<channels, log, job, swept>>

-----------------------------------------------------------------------------
(* The rest of the match.                                                  *)

\* Another player's command is accepted.
PeerCommand ==
    /\ QueueIsFree
    /\ Now < MaxLog
    /\ log' = Append(log, Entry("peer", 0, None))
    /\ job' = Notice(None, None, NewEvent(0))
    /\ UNCHANGED <<channels, streams, swept, leased>>

\* Another player comes or goes.
PeerPresence ==
    /\ QueueIsFree
    /\ job' = Notice(None, None, State(Now))
    /\ UNCHANGED <<channels, log, streams, swept, leased>>

\* The turn runs out.  The event is put down to a player that had submitted,
\* or else to the first there is, and its tick is its offset.
SweepTurn ==
    /\ Sweeping /\ swept = None
    /\ Now < MaxLog
    /\ \E actor \in {"me", "peer"} :
          /\ log' = Append(log, Entry(actor, Now + 1, None))
          /\ swept' = NewEvent(IF actor = "me" THEN Now + 1 ELSE 0)
    /\ UNCHANGED <<channels, streams, job, leased>>

\* The player has not been heard of for the time of the lease.
SweepLease ==
    /\ Sweeping /\ swept = None
    /\ leased
    /\ leased' = FALSE
    /\ swept' = State(Now)
    /\ UNCHANGED <<channels, log, streams, job>>

DeliverSweep ==
    /\ swept # None
    /\ Len(down) < MaxQueue
    /\ Sent(OnLink(swept))
    /\ swept' = None
    /\ UNCHANGED <<link, up, log, streams, job, leased>>

\* The server goes down and comes up: the streams and what was not yet
\* delivered are gone, the match and the lease are stored.
Restart ==
    /\ streams' = [c \in Connections |-> Closed]
    /\ up' = [c \in Connections |-> <<>>]
    /\ job' = None /\ swept' = None
    /\ UNCHANGED <<link, down, log, leased>>

HubTyped ==
    /\ Now <= MaxLog
    /\ \A k \in 1 .. Now : log[k] \in [actor : {"me", "peer"}, tick : 0 .. MaxTick + MaxLog,
                                        command : Commands \cup {None}]
    /\ streams \in [Connections -> [phase : {"closed", "queued", "connected", "listed",
                                             "subscribed", "left"},
                                    after : Offsets, base : Offsets, newest : Offsets]]
    /\ swept \in ServerMessage \cup {None}
    /\ leased \in BOOLEAN
=============================================================================
