----------------------------- MODULE MatchStream -----------------------------
(***************************************************************************)
(* A running match as one player lives through it: the server's hub, the   *)
(* player's client, and the streams between the two, which may break at    *)
(* any time and of whose breaking the server learns at some later time.    *)
(***************************************************************************)
EXTENDS MatchHub, LiveClient

CONSTANT Started   \* events of the match before the client opens it

ASSUME StartAssumption == Started \in 0 .. MaxLog

vars == <<channels, hub, client>>

\* A stream is opened behind the state that is on the screen.
Reconnect(c) ==
    /\ link = "none"
    /\ streams[c].phase = "closed"
    /\ link' = c
    /\ up' = [up EXCEPT ![c] = <<>>]
    /\ streams' = [streams EXCEPT ![c] = [Closed EXCEPT !.phase = "queued", !.after = offset]]
    /\ UNCHANGED <<down, log, job, swept, leased, client>>

\* The screen is opened with the state of the match.
Init ==
    /\ link = "none" /\ up = [c \in Connections |-> <<>>] /\ down = <<>>
    /\ log = [k \in 1 .. Started |-> Entry("peer", 0, None)]
    /\ streams = [c \in Connections |-> Closed]
    /\ job = None /\ swept = None /\ leased = FALSE
    /\ offset = Started /\ order = Idle /\ retry = None /\ nextTick = 1
    /\ echo = {} /\ inbox = <<>> /\ loading = {}

HubStep ==
    /\ \/ \E c \in Connections :
             \/ HandleInput(c) \/ Connect(c) \/ ListEvents(c) \/ Subscribe(c)
             \/ Disconnect(c) \/ ParticipantDisconnected(c)
       \/ Deliver \/ DeliverSweep
       \/ PeerCommand \/ PeerPresence \/ SweepTurn \/ SweepLease \/ Restart
    /\ UNCHANGED client

ClientStep ==
    /\ \/ \E command \in Commands : Send(command)
       \/ AckTimeout \/ HandleMessage \/ ConnectionLost
       \/ ForgetEcho \/ Apply \/ Publish
       \/ \E event \in loading : Load(event, Now)
    /\ UNCHANGED hub

Next == HubStep \/ ClientStep \/ \E c \in Connections : Reconnect(c)

Spec == Init /\ [][Next]_vars

\* A job that waits in the queue has its turn, for the queue is first in,
\* first out.  Streams that are left or closed are found out, and what is
\* delivered is handled.  Nobody has to order anything, no stream has to
\* break, and no answer has to be late.
Fairness ==
    /\ \A c \in Connections :
          /\ SF_vars(HandleInput(c) /\ UNCHANGED client)
          /\ SF_vars((Connect(c) \/ ParticipantDisconnected(c)) /\ UNCHANGED client)
          /\ WF_vars((ListEvents(c) \/ Subscribe(c)) /\ UNCHANGED client)
          /\ WF_vars(Disconnect(c) /\ UNCHANGED client)
          /\ WF_vars(c = link /\ streams[c].phase = "closed" /\ ConnectionLost /\ UNCHANGED hub)
    /\ WF_vars((Deliver \/ DeliverSweep) /\ UNCHANGED client)
    /\ WF_vars(HandleMessage /\ UNCHANGED hub)
    /\ WF_vars((Apply \/ Publish) /\ UNCHANGED hub)
    /\ WF_vars(\E c \in Connections : Reconnect(c))

FairSpec == Spec /\ Fairness
=============================================================================
