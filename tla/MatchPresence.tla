--------------------------- MODULE MatchPresence ---------------------------
(***************************************************************************)
(* The presence of the players of one match: their calls, their streams at *)
(* several servers, the sweep, the clock, and what goes wrong.             *)
(***************************************************************************)
EXTENDS ConnectionRegistry

CONSTANTS
    Creator,                     \* the player who creates the match
    NextDelay, RecoveryDelay,    \* see SweepSchedule
    Setups                       \* the matches looked at

\* A setup is a lobby, the servers that are up, and the bounds: the faults
\* that happen to the servers and the times that players join.
ASSUME PresenceAssumption ==
    /\ Creator \in Users
    /\ NextDelay \in Nat /\ RecoveryDelay \in Nat
    /\ NextDelay <= RecoveryDelay
    /\ Setups \subseteq
           [lobby : Lobbies, servers : SUBSET Servers, faults : Nat, joins : Nat]

VARIABLES
    entry, sweep,
    up,        \* the servers that are up
    faults,    \* the crashes, failed transactions and delays that may still happen
    joins      \* the joins that may still happen

S == INSTANCE SweepSchedule

vars == <<match, stream, at, active, entry, sweep, up, faults, joins>>

TypeOK ==
    /\ RegistryTypeOK
    /\ S!ScheduleTypeOK
    /\ up \subseteq Servers
    /\ faults \in Nat /\ joins \in Nat

\* Generations are drawn at random.  One that nobody remembers for the player
\* is as good as a new one.
Fresh(u) ==
    LET Remembered(t) == \E s \in Servers : [user |-> u, gen |-> t] \in sweep[s].listed
        fresh == {t \in Tokens : ~Remembered(t)}
    IN  IF fresh = {} THEN {} ELSE {CHOOSE t \in fresh : TRUE}

Init ==
    /\ RegistryInit
    /\ S!ScheduleInit
    /\ \E setup \in Setups, g \in Fresh(Creator) :
           /\ match = Created(Creator, setup.lobby, g)
           /\ up = setup.servers /\ faults = setup.faults /\ joins = setup.joins

-----------------------------------------------------------------------------
(* Calls of the players; each is one transaction.                          *)

Call(outcomes) ==
    match' \in outcomes /\ UNCHANGED <<registry, entry, sweep, up, faults>>

Join(u) ==
    /\ joins > 0 /\ joins' = joins - 1
    /\ MayJoin(match, u)
    /\ \E g \in Fresh(u) : Call({Joined(match, u, g)})

Leave(u) == u \in match.members /\ Call(Left(match, u)) /\ UNCHANGED joins

Resign(u) ==
    /\ u \in match.members
    /\ \/ Open(match) /\ match.owner = u /\ Call({Ended(match, "abandoned")})
       \/ Running(match) /\ Call(ResignedRunning(match, u))
    /\ UNCHANGED joins

StartMatch(u) ==
    /\ Open(match) /\ match.owner = u /\ Startable(match)
    /\ Call({Started(match)}) /\ UNCHANGED joins

LoadMatch(u) == u \in match.members /\ Call({Advanced(match)}) /\ UNCHANGED joins

\* Quickplay of a player who is given this lobby joins it, see Join.
RetireStaleLobby ==
    Stale(match) /\ Call({Ended(match, "abandoned")}) /\ UNCHANGED joins

-----------------------------------------------------------------------------
Registry(step) == step /\ UNCHANGED <<entry, sweep, up, faults, joins>>
Sweeping(step) == step /\ UNCHANGED <<registry, up, faults, joins>>
Faulty(step) ==
    faults > 0 /\ step /\ faults' = faults - 1 /\ UNCHANGED <<up, joins>>

Disconnect(c) == \E h \in Fresh(UserOf[c]) : Registry(ParticipantDisconnected(c, h))

StreamFault(c) == Faulty(DisconnectionFails(c) /\ UNCHANGED <<entry, sweep>>)

SweepFault(s) == Faulty(S!SweepFails(s) /\ UNCHANGED registry)

\* The server is up again at once, with nothing of what it was doing.
Crash(s) ==
    Faulty(/\ RegistryLost(s)
           /\ sweep' = [sweep EXCEPT ![s] = S!Idle]
           /\ UNCHANGED <<match, entry>>)

\* A tick is long for what a server has to do.
Busy ==
    \/ \E c \in Connections : stream[c] = "leaving"
    \/ entry = 0
    \/ \E s \in Servers : sweep[s] # S!Idle

Passes ==
    /\ match' = Later(match)
    /\ entry' = IF entry = None THEN None ELSE Down(entry)
    /\ UNCHANGED <<registry, sweep>>

\* That a server is late is a fault too.
Tick ==
    \/ ~Busy /\ Passes /\ UNCHANGED <<up, faults, joins>>
    \/ Busy /\ Faulty(Passes)

PlayerStep ==
    \/ \E u \in Users :
           Join(u) \/ Leave(u) \/ Resign(u) \/ StartMatch(u) \/ LoadMatch(u)
    \/ RetireStaleLobby
    \/ \E c \in Connections :
           \/ \E s \in up : Registry(Connect(c, s))
           \/ Registry(Close(c))
           \/ Registry(Message(c))
           \/ Registry(MessageRejected(c))

ServerStep ==
    \/ \E c \in Connections : Disconnect(c)
    \/ \E s \in up : Sweeping(S!Claim(s)) \/ Sweeping(S!SweepStep(s))
    \/ Sweeping(S!Reconcile)

Fault ==
    \/ \E c \in Connections : StreamFault(c)
    \/ \E s \in up : SweepFault(s) \/ Crash(s)

Move == PlayerStep \/ ServerStep \/ Fault

Next == Move \/ Tick

Spec == Init /\ [][Next]_vars

\* The servers and the clock do not stop, and the timers of the servers fire.
\* A due entry is claimed and a sweep runs on because a tick is long for them.
Fairness ==
    /\ WF_vars(Tick \/ ServerStep)
    /\ WF_vars(Sweeping(S!Reconcile))
=============================================================================
