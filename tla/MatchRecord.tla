----------------------------- MODULE MatchRecord -----------------------------
(***************************************************************************)
(* What the server stores of a match apart from its game: phase, members,  *)
(* their connection states and presence leases, and the clocks.  Every     *)
(* service call is one transaction on the locked row, an operator here.    *)
(*                                                                         *)
(* Deadlines are kept as the ticks that are left, starting times as the    *)
(* ticks since.  All members are human; where seat order decides, any      *)
(* member may be the first.                                                *)
(***************************************************************************)
EXTENDS Naturals, FiniteSets

CONSTANTS
    Users, None,
    Connections, Tokens,                             \* names of generations
    MinPlayers, Lobbies,      \* players a start needs, the lobbies created
    InitialLease, ConnectedLease, ReconnectLease,    \* spans of leases
    Countdown, TurnTimeout, InactivityTimeout        \* spans of clocks

Spans == {InitialLease, ConnectedLease, ReconnectLease}
MaxLease == CHOOSE span \in Spans : \A other \in Spans : other <= span

\* A stream draws a generation of its own when it is opened, so that the
\* stream stands for it; the leases of reserved seats and of lost streams
\* take others.
Generations == Connections \cup Tokens

Leases == [gen : Generations, left : 0 .. MaxLease]

ASSUME RecordAssumption ==
    /\ None \notin Users \cup Generations \cup Nat \cup Leases
    /\ IsFiniteSet(Users)
    /\ MinPlayers \in Nat
    /\ Lobbies \subseteq [quickplay : BOOLEAN, seats : Nat]
    /\ Spans \subseteq Nat \ {0}
    /\ Countdown \in Nat /\ TurnTimeout \in Nat /\ InactivityTimeout \in Nat

Records ==
    [phase : {"open", "running", "finished", "abandoned"},
     quickplay : BOOLEAN, seats : {0} \cup {lobby.seats : lobby \in Lobbies}, owner : Users \cup {None},
     members : SUBSET Users,
     conn : [Users -> {"none", "connecting", "connected", "reconnecting", "offline"}],
     lease : [Users -> Leases \cup {None}],
     resigned : SUBSET Users,
     countdown : 0 .. Countdown \cup {None},
     turnAge : 0 .. TurnTimeout, idle : 0 .. InactivityTimeout]

Open(m) == m.phase = "open"
Running(m) == m.phase = "running"
Over(m) == m.phase \in {"finished", "abandoned"}

-----------------------------------------------------------------------------
(* Presence.                                                               *)

Lapsed(m, u) == m.lease[u] # None /\ m.lease[u].left = 0

Live(m, u) == m.conn[u] = "connected" /\ m.lease[u] # None /\ m.lease[u].left > 0

AllLive(m) == \A u \in m.members : Live(m, u)
AllOffline(m) == \A u \in m.members : ~Live(m, u)

Holds(m, u, g) == m.lease[u] # None /\ m.lease[u].gen = g

Lease(g, span) == [gen |-> g, left |-> span]

-----------------------------------------------------------------------------
(* Phases.                                                                 *)

\* Behind the lobby, what only the lobby looks at is not kept.
Entered(m, phase) ==
    [m EXCEPT !.phase = phase, !.quickplay = FALSE, !.seats = 0, !.owner = None,
              !.countdown = None, !.turnAge = 0, !.idle = 0]

\* Fault: the leases are left to the sweep.
Ended_KeepsLeases(m, phase) == Entered(m, phase)

\* All leases are deleted with the end of a match; its clocks stand still.
Ended(m, phase) == [Entered(m, phase) EXCEPT !.lease = [u \in Users |-> None]]

Startable(m) == Cardinality(m.members) >= MinPlayers /\ m.members # {} /\ AllLive(m)

Started(m) == Entered(m, "running")

\* A quickplay lobby counts down as long as all its members are there, and
\* starts when the time is over or the seats are taken.
Advanced(m) ==
    IF ~Open(m) \/ ~m.quickplay THEN m
    ELSE IF ~Startable(m) THEN [m EXCEPT !.countdown = None]
    ELSE IF Cardinality(m.members) >= m.seats \/ m.countdown = 0 THEN Started(m)
    ELSE IF m.countdown = None THEN [m EXCEPT !.countdown = Countdown]
    ELSE m

-----------------------------------------------------------------------------
(* The lobby.                                                              *)

MayJoin(m, u) ==
    /\ Open(m)
    /\ m.quickplay \/ (m.owner \in m.members /\ Live(m, m.owner))
    /\ u \in m.members \/ Cardinality(m.members) < m.seats

\* A member that is there keeps its seat as it is.
Joined(m, u, g) ==
    IF u \in m.members /\ Live(m, u) THEN Advanced(m)
    ELSE Advanced([m EXCEPT !.members = @ \cup {u}, !.conn[u] = "connecting",
                            !.lease[u] = Lease(g, InitialLease)])

\* Who owns an open match when u has left it; a hosted one is not passed on.
Successors(m, u) ==
    IF m.owner # u THEN {m.owner} ELSE IF m.quickplay THEN m.members \ {u} ELSE {}

LeftOpen(m, u) ==
    IF Successors(m, u) = {} THEN {Ended(m, "abandoned")}
    ELSE {Advanced([m EXCEPT !.owner = o, !.members = @ \ {u}, !.conn[u] = "none",
                             !.lease[u] = None]) : o \in Successors(m, u)}

\* A player looking for a match finds a lobby in which nobody waits any more.
Stale(m) == Open(m) /\ m.quickplay /\ \A u \in Users : m.lease[u] = None \/ Lapsed(m, u)

\* A match as one player creates it.
Created(u, lobby, g) ==
    [phase |-> "open", quickplay |-> lobby.quickplay, seats |-> lobby.seats, owner |-> u,
     members |-> {u},
     conn |-> [v \in Users |-> IF v = u THEN "connecting" ELSE "none"],
     lease |-> [v \in Users |-> IF v = u THEN Lease(g, InitialLease) ELSE None],
     resigned |-> {}, countdown |-> None, turnAge |-> 0, idle |-> 0]

-----------------------------------------------------------------------------
(* Connections and leases.                                                 *)

\* A lease is renewed whether it has lapsed or not.
Renewed(m, u) == [m EXCEPT !.lease[u].left = ConnectedLease]

\* Fault: the change is saved without recording the activity.
Offline_Untracked(m, u) == [m EXCEPT !.conn[u] = "offline", !.lease[u] = None]

\* A member of a running match goes offline, which is an activity.
Offline(m, u) == [m EXCEPT !.conn[u] = "offline", !.lease[u] = None, !.idle = 0]

\* Fault: the clock goes on from where it stood.
RestartsClock_Never(m) == FALSE

RestartsClock(m) == Running(m) /\ AllOffline(m)

Connected(m, u, g) ==
    IF Over(m) THEN m
    ELSE LET changed == m.conn[u] # "connected" \/ RestartsClock(m)
         IN  Advanced([m EXCEPT
                 !.conn[u] = "connected",
                 !.lease[u] = Lease(g, ConnectedLease),
                 !.turnAge = IF RestartsClock(m) THEN 0 ELSE @,
                 !.idle = IF Running(m) /\ changed THEN 0 ELSE @])

\* The last stream of generation g is gone; h is a fresh generation.
Disconnected(m, u, g, h) ==
    IF ~Holds(m, u, g) THEN m
    ELSE IF Over(m) THEN [m EXCEPT !.lease[u] = None]
    ELSE IF Running(m) THEN Offline(m, u)
    ELSE Advanced([m EXCEPT !.conn[u] = "reconnecting",
                            !.lease[u] = Lease(h, ReconnectLease)])

\* Fault: a lease is taken that was renewed since it was listed.
StillLapsed_Generation(m, u, g) == Holds(m, u, g)

\* A listed lease is looked at again: it may be renewed or another by now.
StillLapsed(m, u, g) == Holds(m, u, g) /\ Lapsed(m, u)

Expired(m, u, g) ==
    IF ~StillLapsed(m, u, g) THEN {m}
    ELSE IF Open(m) /\ u \in m.members THEN LeftOpen(m, u)
    ELSE IF Running(m) /\ u \in m.members /\ m.conn[u] # "offline" THEN {Offline(m, u)}
    ELSE {[m EXCEPT !.lease[u] = None]}

-----------------------------------------------------------------------------
(* A running match.                                                        *)

\* An accepted command is an activity; it may end the turn or the match.
Commanded(m) ==
    {[m EXCEPT !.idle = 0], [m EXCEPT !.idle = 0, !.turnAge = 0], Ended(m, "finished")}

TurnIsOver(m) == ~AllOffline(m) /\ m.turnAge >= TurnTimeout

\* Inactivity is looked at first.  The rules may refuse to end the turn.
TimedOut(m) ==
    IF ~Running(m) THEN {m}
    ELSE IF m.idle >= InactivityTimeout THEN {Ended(m, "abandoned")}
    ELSE IF TurnIsOver(m) THEN {m, [m EXCEPT !.turnAge = 0], Ended(m, "finished")}
    ELSE {m}

\* Leaving a running match goes offline; one that is over stays as it is.
Left(m, u) ==
    IF Open(m) THEN LeftOpen(m, u)
    ELSE IF Running(m) THEN {Offline(m, u)}
    ELSE {m}

\* A resignation may leave one player with units or cities, or none.  Who
\* has resigned before only loses the lease.
ResignedRunning(m, u) ==
    LET others == m.members \ (m.resigned \cup {u})
        next == [Offline(m, u) EXCEPT !.resigned = @ \cup {u}]
    IN  IF u \in m.resigned THEN {[m EXCEPT !.lease[u] = None]}
        ELSE {Ended(next, "abandoned")}
             \cup (IF others # {} THEN {Ended(next, "finished")} ELSE {})
             \cup (IF Cardinality(others) > 1 THEN {next} ELSE {})

Down(n) == IF n = 0 THEN 0 ELSE n - 1
Up(n, limit) == IF n < limit THEN n + 1 ELSE limit

\* A tick of the clock.
Later(m) ==
    [m EXCEPT
        !.lease = [u \in Users |->
                      IF m.lease[u] = None THEN None
                      ELSE [m.lease[u] EXCEPT !.left = Down(@)]],
        !.countdown = IF @ = None THEN None ELSE Down(@),
        !.turnAge = IF Running(m) THEN Up(@, TurnTimeout) ELSE @,
        !.idle = IF Running(m) THEN Up(@, InactivityTimeout) ELSE @]
=============================================================================
