------------------------- MODULE PresenceProperties -------------------------
(***************************************************************************)
(* What the presence of players owes them: nobody who is there is taken    *)
(* for gone, who is gone is noticed, and neither a turn nor a match ends   *)
(* for want of players before its time.                                    *)
(*                                                                         *)
(* Two histories are kept beside the system, each counting ticks as far as *)
(* the span it is compared with.  Of the record's own clocks they take     *)
(* only when a turn begins.                                                *)
(***************************************************************************)
EXTENDS MatchPresence

VARIABLES
    attended,   \* ticks since nobody held a lease, or since the turn began
    quiet       \* ticks since a connection changed or a command was accepted

allvars == <<vars, attended, quiet>>

Deserted == \A u \in Users : match.lease[u] = None

TurnBegins == match.turnAge # 0 /\ match'.turnAge = 0

Accepted(c) ==
    /\ Running(match) /\ stream[c] = "open" /\ match.lease[UserOf[c]] # None
    /\ match' \in Commanded(Renewed(match, UserOf[c]))

Active ==
    \/ match'.conn # match.conn
    \/ \E c \in Connections : Accepted(c)

HistoryInit == Init /\ attended = 0 /\ quiet = 0

HistoryNext ==
    \/ /\ Move
       /\ attended' = IF ~Running(match') \/ Deserted' \/ TurnBegins THEN 0 ELSE attended
       /\ quiet' = IF ~Running(match') \/ Active THEN 0 ELSE quiet
    \/ /\ Tick
       /\ attended' = IF Running(match) /\ ~Deserted THEN Up(attended, TurnTimeout) ELSE 0
       /\ quiet' = IF Running(match) THEN Up(quiet, InactivityTimeout) ELSE 0

HistorySpec == HistoryInit /\ [][HistoryNext]_allvars /\ Fairness

-----------------------------------------------------------------------------
\* Who holds a lease is who waits in the lobby, or who is connected in the
\* running match; nobody does when the match is over.  The lease lives in a
\* table of its own, written beside the match by every service, and a player
\* who has lost it in a running match is shown offline.  Only who connects
\* again after a resignation and resigns once more is not.
\* (match_lifecycle_service*.dart, match_participant_connection_coordinator.dart)
LeasesFollowMembership ==
    /\ TypeOK
    /\ Over(match) => Deserted
    /\ Open(match) => \A u \in Users : match.lease[u] # None <=> u \in match.members
    /\ Running(match) =>
           \A u \in Users :
               /\ match.lease[u] # None => u \in match.members /\ match.conn[u] = "connected"
               /\ u \in match.members /\ match.lease[u] = None =>
                      match.conn[u] = "offline" \/ u \in match.resigned

\* The player has a stream open, its generation is the lease's, and the lease
\* has time left.
Attached(u) ==
    /\ match.lease[u] # None
    /\ match.lease[u].left > 0
    /\ \E s \in Servers : OpenAt(s, u) # {} /\ active[s][u] = match.lease[u].gen

\* A sweep or a queued disconnection goes a step on.
Runs ==
    \/ sweep' # sweep
    \/ \E c \in Connections : stream[c] = "leaving" /\ stream'[c] = "closed"

\* No sweep and no disconnection, however late it runs and whatever has been
\* opened, closed or renewed since it was queued or listed, takes the
\* presence of a player who is attached, unless it ends the match.
\* (match_connection_registry.dart, match_lifecycle_service_presence_expiry.dart)
TakenOnlyWhenLost ==
    [][Runs =>
          \A u \in Users :
              Attached(u) /\ ~Over(match') =>
                  match'.lease[u] = match.lease[u] /\ match'.conn[u] = match.conn[u]
      ]_vars

SweepsTurn == \E s \in Servers : sweep[s].stage = "expiring" /\ sweep'[s] = S!Idle

\* A sweep ends a turn only when its time has run with somebody holding a
\* lease: a clock that ran while all were gone is started again by the first
\* to come back.
\* (match_command_service_timeout.dart, match_participant_connection_policy.dart)
TurnsAreAttended ==
    [][SweepsTurn /\ match' # match /\ match'.phase # "abandoned" =>
          attended >= TurnTimeout]_allvars

\* A sweep abandons a running match only when, for the whole timeout, nobody
\* has come or gone and no command was accepted.
\* (match_activity_tracker.dart, match_command_service_timeout.dart)
AbandonedOnlyIdle ==
    [][SweepsTurn /\ match' # match /\ match'.phase = "abandoned" =>
          quiet >= InactivityTimeout]_allvars

\* A lease that lapses is renewed, replaced or taken in the end, though
\* servers crash with the only sweep in hand and transactions fail.
\* (multiplayer_turn_timeout_future_call.dart, reconciled_future_call_scheduler.dart)
LapsedIsSwept == \A u \in Users : []<>~Lapsed(match, u)
=============================================================================
