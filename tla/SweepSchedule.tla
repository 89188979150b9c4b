--------------------------- MODULE SweepSchedule ---------------------------
(***************************************************************************)
(* The sweep that takes lapsed leases and ends turns whose time is over.   *)
(* One entry in the database, shared by the servers, says when it is due.  *)
(* The server that claims the entry removes it and then runs the sweep,    *)
(* which schedules its successor: late at its start, lest it never gets    *)
(* to the end, and soon at its end.                                        *)
(***************************************************************************)
EXTENDS MatchRecord

CONSTANTS
    Servers,
    NextDelay,       \* ticks to the next sweep
    RecoveryDelay    \* ticks to the sweep that stands in for a lost one

VARIABLES
    match,    \* the stored record
    entry,    \* ticks until the sweep is due, None when no entry is there
    sweep     \* per server, how far its sweep is and the leases it has listed

schedule == <<entry, sweep>>

Idle == [stage |-> "idle", listed |-> {}]

Candidates == [user : Users, gen : Generations]

ScheduleTypeOK ==
    /\ entry \in 0 .. RecoveryDelay \cup {None}
    /\ sweep \in [Servers ->
                     [stage : {"idle", "claimed", "expiring"},
                      listed : SUBSET Candidates]]

ScheduleInit ==
    /\ entry = NextDelay
    /\ sweep = [s \in Servers |-> Idle]

-----------------------------------------------------------------------------
\* An entry is inserted when there is none, and may be moved forward.
Scheduled(deadline, accelerate) ==
    IF entry = None \/ (accelerate /\ entry > deadline) THEN deadline ELSE entry

\* Fault: the reconciler moves entries but does not insert one.
Reconciled_Never(delay) == entry

Reconciled(delay) == Scheduled(delay, FALSE)

\* Every server looks after the entry, at its start and from time to time.
Reconcile ==
    /\ entry' \in {Reconciled(NextDelay), Reconciled(RecoveryDelay)}
    /\ UNCHANGED <<match, sweep>>

Stage(s, stage, listed) ==
    sweep' = [sweep EXCEPT ![s] = [stage |-> stage, listed |-> listed]]

\* The scheduler of the framework hands a due entry to one server.
Claim(s) ==
    /\ entry = 0
    /\ sweep[s] = Idle
    /\ entry' = None
    /\ Stage(s, "claimed", {})
    /\ UNCHANGED match

LapsedLeases ==
    {[user |-> u, gen |-> match.lease[u].gen] : u \in {v \in Users : Lapsed(match, v)}}

\* A stand-in is scheduled, then the lapsed leases are listed.  Neither
\* touches what the other does: the two transactions are one step.
BeginSweep(s) ==
    /\ sweep[s].stage = "claimed"
    /\ entry' = Scheduled(RecoveryDelay, TRUE)
    /\ Stage(s, "expiring", LapsedLeases)
    /\ UNCHANGED match

Unlisted(s, candidate) == Stage(s, "expiring", sweep[s].listed \ {candidate})

\* Each lease in a transaction of its own.
Expire(s) ==
    \E candidate \in sweep[s].listed :
        /\ match' \in Expired(match, candidate.user, candidate.gen)
        /\ Unlisted(s, candidate)
        /\ UNCHANGED entry

\* With the leases done, the turn's time is looked at and the next sweep is
\* scheduled: again two transactions in one step.
EndSweep(s) ==
    /\ sweep[s].stage = "expiring"
    /\ sweep[s].listed = {}
    /\ match' \in TimedOut(match)
    /\ entry' = Scheduled(NextDelay, TRUE)
    /\ Stage(s, "idle", {})

SweepStep(s) == BeginSweep(s) \/ Expire(s) \/ EndSweep(s)

\* Each part may fail, and the sweep goes on with the next.
BeginningFails(s) ==
    /\ sweep[s].stage = "claimed"
    /\ \/ entry' = entry /\ Stage(s, "expiring", LapsedLeases)
       \/ entry' = Scheduled(RecoveryDelay, TRUE) /\ Stage(s, "expiring", {})
    /\ UNCHANGED match

ExpiryFails(s) ==
    \E candidate \in sweep[s].listed : Unlisted(s, candidate) /\ UNCHANGED <<match, entry>>

EndingFails(s) ==
    /\ sweep[s].stage = "expiring"
    /\ sweep[s].listed = {}
    /\ \/ match' = match /\ entry' = Scheduled(NextDelay, TRUE)
       \/ match' \in TimedOut(match) /\ entry' = entry
    /\ Stage(s, "idle", {})

SweepFails(s) == BeginningFails(s) \/ ExpiryFails(s) \/ EndingFails(s)
=============================================================================
