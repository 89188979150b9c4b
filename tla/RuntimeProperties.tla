-------------------------- MODULE RuntimeProperties --------------------------
(***************************************************************************)
(* What the local runtime owes its host, as properties of LocalRuntime.    *)
(***************************************************************************)
EXTENDS LocalRuntime

\* The codes a command may be refused with; "" is none.
Refusals ==
    {"", "stale_revision", "unit_not_found", "unit_not_controlled", "unit_unavailable",
     "unit_uses_trade_routes", "unit_out_of_bounds", "move_target_out_of_bounds",
     "move_target_is_current_tile", "move_target_is_foreign_city_center",
     "move_target_occupied", "unit_movement_capacity_insufficient", "move_path_not_found",
     "invalid_queued_movement_path", "stale_state_revision", "unit_busy",
     "unit_definition_missing", "state_revision_overflow"}

LogEntry ==
    [index : Nat,
     context : [actor : Players, game : Game, offset : 0 .. MaxOffset],
     order : Order, expected : Nat,
     result : [refusal : Refusals, game : Game, evidence : Evidence, offset : 0 .. MaxOffset]]

Session ==
    [game : Game, actor : Players, offset : 0 .. MaxOffset, sight : PlayerFog,
     log : [game : Game, offset : 0 .. MaxOffset, entries : Seq(LogEntry)]]

Saved == [game : Game, actor : Players, offset : 0 .. MaxOffset]

\* An absent session is not a session.
ASSUME AbsenceAssumption == None \notin Session /\ None \notin Saved

TypeOK ==
    /\ session # None => session \in Session
    /\ document # None => document \in Saved
    /\ cache # None =>
          cache.key \in [game : Game, question : Question, expected : Nat]

\* The session, the host's save and the replies, with the caches, the replay
\* log and the patches left out.
Promise ==
    INSTANCE GameSession WITH
        live <- IF session = None THEN None ELSE Context(session),
        reply <- IF reply.kind = "result"
                 THEN [kind |-> "result", stamp |-> reply.stamp,
                       refusal |-> reply.refusal, evidence |-> reply.evidence]
                 ELSE reply

\* The runtime is a GameSession: its query cache and its prepared visibility
\* never show in an answer or in the effect of a command, a failed open
\* leaves the session alone, no command loses the session, and whatever it
\* saves it can open again.
KeepsPromise == Promise!Spec

\* The session after an entry, or None if it is repeated with another result.
Agreed(entry, after) ==
    IF entry.result = after.log.entries[Len(after.log.entries)].result THEN after ELSE None

Concluded(s, entry, outcome) ==
    IF outcome.lost THEN None
    ELSE Agreed(entry, Dispatched(s, entry.order, entry.expected, outcome))

Repeated(s, entry) ==
    IF s # None /\ entry.context = Context(s) /\ HasEventCapacity(s)
    THEN Concluded(s, entry, OutcomeIn(s, entry.order, entry.expected)) ELSE None

Restored(log, actor) ==
    IF Decodable(log.game) THEN Opened(log.game, actor, log.offset) ELSE None

\* The session after the i-th entry, given the one before it.
Resumed(log, before, i) ==
    IF log.entries[i].index = i - 1 THEN Repeated(before, log.entries[i]) ELSE None

\* verify_replay_json: a fresh runtime opens the first state of the segment
\* and repeats every order; None when an index, a context or a result differs.
Replay(log, actor) ==
    LET run[i \in 0 .. Len(log.entries)] ==
            IF i = 0 THEN Restored(log, actor) ELSE Resumed(log, run[i - 1], i)
    IN  run[Len(log.entries)]

\* The segment of session s is within bounds and replays to s.
Verifies(s) ==
    /\ Len(s.log.entries) <= MaxEntries
    /\ LET end == Replay(s.log, s.actor)
       IN  end # None /\ Context(end) = Context(s)

\* At any time the segment that export_replay_json writes is within bounds,
\* verifies, and ends in the session as it is now: also after the segment
\* was left for a new one, after refused commands, and in a session opened
\* from a save.
ReplayVerifies == session # None => Verifies(session)

\* A client that applies the patch of each command shows exactly what a new
\* snapshot would show, units that went out of sight included.
PatchCarriesView ==
    [][session # None /\ session' # None /\ reply'.kind = "result" =>
          Patched(Shown(session.game, session.actor), reply'.patch)
          = Shown(session'.game, session'.actor)]_vars
=============================================================================
