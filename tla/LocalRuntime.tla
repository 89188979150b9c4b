---------------------------- MODULE LocalRuntime ----------------------------
(***************************************************************************)
(* aonw_local_runtime: the owner of at most one session, with the visibility *)
(* it prepares for the engine, its one-entry query cache and the replay    *)
(* segment it records.  Every request of the client protocol is an action. *)
(***************************************************************************)
EXTENDS Requests

CONSTANT MaxEntries   \* MAX_REPLAY_ENTRY_COUNT

ASSUME SegmentAssumption == MaxEntries \in Nat \ {0}

VARIABLES
    session,     \* None, or the session that is open
    cache,       \* None, or the last answer with the key it was asked under
    document,    \* None, or the save document the host holds
    request,     \* the last request
    reply        \* what it was answered

vars == <<session, cache, document, request, reply>>

-----------------------------------------------------------------------------
(* Sessions.                                                               *)

\* The state digest identifies the game, so the game stands for it.
Context(s) == [actor |-> s.actor, game |-> s.game, offset |-> s.offset]

NewLog(game, offset) == [game |-> game, offset |-> offset, entries |-> <<>>]

\* sight is the actor's fog, prepared for the engine when the state changes.
Opened(game, actor, offset) ==
    [game |-> game, actor |-> actor, offset |-> offset,
     sight |-> game.fog[actor], log |-> NewLog(game, offset)]

View(s) == [s.game EXCEPT !.fog[s.actor] = s.sight]

\* Fault: a segment is left when it holds more than it may.
Prepared_Late(s) ==
    IF Len(s.log.entries) > MaxEntries
    THEN [s EXCEPT !.log = NewLog(s.game, s.offset)] ELSE s

\* A full replay segment is left for a new one that starts here.
Prepared(s) ==
    IF Len(s.log.entries) >= MaxEntries
    THEN [s EXCEPT !.log = NewLog(s.game, s.offset)] ELSE s

\* Fault: only the bound itself is refused, not the event that would pass it.
HasEventCapacity_AtBound(s) == s.offset <= MaxOffset

HasEventCapacity(s) == s.offset + 1 <= MaxOffset

Replaced(s, outcome) ==
    [s EXCEPT !.game = outcome.game, !.sight = outcome.game.fog[s.actor],
              !.offset = @ + Events(outcome.evidence)]

\* The session after an order the engine has not lost, with the order and
\* its result at the end of the replay segment, refused or not.
Dispatched(s, order, expected, outcome) ==
    LET ready == Prepared(s)
        after == Replaced(ready, outcome)
        entry == [index |-> Len(ready.log.entries), context |-> Context(s),
                  order |-> order, expected |-> expected,
                  result |-> [refusal |-> outcome.refusal, game |-> after.game,
                              evidence |-> outcome.evidence, offset |-> after.offset]]
    IN  [after EXCEPT !.log.entries = Append(@, entry)]

OutcomeIn(s, order, expected) == Outcome(s.game, View(s), s.actor, order, expected)

-----------------------------------------------------------------------------
(* Replies.                                                                *)

Stamped(game) == [kind |-> "stamp", stamp |-> game]
Error(code) == [kind |-> "error", code |-> code]
Closed == [kind |-> "closed"]
Named(kind) == [kind |-> kind, of |-> None]
Answered(answer, s) == [kind |-> "answer", stamp |-> s.game, answer |-> answer]

Init ==
    /\ session = None /\ cache = None /\ document = None
    /\ request = Named("closeSession") /\ reply = Closed

-----------------------------------------------------------------------------
(* Opening, closing and saving.                                            *)

\* Fault: a session is opened over the answers of another.
Install_KeepsCache(s) == session' = s /\ UNCHANGED cache

Install(s) == session' = s /\ cache' = None

\* A failed open leaves the session that is open as it is.
OpenSession(opening) ==
    /\ request' = [kind |-> "openSession", of |-> opening]
    /\ UNCHANGED document
    /\ IF opening.fits
       THEN /\ Install(Opened(opening.game, opening.actor, 0))
            /\ reply' = Stamped(opening.game)
       ELSE reply' = Error("session_open_failed") /\ UNCHANGED <<session, cache>>

CloseSession ==
    /\ request' = Named("closeSession")
    /\ Install(None)
    /\ reply' = Closed
    /\ UNCHANGED document

ExportSave ==
    /\ request' = Named("exportSave")
    /\ session # None
    /\ document' = Context(session)
    /\ reply' = [kind |-> "saved"]
    /\ UNCHANGED <<session, cache>>

\* What decode_game_state refuses beyond what the constructor does; no map
\* has more than MAX_QUEUED_PATH_STEP_COUNT tiles.
Decodable(game) ==
    /\ \A u \in Units :
          game.units[u].movement <= MovementLimit /\ Len(game.units[u].queued) <= Cols * Rows
    /\ game.pending.restore <= MovementLimit
    /\ ValidGame(game)

OpenSave(fits) ==
    /\ request' = [kind |-> "openSave", of |-> fits]
    /\ document # None
    /\ UNCHANGED document
    /\ IF fits /\ Decodable(document.game)
       THEN /\ Install(Opened(document.game, document.actor, document.offset))
            /\ reply' = Stamped(document.game)
       ELSE reply' = Error("save_open_failed") /\ UNCHANGED <<session, cache>>

-----------------------------------------------------------------------------
(* Looking, asking and ordering.                                           *)

Snapshot ==
    /\ request' = Named("snapshot")
    /\ session # None
    /\ reply' = [kind |-> "snapshot", stamp |-> session.game,
                 units |-> Shown(session.game, session.actor)]
    /\ UNCHANGED <<session, cache, document>>

\* The actor is not part of the key.
Key(s, question, expected) == [game |-> s.game, question |-> question, expected |-> expected]

\* Only an answer is cached, not a refusal.
AnswerAnew(key, answer) ==
    /\ reply' = Answered(answer, session)
    /\ cache' = IF answer.refusal = "" THEN [key |-> key, answer |-> answer] ELSE cache

Query(question, expected) ==
    LET key == Key(session, question, expected)
    IN  /\ request' = [kind |-> "query", of |-> <<question, expected>>]
        /\ session # None
        /\ UNCHANGED <<session, document>>
        /\ IF cache # None /\ cache.key = key
           THEN reply' = Answered(cache.answer, session) /\ UNCHANGED cache
           ELSE AnswerAnew(key, Answer(View(session), session.actor, question, expected))

\* An order the engine loses takes the session with it.
Conclude(order, expected, outcome) ==
    IF outcome.lost
    THEN reply' = Error("canonical_engine_failed") /\ session' = None
    ELSE /\ session' = Dispatched(session, order, expected, outcome)
         /\ reply' = [kind |-> "result", stamp |-> outcome.game,
                      refusal |-> outcome.refusal, evidence |-> outcome.evidence,
                      patch |-> ViewPatch(Shown(session.game, session.actor),
                                          Shown(outcome.game, session.actor))]

\* Capacity for an event is asked for before the command is looked at.
Dispatch(order, expected) ==
    /\ request' = [kind |-> "dispatch", of |-> <<order, expected>>]
    /\ session # None
    /\ cache' = None
    /\ UNCHANGED document
    /\ IF HasEventCapacity(session)
       THEN Conclude(order, expected, OutcomeIn(session, order, expected))
       ELSE reply' = Error("event_offset_overflow") /\ UNCHANGED session

\* Looking, asking, ordering and saving with no session open.
RefuseClosed ==
    /\ request' \in {Named(kind) : kind \in {"snapshot", "exportSave", "query", "dispatch"}}
    /\ session = None
    /\ reply' = Error("session_not_open")
    /\ UNCHANGED <<session, cache, document>>

Next ==
    \/ \E opening \in Openings : OpenSession(opening)
    \/ \E fits \in BOOLEAN : OpenSave(fits)
    \/ CloseSession \/ ExportSave \/ Snapshot \/ RefuseClosed
    \/ session # None /\ \E expected \in Expected(session.game) :
          \/ \E question \in Questions : Query(question, expected)
          \/ \E order \in Orders : Dispatch(order, expected)

Spec == Init /\ [][Next]_vars
=============================================================================
