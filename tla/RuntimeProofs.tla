--------------------------- MODULE RuntimeProofs ---------------------------
(***************************************************************************)
(* For every world and every host: the local runtime keeps the promise of  *)
(* GameSession, its patches carry the view, and its replay segment         *)
(* verifies.  The inductive invariant says that the session's game can be  *)
(* saved and opened again, that the prepared sight is the actor's fog, and *)
(* that the cached answer is the one the engine would give now; for the    *)
(* segment it is joined with the verification itself, and the order that   *)
(* is added last is repeated on the replay of what came before.            *)
(***************************************************************************)
EXTENDS RuntimeProperties, CommandProofs

-----------------------------------------------------------------------------
(* Games that can be saved.                                                *)

QueuesFit(g) == \A u \in Units : Len(g.units[u].queued) <= Cols * Rows

\* A game that is typed, valid, and whose queued paths are no longer than
\* the map: it can be saved and opened again.
Keepable(g) == Sound(g) /\ QueuesFit(g)

LEMMA KeepableIsDecodable ==
  ASSUME NEW g, Keepable(g)
  PROVE  Decodable(g)
  <1>1. g \in Game /\ ValidGame(g) /\ QueuesFit(g)
    BY DEF Keepable, Sound
  <1>2. \A u \in Units : g.units[u].movement \in 0 .. MovementLimit
    BY <1>1, UnitTyping
  <1>3. g.pending.restore \in 0 .. MovementLimit
    BY <1>1 DEF Game, Pending
  <1> QED BY <1>1, <1>2, <1>3, BalanceAssumption DEF Decodable, QueuesFit

LEMMA UnitUpdateFits ==
  ASSUME NEW g, QueuesFit(g), NEW u \in Units, NEW unit, NEW h,
         g.units \in [Units -> Unit],
         h.units = [g.units EXCEPT ![u] = unit],
         Len(unit.queued) <= Cols * Rows
  PROVE  QueuesFit(h)
  BY DEF QueuesFit

LEMMA NothingQueuedFits == Len(<<>>) <= Cols * Rows
  BY GridAssumption

LEMMA MoveFits ==
  ASSUME NEW g, Keepable(g), NEW u \in Units, NEW target,
         NEW route \in PlannedRoutes(g, u, target),
         NEW k \in ReachedIndex(route, Available(g, u))
  PROVE  QueuesFit(AfterMove(g, u, MovedUnit(g, u, route, k)))
  <1> DEFINE unit == MovedUnit(g, u, route, k)
             moved == [g EXCEPT !.revision = @ + 1, !.units[u] = unit]
             seen == [moved EXCEPT !.fog = RecomputedFog(moved, Owner[u])]
             met == [seen EXCEPT !.contacts = @ \cup SightedPairs(seen)]
  <1>1. g \in Game /\ QueuesFit(g) /\ g.units \in [Units -> Unit] /\ g.units[u] \in Unit
    BY UnitTyping DEF Keepable, Sound
  <1>2. /\ route \in Seq(MovementStep) /\ Len(route) >= 1 /\ Len(route) <= Cols * Rows
        /\ k \in 1 .. Len(route)
    BY <1>1, PlannedFacts DEF ReachedIndex, Travels
  <1>3. k # Len(route) => Len(Rebased(route, k)) = Len(route) - k + 1
    BY <1>2 DEF Rebased
  <1>4. Len(unit.queued) <= Cols * Rows
    <2>1. \/ unit.queued = g.units[u].queued
          \/ unit.queued = <<>>
          \/ k # Len(route) /\ unit.queued = Rebased(route, k)
      BY <1>1 DEF MovedUnit, AfterMovement, Unit
    <2>2. Cols * Rows \in Nat
      BY GridAssumption
    <2> QED BY <1>1, <1>2, <1>3, <2>1, <2>2, NothingQueuedFits DEF QueuesFit
  <1> HIDE DEF unit
  <1>5. moved.units = [g.units EXCEPT ![u] = unit]
    BY <1>1 DEF Game
  <1>6. met.units = moved.units /\ seen.units = moved.units
    BY <1>1 DEF Game
  <1>7. AfterMove(g, u, unit) = IF unit.position = Position(g, u) THEN moved ELSE met
    BY DEF AfterMove
  <1>8. AfterMove(g, u, unit).units = [g.units EXCEPT ![u] = unit]
    BY <1>5, <1>6, <1>7
  <1> QED BY <1>1, <1>4, <1>8, UnitUpdateFits DEF unit

LEMMA ActionsFit ==
  ASSUME NEW g, Keepable(g), NEW u \in Units
  PROVE  /\ QueuesFit(AfterCancel(g, u))
         /\ QueuesFit(AfterSkip(g, u))
         /\ QueuesFit(AfterFortification(g, u))
  <1>1. g \in Game /\ QueuesFit(g) /\ g.units \in [Units -> Unit] /\ g.units[u] \in Unit
    BY UnitTyping DEF Keepable, Sound
  <1>2. /\ AfterCancelAction(g.units[u], CancelMovement(g, u)).queued = <<>>
        /\ AfterSkipTurn(g.units[u]).queued = <<>>
        /\ AfterFortify(g.units[u]).queued = <<>>
    BY <1>1 DEF AfterCancelAction, AfterSkipTurn, AfterFortify, Unit
  <1>3. /\ AfterCancel(g, u).units = [g.units EXCEPT ![u] =
              AfterCancelAction(g.units[u], CancelMovement(g, u))]
        /\ AfterSkip(g, u).units = [g.units EXCEPT ![u] = AfterSkipTurn(g.units[u])]
        /\ AfterFortification(g, u).units = [g.units EXCEPT ![u] = AfterFortify(g.units[u])]
    BY <1>1 DEF AfterCancel, AfterSkip, AfterFortification, Game
  <1> QED BY <1>1, <1>2, <1>3, NothingQueuedFits, UnitUpdateFits

-----------------------------------------------------------------------------
(* The engine's refusals and outcomes.                                     *)

LEMMA RefusalTyping ==
  ASSUME NEW g, NEW actor, NEW u, NEW target, NEW kind, NEW expected
  PROVE  /\ UnitRefusal(g, actor, u) \in Refusals
         /\ Plan(g, actor, u, target, expected).refusal \in Refusals
         /\ ActionRefusal(g, actor, u, kind, expected) \in Refusals
  <1>1. UnitRefusal(g, actor, u) \in Refusals
    BY DEF UnitRefusal, Refusals
  <1>2. TargetRefusal(g, u, target) \in Refusals
    BY DEF TargetRefusal, Refusals
  <1>3. RequestRefusal(g, actor, u, target, expected) \in Refusals
    BY <1>1, <1>2 DEF RequestRefusal, Refusals
  <1>4. \A routes : RouteRefusal(g, u, target, routes) \in Refusals
    BY DEF RouteRefusal, Refusals
  <1>5. Plan(g, actor, u, target, expected).refusal \in Refusals
    BY <1>3, <1>4 DEF Plan, Refusals
  <1>6. ActionRefusal(g, actor, u, kind, expected) \in Refusals
    BY DEF ActionRefusal, Refusals
  <1> QED BY <1>1, <1>5, <1>6

\* What an order makes of a game that can be saved: another one, and the
\* engine does not lose it.
Fine(outcome) ==
    /\ outcome.refusal \in Refusals
    /\ Keepable(outcome.game)
    /\ outcome.evidence \in Evidence
    /\ ~outcome.lost

LEMMA RefusedIsFine ==
  ASSUME NEW g, Keepable(g), NEW code \in Refusals
  PROVE  Fine(Refused(g, code))
  BY NoEvidenceTyping DEF Fine, Refused

LEMMA AcceptedIsFine ==
  ASSUME NEW g, Keepable(g), NEW evidence \in Evidence
  PROVE  Fine(Accepted(g, evidence))
  BY DEF Fine, Accepted, Keepable, Sound, Refusals

LEMMA MoveIsFine ==
  ASSUME NEW g, Keepable(g), NEW actor, NEW u, NEW target, NEW expected
  PROVE  Fine(MoveOutcome(g, g, u, Plan(g, actor, u, target, expected)))
  <1> DEFINE plan == Plan(g, actor, u, target, expected)
  <1>1. g \in Game /\ Sound(g)
    BY DEF Keepable, Sound
  <1>2. plan.refusal \in Refusals
    BY RefusalTyping
  <1>3. CASE plan.refusal # ""
    BY <1>2, <1>3, RefusedIsFine DEF MoveOutcome
  <1>4. CASE plan.refusal = "" /\ g.revision = MaxRevision
    BY <1>4, RefusedIsFine DEF MoveOutcome, Refusals
  <1>5. CASE plan.refusal = "" /\ g.revision # MaxRevision
    <2> DEFINE route == Chosen(plan.routes)
               k == CHOOSE i \in ReachedIndex(route, Available(g, u)) : TRUE
    <2>1. u \in Units /\ plan.routes = PlannedRoutes(g, u, target) /\ plan.routes # {}
      BY <1>5, AcceptedPlan, PlanHasRoute
    <2>2. MoveOutcome(g, g, u, plan) = MoveTo(g, g, u, route, k)
      BY <1>5 DEF MoveOutcome, MoveAlong
    <2>3. route \in PlannedRoutes(g, u, target)
      BY <2>1 DEF Chosen
    <2> HIDE DEF plan, route
    <2>4. k \in ReachedIndex(route, Available(g, u))
      BY <1>1, <2>1, <2>3, PlannedFacts, TurnReachesSomewhere
    <2> HIDE DEF k
    <2>5. CASE Queueable(g, u, route, k)
      <3>1. g.revision < MaxRevision
        BY <1>1, <1>5, RevisionTyping
      <3>2. Sound(AfterMove(g, u, MovedUnit(g, u, route, k)))
        BY <1>1, <2>1, <2>3, <2>4, <2>5, <3>1, MoveSound
      <3>3. QueuesFit(AfterMove(g, u, MovedUnit(g, u, route, k)))
        BY <2>1, <2>3, <2>4, MoveFits
      <3>4. MoveEvidence(g, u, route, k) \in Evidence
        BY <1>1, <2>1, <2>3, <2>4, EvidenceTyping
      <3> QED BY <2>2, <2>5, <3>2, <3>3, <3>4, AcceptedIsFine DEF MoveTo, Keepable, plan
    <2>6. CASE ~Queueable(g, u, route, k)
      BY <2>2, <2>6, RefusedIsFine DEF MoveTo, Refusals, plan
    <2> QED BY <2>5, <2>6
  <1> QED BY <1>3, <1>4, <1>5

LEMMA ActionIsFine ==
  ASSUME NEW g, Keepable(g), NEW order \in Order, order.kind # "move", NEW actor, NEW expected
  PROVE  Fine(ActionOutcome(g, order,
                            ActionRefusal(g, actor, order.unit, order.kind, expected)))
  <1> DEFINE u == order.unit
             refusal == ActionRefusal(g, actor, u, order.kind, expected)
  <1>1. g \in Game /\ Sound(g)
    BY DEF Keepable, Sound
  <1>2. CASE refusal # ""
    BY <1>2, RefusalTyping, RefusedIsFine DEF ActionOutcome
  <1>3. CASE refusal = ""
    <2>1. u \in Units /\ g.revision < MaxRevision
      BY <1>1, <1>3, RevisionTyping DEF ActionRefusal
    <2>2. /\ Keepable(AfterCancel(g, u)) /\ Keepable(AfterSkip(g, u))
          /\ Keepable(AfterFortification(g, u))
      BY <1>1, <2>1, CancelSound, SkipSound, FortifySound, ActionsFit DEF Keepable
    <2>3. order.kind \in {"cancel", "skip", "fortify"}
      BY DEF Order, ActionKinds
    <2> QED BY <1>3, <2>2, <2>3, NoEvidenceTyping, AcceptedIsFine DEF ActionOutcome
  <1> QED BY <1>2, <1>3

LEMMA OutcomeIsFine ==
  ASSUME NEW g, Keepable(g), NEW actor, NEW order \in Order, NEW expected
  PROVE  Fine(Outcome(g, g, actor, order, expected))
  BY MoveIsFine, ActionIsFine DEF Outcome

-----------------------------------------------------------------------------
(* Sessions.                                                               *)

\* A session of a game that can be saved, prepared for its actor.
Kept(s) == s \in Session /\ Keepable(s.game) /\ s.sight = s.game.fog[s.actor]

LEMMA ViewIsGame ==
  ASSUME NEW s, Kept(s)
  PROVE  View(s) = s.game
  <1>1. s.game \in Game /\ s.actor \in Players
    BY DEF Kept, Session
  <1>2. s.game.fog \in [Players -> PlayerFog]
    BY <1>1 DEF Game
  <1>3. [s.game.fog EXCEPT ![s.actor] = s.sight] = s.game.fog
    BY <1>1, <1>2 DEF Kept
  <1> QED BY <1>1, <1>3 DEF View, Game

LEMMA OpenedIsKept ==
  ASSUME NEW game, Keepable(game), NEW actor \in Players, NEW offset \in 0 .. MaxOffset
  PROVE  /\ Kept(Opened(game, actor, offset))
         /\ Context(Opened(game, actor, offset)) = [game |-> game, actor |-> actor, offset |-> offset]
  <1>1. game \in Game
    BY DEF Keepable, Sound
  <1>2. game.fog[actor] \in PlayerFog
    BY <1>1 DEF Game
  <1>3. NewLog(game, offset) \in [game : Game, offset : 0 .. MaxOffset, entries : Seq(LogEntry)]
    BY <1>1 DEF NewLog
  <1> QED BY <1>1, <1>2, <1>3 DEF Opened, Kept, Session, Context

LEMMA PreparedTyping ==
  ASSUME NEW s \in Session
  PROVE  /\ Prepared(s) \in Session
         /\ Prepared(s).game = s.game /\ Prepared(s).actor = s.actor
         /\ Prepared(s).offset = s.offset /\ Prepared(s).sight = s.sight
  <1>1. NewLog(s.game, s.offset) \in [game : Game, offset : 0 .. MaxOffset, entries : Seq(LogEntry)]
    BY DEF NewLog, Session
  <1> QED BY <1>1 DEF Prepared, Session

LEMMA DispatchedIsKept ==
  ASSUME NEW s, Kept(s), HasEventCapacity(s), NEW order \in Order, NEW expected \in Nat,
         NEW outcome, Fine(outcome)
  PROVE  LET after == Dispatched(s, order, expected, outcome)
         IN  /\ Kept(after)
             /\ after.game = outcome.game /\ after.actor = s.actor
             /\ after.offset = s.offset + Events(outcome.evidence)
  <1> DEFINE ready == Prepared(s)
             after == Replaced(ready, outcome)
             entry == [index |-> Len(ready.log.entries), context |-> Context(s),
                       order |-> order, expected |-> expected,
                       result |-> [refusal |-> outcome.refusal, game |-> after.game,
                                   evidence |-> outcome.evidence, offset |-> after.offset]]
             final == [after EXCEPT !.log.entries = Append(@, entry)]
  <1>1. s \in Session /\ s.offset + 1 <= MaxOffset
    BY DEF Kept, HasEventCapacity
  <1>2. /\ outcome.game \in Game /\ outcome.evidence \in Evidence
        /\ outcome.refusal \in Refusals /\ Keepable(outcome.game)
    BY DEF Fine, Keepable, Sound
  <1>3. s.actor \in Players /\ s.offset \in 0 .. MaxOffset /\ s.game \in Game
    BY <1>1 DEF Session
  <1>4. s.offset + Events(outcome.evidence) \in 0 .. MaxOffset
    BY <1>1, <1>3, RequestAssumption DEF Events
  <1>5. outcome.game.fog[s.actor] \in PlayerFog
    BY <1>2, <1>3 DEF Game
  <1>6. /\ ready \in Session
        /\ ready.actor = s.actor /\ ready.offset = s.offset
    BY <1>1, PreparedTyping
  <1> HIDE DEF ready
  <1>7. /\ after \in Session
        /\ after.game = outcome.game /\ after.actor = s.actor
        /\ after.offset = s.offset + Events(outcome.evidence)
        /\ after.sight = outcome.game.fog[s.actor] /\ after.log = ready.log
    BY <1>2, <1>4, <1>5, <1>6 DEF Replaced, Session
  <1> HIDE DEF after
  <1>8. Context(s) \in [actor : Players, game : Game, offset : 0 .. MaxOffset]
    BY <1>3 DEF Context
  <1>9. ready.log.entries \in Seq(LogEntry)
    BY <1>6 DEF Session
  <1>10. entry \in LogEntry
    BY <1>2, <1>4, <1>7, <1>8, <1>9 DEF LogEntry
  <1> HIDE DEF entry
  <1>11. Append(after.log.entries, entry) \in Seq(LogEntry)
    BY <1>7, <1>9, <1>10
  <1>12. /\ final \in Session
         /\ final.game = after.game /\ final.actor = after.actor
         /\ final.offset = after.offset /\ final.sight = after.sight
    BY <1>7, <1>11 DEF Session
  <1>13. final = Dispatched(s, order, expected, outcome)
    BY DEF Dispatched, ready, after, entry
  <1> HIDE DEF final
  <1> QED BY <1>2, <1>7, <1>12, <1>13 DEF Kept

-----------------------------------------------------------------------------
(* The invariant.                                                          *)

\* The cached answer is what the engine would answer the session now, if it
\* were asked under the key.
Fresh ==
    cache # None =>
        /\ session # None
        /\ cache.key \in [game : Game, question : Question, expected : Nat]
        /\ cache.answer = Answer(cache.key.game, session.actor,
                                 cache.key.question, cache.key.expected)

RuntimeInv ==
    /\ session # None => Kept(session)
    /\ document # None => document \in Saved /\ Keepable(document.game)
    /\ Fresh

LEMMA InvIsTyped == RuntimeInv => TypeOK
  BY DEF RuntimeInv, TypeOK, Kept, Fresh

LEMMA ExpectedTyping ==
  ASSUME RuntimeInv, session # None, NEW expected \in Expected(session.game)
  PROVE  expected \in Nat
  <1>1. session.game \in Game
    BY DEF RuntimeInv, Kept, Session
  <1> QED BY <1>1, RevisionTyping, PolicyAssumption DEF Expected

LEMMA OpeningIsKept ==
  ASSUME NEW opening \in Openings
  PROVE  /\ opening.actor \in Players /\ Keepable(opening.game)
         /\ Kept(Opened(opening.game, opening.actor, 0))
         /\ Context(Opened(opening.game, opening.actor, 0))
              = [game |-> opening.game, actor |-> opening.actor, offset |-> 0]
  <1>1. Keepable(opening.game) /\ opening.actor \in Players
    BY RequestAssumption DEF Keepable, QueuesFit, Sound
  <1>2. 0 \in 0 .. MaxOffset
    BY RequestAssumption
  <1> QED BY <1>1, <1>2, OpenedIsKept

\* What Dispatch leaves, when the order is not lost.
LEMMA ConcludedIsKept ==
  ASSUME RuntimeInv, session # None, HasEventCapacity(session),
         NEW order \in Orders, NEW expected \in Expected(session.game),
         NEW outcome, outcome = OutcomeIn(session, order, expected)
  PROVE  /\ outcome = Outcome(session.game, session.game, session.actor, order, expected)
         /\ ~outcome.lost
         /\ Kept(Dispatched(session, order, expected, outcome))
         /\ Context(Dispatched(session, order, expected, outcome))
              = [game |-> outcome.game, actor |-> session.actor,
                 offset |-> session.offset + Events(outcome.evidence)]
  <1>1. Kept(session) /\ Keepable(session.game)
    BY DEF RuntimeInv, Kept
  <1>2. outcome = Outcome(session.game, session.game, session.actor, order, expected)
    BY <1>1, ViewIsGame DEF OutcomeIn
  <1>3. order \in Order /\ expected \in Nat
    BY RequestAssumption, ExpectedTyping
  <1>4. Fine(outcome)
    BY <1>1, <1>2, <1>3, OutcomeIsFine
  <1> HIDE <1>2
  <1>5. /\ Kept(Dispatched(session, order, expected, outcome))
        /\ Dispatched(session, order, expected, outcome).game = outcome.game
        /\ Dispatched(session, order, expected, outcome).actor = session.actor
        /\ Dispatched(session, order, expected, outcome).offset
              = session.offset + Events(outcome.evidence)
    BY <1>1, <1>3, <1>4, DispatchedIsKept
  <1> QED BY <1>2, <1>4, <1>5 DEF Fine, Context

\* A kept session is a session.
LEMMA KeptIsSome ==
  ASSUME NEW s, Kept(s)
  PROVE  s # None /\ Context(s) # None /\ Context(s) \in Saved
  <1>1. s \in Session
    BY DEF Kept
  <1>2. Context(s) \in Saved
    BY <1>1 DEF Context, Saved, Session
  <1> QED BY <1>1, <1>2, AbsenceAssumption

LEMMA InitRuntime == Init => RuntimeInv
  BY DEF Init, RuntimeInv, Fresh

LEMMA OpenSessionKeeps ==
  ASSUME RuntimeInv, NEW opening \in Openings, OpenSession(opening)
  PROVE  RuntimeInv'
  <1>1. CASE opening.fits
    BY <1>1, OpeningIsKept DEF OpenSession, Install, RuntimeInv, Fresh
  <1>2. CASE ~opening.fits
    BY <1>2 DEF OpenSession, RuntimeInv, Fresh
  <1> QED BY <1>1, <1>2

LEMMA OpenSaveKeeps ==
  ASSUME RuntimeInv, NEW fits \in BOOLEAN, OpenSave(fits)
  PROVE  RuntimeInv'
  <1>1. CASE fits /\ Decodable(document.game)
    <2>1. document \in Saved /\ Keepable(document.game)
      BY DEF RuntimeInv, OpenSave
    <2>2. Kept(Opened(document.game, document.actor, document.offset))
      BY <2>1, OpenedIsKept DEF Saved
    <2> QED BY <1>1, <2>2 DEF OpenSave, Install, RuntimeInv, Fresh
  <1>2. CASE ~(fits /\ Decodable(document.game))
    BY <1>2 DEF OpenSave, RuntimeInv, Fresh
  <1> QED BY <1>1, <1>2

LEMMA ExportKeeps ==
  ASSUME RuntimeInv, ExportSave
  PROVE  RuntimeInv'
  <1>1. Kept(session) /\ session # None
    BY DEF RuntimeInv, ExportSave
  <1>2. Context(session) \in Saved /\ Keepable(Context(session).game)
    BY <1>1, KeptIsSome DEF Kept, Context
  <1> QED BY <1>2 DEF ExportSave, RuntimeInv, Fresh

LEMMA QueryKeeps ==
  ASSUME RuntimeInv, session # None, NEW expected \in Expected(session.game),
         NEW question \in Questions, Query(question, expected)
  PROVE  RuntimeInv'
  <1> DEFINE key == Key(session, question, expected)
             answer == Answer(View(session), session.actor, question, expected)
  <1>1. Kept(session)
    BY DEF RuntimeInv
  <1>2. answer = Answer(session.game, session.actor, question, expected)
    BY <1>1, ViewIsGame
  <1>3. /\ key \in [game : Game, question : Question, expected : Nat]
        /\ key.game = session.game /\ key.question = question /\ key.expected = expected
    BY <1>1, RequestAssumption, ExpectedTyping DEF Key, Kept, Session
  <1> HIDE DEF answer, key
  <1>4. /\ UNCHANGED <<session, document>>
        /\ UNCHANGED cache \/ cache' = [key |-> key, answer |-> answer]
    BY DEF Query, AnswerAnew, key, answer
  <1>5. CASE UNCHANGED cache
    BY <1>4, <1>5 DEF RuntimeInv, Fresh
  <1>6. CASE cache' = [key |-> key, answer |-> answer]
    BY <1>2, <1>3, <1>4, <1>6 DEF RuntimeInv, Fresh
  <1> QED BY <1>4, <1>5, <1>6

LEMMA DispatchKeeps ==
  ASSUME RuntimeInv, session # None, NEW expected \in Expected(session.game),
         NEW order \in Orders, Dispatch(order, expected)
  PROVE  RuntimeInv'
  <1> DEFINE outcome == OutcomeIn(session, order, expected)
  <1>1. CASE HasEventCapacity(session)
    <2>1. ~outcome.lost /\ Kept(Dispatched(session, order, expected, outcome))
      BY <1>1, ConcludedIsKept
    <2> HIDE DEF outcome
    <2>2. session' = Dispatched(session, order, expected, outcome)
          /\ cache' = None /\ UNCHANGED document
      BY <1>1, <2>1 DEF Dispatch, Conclude, outcome
    <2> QED BY <2>1, <2>2 DEF RuntimeInv, Fresh
  <1>2. CASE ~HasEventCapacity(session)
    BY <1>2 DEF Dispatch, RuntimeInv, Fresh
  <1> QED BY <1>1, <1>2

LEMMA RuntimeStep == RuntimeInv /\ [Next]_vars => RuntimeInv'
  <1> SUFFICES ASSUME RuntimeInv, [Next]_vars PROVE RuntimeInv'
    OBVIOUS
  <1>1. ASSUME NEW opening \in Openings, OpenSession(opening) PROVE RuntimeInv'
    BY <1>1, OpenSessionKeeps
  <1>2. ASSUME NEW fits \in BOOLEAN, OpenSave(fits) PROVE RuntimeInv'
    BY <1>2, OpenSaveKeeps
  <1>3. CASE CloseSession
    BY <1>3 DEF CloseSession, Install, RuntimeInv, Fresh
  <1>4. CASE ExportSave
    BY <1>4, ExportKeeps
  <1>5. CASE Snapshot \/ RefuseClosed \/ UNCHANGED vars
    BY <1>5 DEF Snapshot, RefuseClosed, vars, RuntimeInv, Fresh
  <1>6. ASSUME session # None, NEW expected \in Expected(session.game),
               NEW question \in Questions, Query(question, expected)
        PROVE  RuntimeInv'
    BY <1>6, QueryKeeps
  <1>7. ASSUME session # None, NEW expected \in Expected(session.game),
               NEW order \in Orders, Dispatch(order, expected)
        PROVE  RuntimeInv'
    BY <1>7, DispatchKeeps
  <1> QED BY <1>1, <1>2, <1>3, <1>4, <1>5, <1>6, <1>7 DEF Next

\* Sessions and saves stay typed and valid, and the cached answer is what the
\* engine would say now.
THEOREM RuntimeInvariant == Spec => []RuntimeInv
  BY InitRuntime, RuntimeStep, PTL DEF Spec

\* Whatever the host asks, sessions, saves, the replay segment and the query
\* cache keep their types; in particular no event passes the last offset.
THEOREM RuntimeTypeCorrect == Spec => []TypeOK
  BY RuntimeInvariant, InvIsTyped, PTL

-----------------------------------------------------------------------------
(* The replay segment.                                                     *)

Result(s, outcome) ==
    [refusal |-> outcome.refusal, game |-> outcome.game, evidence |-> outcome.evidence,
     offset |-> s.offset + Events(outcome.evidence)]

\* The segment after an order ends in an entry that tells it and its result.
Written(s, order, expected, outcome, log) ==
    LET before == Prepared(s).log
        n == Len(before.entries)
        entry == log.entries[n + 1]
    IN  /\ n \in Nat /\ Len(log.entries) = n + 1
        /\ log.entries = Append(before.entries, entry)
        /\ log.game = before.game /\ log.offset = before.offset
        /\ entry.index = n /\ entry.context = Context(s)
        /\ entry.order = order /\ entry.expected = expected
        /\ entry.result = Result(s, outcome)

LEMMA DispatchedEntry ==
  ASSUME NEW s, Kept(s), HasEventCapacity(s), NEW order \in Order, NEW expected \in Nat,
         NEW outcome, Fine(outcome)
  PROVE  Written(s, order, expected, outcome,
                 Dispatched(s, order, expected, outcome).log)
  <1> DEFINE ready == Prepared(s)
             after == Replaced(ready, outcome)
             entry == [index |-> Len(ready.log.entries), context |-> Context(s),
                       order |-> order, expected |-> expected,
                       result |-> [refusal |-> outcome.refusal, game |-> after.game,
                                   evidence |-> outcome.evidence, offset |-> after.offset]]
             final == [after EXCEPT !.log.entries = Append(@, entry)]
  <1>1. ready \in Session /\ ready.offset = s.offset
    BY PreparedTyping DEF Kept
  <1> HIDE DEF ready
  <1>2. /\ ready.log \in [game : Game, offset : 0 .. MaxOffset, entries : Seq(LogEntry)]
        /\ Len(ready.log.entries) \in Nat /\ ready.log.entries \in Seq(LogEntry)
    BY <1>1 DEF Session
  <1>3. /\ after.log = ready.log /\ after.game = outcome.game
        /\ after.offset = s.offset + Events(outcome.evidence)
        /\ DOMAIN after = DOMAIN ready /\ "log" \in DOMAIN after
    BY <1>1 DEF Replaced, Session
  <1> HIDE DEF after
  <1>4. /\ entry.index = Len(ready.log.entries) /\ entry.context = Context(s)
        /\ entry.order = order /\ entry.expected = expected
        /\ entry.result = Result(s, outcome)
    BY <1>3 DEF Result
  <1> HIDE DEF entry
  <1>5. /\ final.log.entries = Append(ready.log.entries, entry)
        /\ final.log.game = ready.log.game /\ final.log.offset = ready.log.offset
    BY <1>2, <1>3
  <1>6. /\ Len(final.log.entries) = Len(ready.log.entries) + 1
        /\ final.log.entries[Len(ready.log.entries) + 1] = entry
    BY <1>2, <1>5
  <1>7. final = Dispatched(s, order, expected, outcome)
    BY DEF Dispatched, ready, after, entry
  <1> HIDE DEF final
  <1> QED BY <1>2, <1>4, <1>5, <1>6, <1>7 DEF ready, Written

Log == [game : Game, offset : 0 .. MaxOffset, entries : Seq(LogEntry)]

\* What a replay goes through.
Replayed == {s \in Session : Kept(s)} \cup {None}

LEMMA RepeatedTyping ==
  ASSUME NEW s \in Replayed, NEW entry \in LogEntry
  PROVE  Repeated(s, entry) \in Replayed
  <1> SUFFICES ASSUME Repeated(s, entry) # None
               PROVE  Repeated(s, entry) \in Replayed
    BY DEF Replayed
  <1> DEFINE outcome == OutcomeIn(s, entry.order, entry.expected)
             after == Dispatched(s, entry.order, entry.expected, outcome)
  <1>1. Kept(s) /\ HasEventCapacity(s)
    BY DEF Repeated, Replayed
  <1>2. entry.order \in Order /\ entry.expected \in Nat
    BY DEF LogEntry
  <1>3. Fine(outcome)
    BY <1>1, <1>2, ViewIsGame, OutcomeIsFine DEF OutcomeIn, Kept
  <1>4. Kept(after)
    BY <1>1, <1>2, <1>3, DispatchedIsKept
  <1>5. Repeated(s, entry) = after
    <2> HIDE DEF after
    <2>1. Repeated(s, entry) = Concluded(s, entry, outcome)
      BY DEF Repeated
    <2> HIDE DEF outcome
    <2>2. Concluded(s, entry, outcome) \in {after, None}
      BY DEF Concluded, Agreed, after
    <2> QED BY <2>1, <2>2
  <1> HIDE DEF after
  <1> QED BY <1>4, <1>5 DEF Kept, Replayed

LEMMA RestoredTyping ==
  ASSUME NEW log \in Log, NEW actor \in Players
  PROVE  Restored(log, actor) \in Replayed
  <1>1. CASE Decodable(log.game)
    <2>1. Keepable(log.game)
      BY <1>1 DEF Log, Decodable, Keepable, Sound, QueuesFit
    <2>2. Kept(Opened(log.game, actor, log.offset))
      BY <2>1, OpenedIsKept DEF Log
    <2> QED BY <1>1, <2>2 DEF Restored, Replayed, Kept
  <1>2. CASE ~Decodable(log.game)
    BY <1>2 DEF Restored, Replayed
  <1> QED BY <1>1, <1>2

LEMMA ResumedTyping ==
  ASSUME NEW log \in Log, NEW s \in Replayed, NEW i \in 1 .. Len(log.entries)
  PROVE  Resumed(log, s, i) \in Replayed
  <1>1. log.entries[i] \in LogEntry
    BY DEF Log
  <1> QED BY <1>1, RepeatedTyping DEF Resumed, Replayed

\* f is the replay of the segment, entry by entry.
Runs(f, log, actor) ==
    /\ f \in [0 .. Len(log.entries) -> Replayed]
    /\ f[0] = Restored(log, actor)
    /\ \A i \in 1 .. Len(log.entries) : f[i] = Resumed(log, f[i - 1], i)
    /\ Replay(log, actor) = f[Len(log.entries)]

LEMMA ReplayRuns ==
  ASSUME NEW log \in Log, NEW actor \in Players
  PROVE  \E f : Runs(f, log, actor)
  <1> DEFINE N == Len(log.entries)
             first == Restored(log, actor)
             step == [x \in Replayed \X Nat |->
                         IF x[2] \in 1 .. N THEN Resumed(log, x[1], x[2]) ELSE None]
             Run(f) == f = [i \in 0 .. N |-> IF i = 0 THEN first ELSE Resumed(log, f[i - 1], i)]
             run == CHOOSE f : Run(f)
  <1>1. N \in Nat /\ 0 \in Int /\ N \in Int /\ 0 <= 0 /\ 0 <= N
    BY DEF Log
  <1>2. Replay(log, actor) = run[N]
    BY Zenon DEF Replay
  <1>3. first \in Replayed
    BY RestoredTyping
  <1>4. step \in [Replayed \X Nat -> Replayed]
    BY ResumedTyping DEF Replayed
  <1> HIDE DEF N, first
  <1>5. PICK f \in [0 .. N -> Replayed] : Follows(f, 0, N, first, step)
    <2> HIDE DEF step
    <2> QED BY <1>1, <1>3, <1>4, Recursion
  <1>6. ASSUME NEW i \in 1 .. N
        PROVE  f[i] = Resumed(log, f[i - 1], i)
    <2>1. <<f[i - 1], i>> \in Replayed \X Nat /\ i \in 0 .. N /\ i # 0
      BY <1>1
    <2>2. f[i] = step[<<f[i - 1], i>>]
      <3> HIDE DEF step
      <3> QED BY <1>5, <2>1 DEF Follows
    <2> QED BY <2>1, <2>2
  <1> HIDE DEF step
  <1>7. f[0] = first
    <2>1. 0 \in 0 .. N
      BY <1>1
    <2> QED BY <1>5, <2>1 DEF Follows
  <1>8. Run(f)
    BY <1>5, <1>6, <1>7
  <1>9. Run(run)
    BY <1>8
  <1> HIDE DEF run
  <1>10. run[0] = first /\ \A i \in 1 .. N : run[i] = Resumed(log, run[i - 1], i)
    BY <1>1, <1>9
  <1> DEFINE S == {i \in 0 .. N : run[i] \in Replayed}
  <1>11. \A i \in 0 .. N : i \in S
    <2>1. 0 \in S
      BY <1>1, <1>3, <1>10
    <2>2. ASSUME NEW i \in 0 + 1 .. N, i - 1 \in S
          PROVE  i \in S
      BY <1>1, <1>10, <2>2, ResumedTyping DEF N
    <2> HIDE DEF S
    <2> QED BY <1>1, <2>1, <2>2, Induction
  <1>12. run \in [0 .. N -> Replayed]
    BY <1>9, <1>11
  <1> QED BY <1>2, <1>10, <1>12 DEF Runs, N, first

LEMMA EmptyReplays ==
  ASSUME NEW log \in Log, Len(log.entries) = 0, NEW actor \in Players
  PROVE  Replay(log, actor) = Restored(log, actor)
  <1>1. PICK f : Runs(f, log, actor)
    BY ReplayRuns
  <1> QED BY <1>1 DEF Runs

\* One entry more is one order more.
LEMMA LongerReplays ==
  ASSUME NEW log \in Log, NEW longer \in Log, NEW actor \in Players,
         longer.game = log.game, longer.offset = log.offset,
         Len(longer.entries) = Len(log.entries) + 1,
         \A i \in 1 .. Len(log.entries) : longer.entries[i] = log.entries[i]
  PROVE  Replay(longer, actor)
            = Resumed(longer, Replay(log, actor), Len(log.entries) + 1)
  <1> DEFINE N == Len(log.entries)
  <1>1. N \in Nat /\ N \in Int /\ 0 \in Int /\ 0 <= 0
    BY DEF Log
  <1>2. PICK f : Runs(f, log, actor)
    BY ReplayRuns
  <1>3. PICK g : Runs(g, longer, actor)
    BY ReplayRuns
  <1> DEFINE S == {i \in 0 .. N : g[i] = f[i]}
  <1>4. 0 \in S
    BY <1>1, <1>2, <1>3 DEF Runs, Restored
  <1>5. ASSUME NEW i \in 0 + 1 .. N, i - 1 \in S
        PROVE  i \in S
    <2>1. /\ i \in 0 .. N /\ i \in 1 .. Len(longer.entries) /\ i \in 1 .. Len(log.entries)
          /\ longer.entries[i] = log.entries[i] /\ g[i - 1] = f[i - 1]
      BY <1>1, <1>5
    <2>2. g[i] = Resumed(longer, g[i - 1], i) /\ f[i] = Resumed(log, f[i - 1], i)
      BY <1>2, <1>3, <2>1 DEF Runs
    <2>3. Resumed(longer, g[i - 1], i) = Resumed(log, f[i - 1], i)
      BY <2>1 DEF Resumed
    <2> QED BY <2>1, <2>2, <2>3
  <1>6. \A i \in 0 .. N : i \in S
    <2> HIDE DEF S, N
    <2> QED BY <1>1, <1>4, <1>5, Induction
  <1>7. g[N] = f[N]
    BY <1>1, <1>6
  <1>8. g[N + 1] = Resumed(longer, g[N + 1 - 1], N + 1) /\ N + 1 - 1 = N
    <2>1. N + 1 \in 1 .. Len(longer.entries) /\ N + 1 - 1 = N
      BY <1>1
    <2> QED BY <1>3, <2>1 DEF Runs
  <1> QED BY <1>2, <1>3, <1>7, <1>8 DEF Runs

\* The segment an order is added to replays to the session as it is.
LEMMA PreparedReplays ==
  ASSUME NEW s, Kept(s), Verifies(s)
  PROVE  LET ready == Prepared(s)
             end == Replay(ready.log, s.actor)
         IN  /\ Len(ready.log.entries) < MaxEntries
             /\ Kept(end) /\ Context(end) = Context(s)
  <1>1. s \in Session /\ s.log \in Log /\ s.actor \in Players /\ Keepable(s.game)
        /\ s.game \in Game /\ s.offset \in 0 .. MaxOffset
    BY DEF Kept, Session, Log
  <1>2. CASE Len(s.log.entries) >= MaxEntries
    <2>1. Prepared(s).log = NewLog(s.game, s.offset)
      BY <1>1, <1>2 DEF Prepared, Session
    <2>2. /\ NewLog(s.game, s.offset) \in Log /\ Len(NewLog(s.game, s.offset).entries) = 0
          /\ NewLog(s.game, s.offset).game = s.game
          /\ NewLog(s.game, s.offset).offset = s.offset
      BY <1>1 DEF NewLog, Log
    <2>3. Decodable(s.game)
      BY <1>1, KeepableIsDecodable
    <2>4. Replay(Prepared(s).log, s.actor) = Opened(s.game, s.actor, s.offset)
      BY <1>1, <2>1, <2>2, <2>3, EmptyReplays DEF Restored
    <2> QED BY <1>1, <2>1, <2>2, <2>4, OpenedIsKept, SegmentAssumption DEF Context
  <1>3. CASE ~(Len(s.log.entries) >= MaxEntries)
    <2>1. Prepared(s).log = s.log
      BY <1>3 DEF Prepared
    <2>2. Len(s.log.entries) < MaxEntries
      BY <1>1, <1>3, SegmentAssumption DEF Log
    <2>3. PICK f : Runs(f, s.log, s.actor)
      BY <1>1, ReplayRuns
    <2>4. Replay(s.log, s.actor) \in Replayed
      BY <1>1, <2>3 DEF Runs, Log
    <2> QED BY <2>1, <2>2, <2>4 DEF Verifies, Replayed
  <1> QED BY <1>2, <1>3

LEMMA OpenedVerifies ==
  ASSUME NEW game, Keepable(game), NEW actor \in Players, NEW offset \in 0 .. MaxOffset
  PROVE  Verifies(Opened(game, actor, offset))
  <1> DEFINE s == Opened(game, actor, offset)
  <1>1. Kept(s)
    BY OpenedIsKept
  <1>2. /\ s.log \in Log /\ s.actor = actor /\ Len(s.log.entries) = 0
        /\ s.log.game = game /\ s.log.offset = offset
    BY DEF Opened, NewLog, Log, Keepable, Sound
  <1>3. Replay(s.log, actor) = s
    <2> HIDE DEF s
    <2>1. Replay(s.log, actor) = Restored(s.log, actor)
      BY <1>2, EmptyReplays
    <2> QED BY <1>2, <2>1, KeepableIsDecodable DEF Restored, s
  <1> HIDE DEF s
  <1>4. s # None
    BY <1>1, KeptIsSome
  <1> QED BY <1>2, <1>3, <1>4, SegmentAssumption DEF Verifies, s

LEMMA DispatchedVerifies ==
  ASSUME NEW s, Kept(s), Verifies(s), HasEventCapacity(s), NEW order \in Order,
         NEW expected \in Nat,
         NEW outcome, outcome = Outcome(s.game, s.game, s.actor, order, expected)
  PROVE  Verifies(Dispatched(s, order, expected, outcome))
  <1> DEFINE log == Prepared(s).log
             n == Len(log.entries)
             end == Replay(log, s.actor)
             after == Dispatched(s, order, expected, outcome)
             entry == after.log.entries[n + 1]
             again == Dispatched(end, order, expected, outcome)
  <1>1. Fine(outcome)
    BY OutcomeIsFine DEF Kept
  <1>2. n < MaxEntries /\ Kept(end) /\ Context(end) = Context(s)
    BY PreparedReplays
  <1>3. /\ end.game = s.game /\ end.actor = s.actor /\ end.offset = s.offset
    <2> HIDE DEF end
    <2>1. /\ Context(end).game = end.game /\ Context(end).actor = end.actor
          /\ Context(end).offset = end.offset
      BY DEF Context
    <2>2. /\ Context(s).game = s.game /\ Context(s).actor = s.actor
          /\ Context(s).offset = s.offset
      BY DEF Context
    <2> QED BY <1>2, <2>1, <2>2
  <1>4. log \in Log /\ n \in Nat /\ s.actor \in Players
    <2>1. Prepared(s) \in Session /\ s \in Session
      BY PreparedTyping DEF Kept
    <2> QED BY <2>1 DEF Session, Log
  <1> HIDE DEF end
  <1>5. HasEventCapacity(end)
    BY <1>3 DEF HasEventCapacity
  <1>6. /\ Kept(after) /\ after.actor = s.actor /\ after.game = outcome.game
        /\ after.offset = s.offset + Events(outcome.evidence)
        /\ Kept(again) /\ again.actor = s.actor /\ again.game = outcome.game
        /\ again.offset = s.offset + Events(outcome.evidence)
    BY <1>1, <1>2, <1>3, <1>5, DispatchedIsKept
  <1>7. /\ Len(after.log.entries) = n + 1
        /\ after.log.entries = Append(log.entries, entry)
        /\ after.log.game = log.game /\ after.log.offset = log.offset
        /\ entry.index = n /\ entry.context = Context(s)
        /\ entry.order = order /\ entry.expected = expected
        /\ entry.result = Result(s, outcome)
    <2>1. Written(s, order, expected, outcome, after.log)
      BY <1>1, DispatchedEntry
    <2> HIDE DEF after
    <2> QED BY <2>1 DEF Written
  <1>8. again.log.entries[Len(again.log.entries)].result = Result(s, outcome)
    <2>1. Written(end, order, expected, outcome, again.log)
      BY <1>1, <1>2, <1>5, DispatchedEntry
    <2> HIDE DEF again
    <2> QED BY <1>3, <2>1 DEF Written, Result
  <1> HIDE DEF log, after, again, entry
  <1>9. OutcomeIn(end, order, expected) = outcome /\ ~outcome.lost
    BY <1>1, <1>2, <1>3, ViewIsGame DEF OutcomeIn, Fine
  <1>10. end # None /\ again # None
    BY <1>2, <1>6, KeptIsSome
  <1>11. Repeated(end, entry) = again
    <2>1. Repeated(end, entry) = Concluded(end, entry, outcome)
      BY <1>2, <1>5, <1>7, <1>9, <1>10 DEF Repeated
    <2>2. Concluded(end, entry, outcome) = Agreed(entry, again)
      BY <1>7, <1>9 DEF Concluded, again
    <2> QED BY <1>7, <1>8, <2>1, <2>2 DEF Agreed
  <1>12. after.log \in Log
    BY <1>6 DEF Kept, Session, Log
  <1>13. \A i \in 1 .. n : after.log.entries[i] = log.entries[i]
    BY <1>4, <1>7 DEF Log
  <1>14. Replay(after.log, s.actor) = Resumed(after.log, end, n + 1)
    BY <1>4, <1>7, <1>12, <1>13, LongerReplays DEF end
  <1>15. Resumed(after.log, end, n + 1) = again
    BY <1>4, <1>7, <1>11 DEF Resumed, entry
  <1>16. Context(again) = Context(after)
    BY <1>6 DEF Context
  <1>17. n + 1 <= MaxEntries
    BY <1>2, <1>4, SegmentAssumption
  <1>18. Verifies(after)
    BY <1>6, <1>7, <1>10, <1>14, <1>15, <1>16, <1>17 DEF Verifies
  <1> QED BY <1>18 DEF after

ReplayInv == RuntimeInv /\ ReplayVerifies

LEMMA ReplayStep == ReplayInv /\ [Next]_vars => ReplayInv'
  <1> SUFFICES ASSUME ReplayInv, [Next]_vars PROVE ReplayVerifies'
    BY RuntimeStep DEF ReplayInv
  <1>1. CASE UNCHANGED session
    BY <1>1 DEF ReplayInv, ReplayVerifies
  <1>2. ASSUME NEW opening \in Openings, OpenSession(opening) PROVE ReplayVerifies'
    <2>1. Verifies(Opened(opening.game, opening.actor, 0))
      <3>1. 0 \in 0 .. MaxOffset
        BY RequestAssumption
      <3> QED BY <1>2, <3>1, OpeningIsKept, OpenedVerifies
    <2> QED BY <1>1, <1>2, <2>1 DEF OpenSession, Install, ReplayVerifies
  <1>3. ASSUME NEW fits \in BOOLEAN, OpenSave(fits) PROVE ReplayVerifies'
    <2>1. document \in Saved /\ Keepable(document.game)
      BY <1>3 DEF ReplayInv, RuntimeInv, OpenSave
    <2>2. Verifies(Opened(document.game, document.actor, document.offset))
      BY <2>1, OpenedVerifies DEF Saved
    <2> QED BY <1>1, <1>3, <2>2 DEF OpenSave, Install, ReplayVerifies
  <1>4. CASE CloseSession
    BY <1>4 DEF CloseSession, Install, ReplayVerifies
  <1>5. CASE ExportSave \/ Snapshot \/ RefuseClosed \/ UNCHANGED vars
    BY <1>1, <1>5 DEF ExportSave, Snapshot, RefuseClosed, vars
  <1>6. ASSUME NEW expected, NEW question, Query(question, expected)
        PROVE  ReplayVerifies'
    BY <1>1, <1>6 DEF Query
  <1>7. ASSUME session # None, NEW expected \in Expected(session.game),
               NEW order \in Orders, Dispatch(order, expected)
        PROVE  ReplayVerifies'
    <2> DEFINE outcome == OutcomeIn(session, order, expected)
               next == Dispatched(session, order, expected, outcome)
    <2>1. CASE HasEventCapacity(session)
      <3>1. /\ outcome = Outcome(session.game, session.game, session.actor, order, expected)
            /\ ~outcome.lost
        BY <1>7, <2>1, ConcludedIsKept DEF ReplayInv
      <3>2. Kept(session) /\ Verifies(session) /\ order \in Order /\ expected \in Nat
        BY <1>7, RequestAssumption, ExpectedTyping DEF ReplayInv, RuntimeInv, ReplayVerifies
      <3> HIDE DEF outcome
      <3>3. Verifies(next)
        BY <2>1, <3>1, <3>2, DispatchedVerifies
      <3>4. session' = next
        BY <1>7, <2>1, <3>1 DEF Dispatch, Conclude, outcome
      <3> QED BY <3>3, <3>4 DEF ReplayVerifies
    <2>2. CASE ~HasEventCapacity(session)
      BY <1>1, <1>7, <2>2 DEF Dispatch
    <2> QED BY <2>1, <2>2
  <1> QED BY <1>2, <1>3, <1>4, <1>5, <1>6, <1>7 DEF Next

\* Whatever orders a session has been given, refused ones included, and
\* however often its segment was left for a new one, a fresh runtime that
\* repeats the segment gets every result again and ends where the session is.
THEOREM SegmentVerifies == Spec => []ReplayVerifies
  <1>1. Init => ReplayInv
    BY InitRuntime DEF ReplayInv, Init, ReplayVerifies
  <1>2. ReplayInv => ReplayVerifies
    BY DEF ReplayInv
  <1> QED BY <1>1, <1>2, ReplayStep, PTL DEF Spec

-----------------------------------------------------------------------------
(* The patch.                                                              *)

LEMMA PatchIsExact ==
  ASSUME NEW before, NEW after, NEW A, NEW B,
         before = [x \in A |-> before[x]], after = [x \in B |-> after[x]]
  PROVE  Patched(before, ViewPatch(before, after)) = after
  <1> DEFINE patch == ViewPatch(before, after)
             changed == {v \in B : v \in A => before[v] # after[v]}
  <1>1. DOMAIN before = A /\ DOMAIN after = B
    OBVIOUS
  <1>2. /\ patch.changed = [u \in changed |-> after[u]]
        /\ patch.removed = A \ B
    BY <1>1 DEF ViewPatch
  <1>3. DOMAIN patch.changed = changed
    BY <1>2
  <1>4. (DOMAIN before \ patch.removed) \cup DOMAIN patch.changed = B
    BY <1>1, <1>2, <1>3
  <1>5. Patched(before, patch)
          = [u \in B |-> IF u \in changed THEN patch.changed[u] ELSE before[u]]
    BY <1>3, <1>4 DEF Patched
  <1>6. \A u \in B : (IF u \in changed THEN patch.changed[u] ELSE before[u]) = after[u]
    BY <1>2
  <1> HIDE DEF patch, changed
  <1>7. [u \in B |-> IF u \in changed THEN patch.changed[u] ELSE before[u]]
          = [u \in B |-> after[u]]
    BY <1>6
  <1> QED BY <1>5, <1>7 DEF patch

LEMMA ShownPatch ==
  ASSUME NEW g, NEW h, NEW actor
  PROVE  Patched(Shown(g, actor), ViewPatch(Shown(g, actor), Shown(h, actor)))
            = Shown(h, actor)
  <1> DEFINE A == {v \in Units : \/ Owner[v] = actor
                                 \/ Visibility(g, actor, Position(g, v)) = "visible"}
             B == {v \in Units : \/ Owner[v] = actor
                                 \/ Visibility(h, actor, Position(h, v)) = "visible"}
  <1>1. Shown(g, actor) = [x \in A |-> Shown(g, actor)[x]]
    BY DEF Shown
  <1>2. Shown(h, actor) = [x \in B |-> Shown(h, actor)[x]]
    BY DEF Shown
  <1> HIDE DEF A, B
  <1> QED BY <1>1, <1>2, PatchIsExact

LEMMA PatchStep ==
  ASSUME RuntimeInv, Next, session # None, session' # None, reply'.kind = "result"
  PROVE  Patched(Shown(session.game, session.actor), reply'.patch)
            = Shown(session'.game, session'.actor)
  <1>1. ASSUME NEW expected \in Expected(session.game), NEW order \in Orders,
               Dispatch(order, expected)
        PROVE  Patched(Shown(session.game, session.actor), reply'.patch)
                  = Shown(session'.game, session'.actor)
    <2> DEFINE outcome == OutcomeIn(session, order, expected)
               next == Dispatched(session, order, expected, outcome)
    <2>1. HasEventCapacity(session)
      BY <1>1 DEF Dispatch, Error
    <2>2. ~outcome.lost /\ Context(next) = [game |-> outcome.game, actor |-> session.actor,
                 offset |-> session.offset + Events(outcome.evidence)]
      BY <2>1, ConcludedIsKept
    <2>3. next.game = outcome.game /\ next.actor = session.actor
      <3> HIDE DEF next, outcome
      <3>1. Context(next).game = next.game /\ Context(next).actor = next.actor
        BY DEF Context
      <3> QED BY <2>2, <3>1
    <2> HIDE DEF outcome
    <2>4. /\ session' = next
          /\ reply'.patch = ViewPatch(Shown(session.game, session.actor),
                                      Shown(outcome.game, session.actor))
      BY <1>1, <2>1, <2>2 DEF Dispatch, Conclude, outcome
    <2> QED BY <2>3, <2>4, ShownPatch
  <1>2. ASSUME NEW opening \in Openings, OpenSession(opening) PROVE FALSE
    BY <1>2 DEF OpenSession, Stamped, Error
  <1>3. ASSUME NEW fits \in BOOLEAN, OpenSave(fits) PROVE FALSE
    BY <1>3 DEF OpenSave, Stamped, Error
  <1>4. ASSUME NEW expected, NEW question, Query(question, expected) PROVE FALSE
    <2>1. \E answer : reply' = Answered(answer, session)
      BY <1>4, Zenon DEF Query, AnswerAnew
    <2> QED BY <2>1 DEF Answered
  <1>5. ~CloseSession /\ ~ExportSave /\ ~Snapshot /\ ~RefuseClosed
    BY DEF CloseSession, ExportSave, Snapshot, RefuseClosed, Closed, Error
  <1> QED BY <1>1, <1>2, <1>3, <1>4, <1>5 DEF Next

\* A client that applies the patches it is sent shows what a snapshot would.
THEOREM PatchSuffices == Spec => PatchCarriesView
  <1>1. RuntimeInv /\ [Next]_vars =>
          [session # None /\ session' # None /\ reply'.kind = "result" =>
             Patched(Shown(session.game, session.actor), reply'.patch)
             = Shown(session'.game, session'.actor)]_vars
    BY PatchStep
  <1> QED BY <1>1, RuntimeInvariant, PTL DEF Spec, PatchCarriesView

-----------------------------------------------------------------------------
(* The promise.                                                            *)

LEMMA InitPromised == Init => Promise!Init
  BY DEF Init, Promise!Init, Promise!Named, Promise!Closed, Named, Closed

LEMMA OpenSessionPromised ==
  ASSUME RuntimeInv, NEW opening \in Openings, OpenSession(opening)
  PROVE  Promise!OpenSession(opening)
  <1>1. CASE opening.fits
    <2>1. /\ session' = Opened(opening.game, opening.actor, 0)
          /\ session' # None
          /\ Context(session') = [game |-> opening.game, actor |-> opening.actor, offset |-> 0]
      BY <1>1, OpeningIsKept, KeptIsSome DEF OpenSession, Install
    <2> QED BY <1>1, <2>1 DEF OpenSession, Promise!OpenSession, Stamped, Promise!Stamped
  <1>2. CASE ~opening.fits
    BY <1>2 DEF OpenSession, Promise!OpenSession, Error, Promise!Error, Context
  <1> QED BY <1>1, <1>2

LEMMA OpenSavePromised ==
  ASSUME RuntimeInv, NEW fits \in BOOLEAN, OpenSave(fits)
  PROVE  Promise!OpenSave(fits)
  <1>1. document \in Saved /\ Keepable(document.game) /\ Decodable(document.game)
    BY KeepableIsDecodable DEF RuntimeInv, OpenSave
  <1>2. CASE fits
    <2>1. /\ Kept(Opened(document.game, document.actor, document.offset))
          /\ Context(Opened(document.game, document.actor, document.offset)) = document
      BY <1>1, OpenedIsKept DEF Saved
    <2>2. /\ session' = Opened(document.game, document.actor, document.offset)
          /\ session' # None /\ Context(session') = document
      BY <1>1, <1>2, <2>1, KeptIsSome DEF OpenSave, Install
    <2> QED BY <1>2, <2>2, <1>1 DEF OpenSave, Promise!OpenSave, Stamped, Promise!Stamped
  <1>3. CASE ~fits
    BY <1>3 DEF OpenSave, Promise!OpenSave, Error, Promise!Error, Context
  <1> QED BY <1>2, <1>3

LEMMA ClosePromised ==
  ASSUME CloseSession
  PROVE  Promise!CloseSession
  BY DEF CloseSession, Install, Promise!CloseSession, Closed, Promise!Closed,
         Named, Promise!Named

LEMMA LookingPromised ==
  ASSUME RuntimeInv
  PROVE  /\ ExportSave => Promise!ExportSave
         /\ Snapshot => Promise!Snapshot
         /\ RefuseClosed => Promise!RefuseClosed
  <1>1. session # None => Context(session) # None
    BY KeptIsSome DEF RuntimeInv
  <1>2. ExportSave => Promise!ExportSave
    BY <1>1 DEF ExportSave, Promise!ExportSave, Named, Promise!Named
  <1>3. Snapshot => Promise!Snapshot
    BY <1>1 DEF Snapshot, Promise!Snapshot, Named, Promise!Named, Context
  <1>4. RefuseClosed => Promise!RefuseClosed
    BY DEF RefuseClosed, Promise!RefuseClosed, Named, Promise!Named, Error, Promise!Error
  <1> QED BY <1>2, <1>3, <1>4

LEMMA QueryPromised ==
  ASSUME RuntimeInv, session # None, NEW expected \in Expected(session.game),
         NEW question \in Questions, Query(question, expected)
  PROVE  Promise!Query(question, expected)
  <1> DEFINE answer == Answer(session.game, session.actor, question, expected)
  <1>1. Kept(session) /\ Context(session) # None
    BY KeptIsSome DEF RuntimeInv
  <1>2. Answer(View(session), session.actor, question, expected) = answer
    BY <1>1, ViewIsGame
  <1>3. cache # None /\ cache.key = Key(session, question, expected) => cache.answer = answer
    <2>1. /\ Key(session, question, expected).game = session.game
          /\ Key(session, question, expected).question = question
          /\ Key(session, question, expected).expected = expected
      BY DEF Key
    <2> QED BY <2>1 DEF RuntimeInv, Fresh
  <1> HIDE DEF answer
  <1>4. reply' = Answered(answer, session)
    BY <1>2, <1>3 DEF Query, AnswerAnew
  <1>5. /\ request' = [kind |-> "query", of |-> <<question, expected>>]
        /\ UNCHANGED <<session, document>>
    BY DEF Query
  <1> QED BY <1>1, <1>4, <1>5 DEF Promise!Query, Answered, answer, Context

LEMMA SavesAreEqual ==
  ASSUME NEW s \in Saved, NEW t \in Saved,
         s.game = t.game, s.actor = t.actor, s.offset = t.offset
  PROVE  s = t
  BY DEF Saved

LEMMA DispatchPromised ==
  ASSUME RuntimeInv, session # None, NEW expected \in Expected(session.game),
         NEW order \in Orders, Dispatch(order, expected)
  PROVE  Promise!Dispatch(order, expected)
  <1> DEFINE outcome == OutcomeIn(session, order, expected)
             next == Dispatched(session, order, expected, outcome)
  <1>1. Kept(session) /\ Context(session) # None /\ session.offset \in Nat
    BY KeptIsSome DEF RuntimeInv, Kept, Session
  <1>2. HasEventCapacity(session) <=> Context(session).offset < MaxOffset
    BY <1>1, RequestAssumption DEF HasEventCapacity, Context
  <1>3. CASE HasEventCapacity(session)
    <2>1. /\ outcome = Outcome(session.game, session.game, session.actor, order, expected)
          /\ ~outcome.lost /\ Kept(next)
          /\ Context(next) = [game |-> outcome.game, actor |-> session.actor,
                             offset |-> session.offset + Events(outcome.evidence)]
      BY <1>3, ConcludedIsKept
    <2>2. next # None
      BY <2>1, KeptIsSome
    <2>3. /\ session' = next
          /\ reply' = [kind |-> "result", stamp |-> outcome.game,
                       refusal |-> outcome.refusal, evidence |-> outcome.evidence,
                       patch |-> ViewPatch(Shown(session.game, session.actor),
                                           Shown(outcome.game, session.actor))]
          /\ UNCHANGED document
          /\ request' = [kind |-> "dispatch", of |-> <<order, expected>>]
      BY <1>3, <2>1 DEF Dispatch, Conclude
    <2> HIDE DEF next, outcome
    <2>4. Promise!Carry(outcome)
      <3>1. Context(next) = [Context(session) EXCEPT !.game = outcome.game,
                                                    !.offset = @ + Events(outcome.evidence)]
        <4> DEFINE carried == [Context(session) EXCEPT
                                  !.game = outcome.game, !.offset = @ + Events(outcome.evidence)]
        <4>1. Context(session) \in Saved /\ Context(next) \in Saved
          BY <1>1, <2>1, KeptIsSome
        <4>2. /\ Context(session).actor = session.actor
              /\ Context(session).offset = session.offset
          BY DEF Context
        <4>3. /\ Context(next).game = outcome.game /\ Context(next).actor = session.actor
              /\ Context(next).offset = session.offset + Events(outcome.evidence)
          BY <2>1
        <4>4. /\ outcome.game \in Game
              /\ session.offset + Events(outcome.evidence) \in 0 .. MaxOffset
          BY <4>1, <4>3 DEF Saved
        <4>5. /\ carried \in Saved
              /\ carried.game = outcome.game /\ carried.actor = session.actor
              /\ carried.offset = session.offset + Events(outcome.evidence)
          BY <4>1, <4>2, <4>4 DEF Saved
        <4> HIDE DEF carried
        <4>6. Context(next) = carried
          BY <4>1, <4>3, <4>5, SavesAreEqual
        <4> QED BY <4>6 DEF carried
      <3>2. session' # None /\ Context(session') = Context(next)
        BY <2>2, <2>3
      <3>3. /\ reply'.kind = "result" /\ reply'.stamp = outcome.game
            /\ reply'.refusal = outcome.refusal /\ reply'.evidence = outcome.evidence
        BY <2>3
      <3> QED BY <3>1, <3>2, <3>3 DEF Promise!Carry
    <2>5. Outcome(Context(session).game, Context(session).game, Context(session).actor,
                  order, expected) = outcome
      BY <2>1 DEF Context
    <2> QED BY <1>1, <1>2, <1>3, <2>3, <2>4, <2>5 DEF Promise!Dispatch
  <1>4. CASE ~HasEventCapacity(session)
    BY <1>1, <1>2, <1>4 DEF Dispatch, Promise!Dispatch, Error, Promise!Error
  <1> QED BY <1>3, <1>4

LEMMA StepPromised == RuntimeInv /\ [Next]_vars => [Promise!Next]_Promise!promised
  <1> SUFFICES ASSUME RuntimeInv, [Next]_vars PROVE [Promise!Next]_Promise!promised
    OBVIOUS
  <1>0. session # None => Context(session) # None /\ Context(session).game = session.game
    BY KeptIsSome DEF RuntimeInv, Context
  <1>1. ASSUME NEW opening \in Openings, OpenSession(opening) PROVE Promise!Next
    BY <1>1, OpenSessionPromised DEF Promise!Next
  <1>2. ASSUME NEW fits \in BOOLEAN, OpenSave(fits) PROVE Promise!Next
    BY <1>2, OpenSavePromised DEF Promise!Next
  <1>3. CASE CloseSession
    BY <1>3, ClosePromised DEF Promise!Next
  <1>4. CASE ExportSave \/ Snapshot \/ RefuseClosed
    BY <1>4, LookingPromised DEF Promise!Next
  <1>5. ASSUME session # None, NEW expected \in Expected(session.game),
               NEW question \in Questions, Query(question, expected)
        PROVE  Promise!Next
    BY <1>0, <1>5, QueryPromised DEF Promise!Next
  <1>6. ASSUME session # None, NEW expected \in Expected(session.game),
               NEW order \in Orders, Dispatch(order, expected)
        PROVE  Promise!Next
    BY <1>0, <1>6, DispatchPromised DEF Promise!Next
  <1>7. CASE UNCHANGED vars
    BY <1>7 DEF vars, Promise!promised, Context
  <1> QED BY <1>1, <1>2, <1>3, <1>4, <1>5, <1>6, <1>7 DEF Next

\* The runtime implements GameSession: neither the query cache nor the
\* prepared visibility shows, no order loses the session, and every save
\* opens again as the session it was made of.
THEOREM SessionIsKept == Spec => KeepsPromise
  BY InitPromised, StepPromised, RuntimeInvariant, PTL DEF Spec, KeepsPromise, Promise!Spec
=============================================================================
