---------------------------- MODULE GameSession ----------------------------
(***************************************************************************)
(* What a local session promises its host: one game at a time, every       *)
(* answer computed from that game as it is now, every order applied to it, *)
(* a save that opens again as the same session, and no way of losing the   *)
(* game but to close it or to open another.  Module LocalRuntime, with its *)
(* caches and its replay log, is shown to keep this promise.               *)
(***************************************************************************)
EXTENDS Naturals

CONSTANTS
    Answer(_, _, _, _),       \* what the engine answers in a game, for an actor
    Outcome(_, _, _, _, _),   \* what the engine makes of a game on an order
    Shown(_, _),              \* what a game shows an actor
    Events(_),                \* how many events go with a command's evidence
    Expected(_),              \* the revisions a caller may name
    Openings, Questions, Orders, MaxOffset, None

VARIABLES
    live,        \* None, or the game, the actor and the event offset
    document,    \* None, or the save the host holds
    request,     \* the last request
    reply        \* what it was answered

promised == <<live, document, request, reply>>

\* A stamp's revision and digest are those of the game it identifies.
Stamped(game) == [kind |-> "stamp", stamp |-> game]
Error(code) == [kind |-> "error", code |-> code]
Closed == [kind |-> "closed"]
Named(kind) == [kind |-> kind, of |-> None]

Init ==
    /\ live = None /\ document = None
    /\ request = Named("closeSession") /\ reply = Closed

OpenSession(opening) ==
    /\ request' = [kind |-> "openSession", of |-> opening]
    /\ UNCHANGED document
    /\ IF opening.fits
       THEN /\ live' = [game |-> opening.game, actor |-> opening.actor, offset |-> 0]
            /\ reply' = Stamped(opening.game)
       ELSE reply' = Error("session_open_failed") /\ UNCHANGED live

CloseSession ==
    /\ request' = Named("closeSession")
    /\ live' = None /\ reply' = Closed /\ UNCHANGED document

ExportSave ==
    /\ request' = Named("exportSave")
    /\ live # None
    /\ document' = live
    /\ reply' = [kind |-> "saved"]
    /\ UNCHANGED live

\* Any save of this runtime opens again, on the content it was made with.
OpenSave(fits) ==
    /\ request' = [kind |-> "openSave", of |-> fits]
    /\ document # None
    /\ UNCHANGED document
    /\ IF fits THEN live' = document /\ reply' = Stamped(document.game)
       ELSE reply' = Error("save_open_failed") /\ UNCHANGED live

Snapshot ==
    /\ request' = Named("snapshot")
    /\ live # None
    /\ reply' = [kind |-> "snapshot", stamp |-> live.game, units |-> Shown(live.game, live.actor)]
    /\ UNCHANGED <<live, document>>

Query(question, expected) ==
    /\ request' = [kind |-> "query", of |-> <<question, expected>>]
    /\ live # None
    /\ reply' = [kind |-> "answer", stamp |-> live.game,
                 answer |-> Answer(live.game, live.actor, question, expected)]
    /\ UNCHANGED <<live, document>>

Carry(outcome) ==
    /\ live' = [live EXCEPT !.game = outcome.game, !.offset = @ + Events(outcome.evidence)]
    /\ reply' = [kind |-> "result", stamp |-> outcome.game,
                 refusal |-> outcome.refusal, evidence |-> outcome.evidence]

Dispatch(order, expected) ==
    /\ request' = [kind |-> "dispatch", of |-> <<order, expected>>]
    /\ live # None
    /\ UNCHANGED document
    /\ IF live.offset < MaxOffset
       THEN Carry(Outcome(live.game, live.game, live.actor, order, expected))
       ELSE reply' = Error("event_offset_overflow") /\ UNCHANGED live

RefuseClosed ==
    /\ request' \in {Named(kind) : kind \in {"snapshot", "exportSave", "query", "dispatch"}}
    /\ live = None
    /\ reply' = Error("session_not_open")
    /\ UNCHANGED <<live, document>>

Next ==
    \/ \E opening \in Openings : OpenSession(opening)
    \/ \E fits \in BOOLEAN : OpenSave(fits)
    \/ CloseSession \/ ExportSave \/ Snapshot \/ RefuseClosed
    \/ live # None /\ \E expected \in Expected(live.game) :
          \/ \E question \in Questions : Query(question, expected)
          \/ \E order \in Orders : Dispatch(order, expected)

Spec == Init /\ [][Next]_promised
=============================================================================
