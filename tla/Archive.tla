------------------------------ MODULE Archive ------------------------------
(***************************************************************************)
(* Games in files.  A host opens a local session from a scenario or from a *)
(* state, exports saves and replay segments, and opens a file against the  *)
(* map that it supplies.  Between an export and the next opening a file is *)
(* in nobody's hands: it may come back with up to MaxEdits changes, and    *)
(* the host may meanwhile have another version of the map.  Commands are   *)
(* LocalRuntime's subject; a session here stays in the state it opened in. *)
(***************************************************************************)
EXTENDS MapContent, StateDigest

CONSTANTS
    MapDocuments,       \* the map documents that the host has
    ScenarioDocuments,  \* the scenario documents that the host has
    Games,              \* canonical states that a host may resume from memory
    Actors,             \* the players that a host opens a session for
    Variants(_),        \* the files that one change turns a file into
    MaxEdits            \* bound: changes to one exported file

ASSUME HostAssumption ==
    /\ \A g \in Games : g \in State /\ ValidState(g)
    /\ \A a \in Actors : IsText(a) /\ IsIdentifier(a)
    /\ MaxEdits \in Nat

\* What an opening comes to: what differed or was refused, or "opened".
Verdicts ==
    {"codec", "version", "behavior", "map id", "map hash", "ruleset id", "ruleset hash",
     "state", "digest", "actor", "content", "opened"}

ASSUME VerdictAssumption == None \notin Verdicts

SaveVersion == 2        \* CURRENT_SAVE_GAME_VERSION, CURRENT_REPLAY_LOG_VERSION
BehaviorVersion == 2    \* ENGINE_BEHAVIOR_VERSION

VARIABLES
    session,    \* LocalRuntime.session
    file,       \* the file of the last export, as it is now
    edits,      \* the number of changes made to it
    saved,      \* history: that file and the session as they were exported
    verdict     \* what the last opening of the file came to

vars == <<session, file, edits, saved, verdict>>

-----------------------------------------------------------------------------
(* Sessions.                                                               *)

\* PreparedWorld::try_new accepts the state for this content.
Prepared(map, rules, state) ==
    map.cols = state.cols /\ map.rows = state.rows /\ rules.policy = state.policy

Start(map, rules, state, actor, rng, offset) ==
    [map |-> map, rules |-> rules, state |-> state, actor |-> actor, rng |-> rng,
     offset |-> offset]

Zero == [seed |-> 0, stream |-> 0, counter |-> 0]

-----------------------------------------------------------------------------
(* Export.                                                                 *)

Header(s) ==
    [schemaVersion |-> SaveVersion, behaviorVersion |-> BehaviorVersion,
     mapId |-> s.map.mapId, mapHash |-> MapHash(s.map),
     rulesetId |-> s.rules.rulesetId, rulesetHash |-> RulesetHash(s.rules),
     actorPlayerId |-> s.actor]

SaveOf(s) ==
    Merge(Header(s),
          [rngState |-> s.rng, eventOffset |-> s.offset,
           stateDigest |-> Digest(s.state), state |-> EncodeState(s.state)])

\* The recorder starts at the state in which the session was opened.
ReplayOf(s) ==
    Merge(Header(s),
          [initialRngState |-> s.rng, initialEventOffset |-> s.offset,
           initialStateDigest |-> Digest(s.state), initialState |-> EncodeState(s.state),
           entries |-> <<>>])

-----------------------------------------------------------------------------
(* Opening.  A replay is verified by opening it in a runtime of its own.   *)

HeaderFields ==
    {"schemaVersion", "behaviorVersion", "mapId", "mapHash", "rulesetId", "rulesetHash",
     "actorPlayerId"}
IsRng(w) ==
    /\ Fields(w, {"seed", "stream", "counter"}, {})
    /\ {w.seed, w.stream, w.counter} \subseteq LongNumbers
IsHeader(w) ==
    /\ {w.schemaVersion, w.behaviorVersion} \subseteq ShortNumbers
    /\ IsText(w.mapId) /\ IsText(w.rulesetId) /\ IsText(w.actorPlayerId)
IsSave(w) ==
    /\ Fields(w, HeaderFields \cup {"rngState", "eventOffset", "stateDigest", "state"}, {})
    /\ IsHeader(w) /\ IsRng(w.rngState) /\ w.eventOffset \in LongNumbers
    /\ IsStateDocument(w.state)
IsReplay(w) ==
    /\ Fields(w, HeaderFields \cup {"initialRngState", "initialEventOffset",
                                    "initialStateDigest", "initialState", "entries"}, {})
    /\ IsHeader(w) /\ IsRng(w.initialRngState) /\ w.initialEventOffset \in LongNumbers
    /\ IsStateDocument(w.initialState)

\* validate_identity: the first thing that differs, None when all agree.
Mismatch(w, map, rules) ==
    CASE w.schemaVersion # SaveVersion        -> "version"
      [] w.behaviorVersion # BehaviorVersion  -> "behavior"
      [] w.mapId # map.mapId                  -> "map id"
      [] w.mapHash # MapHash(map)             -> "map hash"
      [] w.rulesetId # rules.rulesetId        -> "ruleset id"
      [] w.rulesetHash # RulesetHash(rules)   -> "ruleset hash"
      [] OTHER -> None

\* Fault: the digest of the state is not compared.
Restore_Undigested(w, document, digest, map, rules) ==
    IF Mismatch(w, map, rules) # None THEN Mismatch(w, map, rules)
    ELSE IF ~ Decodable(document) THEN "state"
    ELSE IF ~ IsIdentifier(w.actorPlayerId) THEN "actor"
    ELSE IF ~ Prepared(map, rules, DecodeState(document)) THEN "content"
    ELSE "opened"

\* What becomes of a well-formed file whose state document and digest these are.
Restore(w, document, digest, map, rules) ==
    IF Mismatch(w, map, rules) # None THEN Mismatch(w, map, rules)
    ELSE IF ~ Decodable(document) THEN "state"
    ELSE IF Digest(DecodeState(document)) # digest THEN "digest"
    ELSE IF ~ IsIdentifier(w.actorPlayerId) THEN "actor"
    ELSE IF ~ Prepared(map, rules, DecodeState(document)) THEN "content"
    ELSE "opened"

SaveVerdict(w, map, rules) ==
    IF IsSave(w) THEN Restore(w, w.state, w.stateDigest, map, rules) ELSE "codec"
ReplayVerdict(w, map, rules) ==
    IF IsReplay(w) THEN Restore(w, w.initialState, w.initialStateDigest, map, rules)
    ELSE "codec"

-----------------------------------------------------------------------------
Init ==
    /\ session = None /\ file = None /\ edits = 0 /\ saved = None /\ verdict = None

\* Open a session for an actor: of a scenario's first state, or of a state.
\* Bound: before the export.
OpenScenario ==
    \E w \in MapDocuments, s \in ScenarioDocuments, actor \in Actors :
        /\ file = None
        /\ IsMapDocument(w) /\ IsScenario(s, MapOf(w), StandardRules)
        /\ LET map == MapOf(w)
               scenario == ScenarioOf(s, map, StandardRules)
           IN  /\ Bootstraps(scenario, map, StandardRules)
               /\ session' = Start(map, StandardRules, Bootstrap(scenario, map, StandardRules),
                                   actor, Zero, 0)
        /\ verdict' = None
        /\ UNCHANGED <<file, edits, saved>>

OpenState ==
    \E w \in MapDocuments, game \in Games, actor \in Actors :
        /\ file = None
        /\ IsMapDocument(w) /\ Prepared(MapOf(w), StandardRules, game)
        /\ session' = Start(MapOf(w), StandardRules, game, actor, Zero, 0)
        /\ verdict' = None
        /\ UNCHANGED <<file, edits, saved>>

\* Bound: one export in a behaviour.
Export(document) ==
    /\ session # None /\ file = None
    /\ file' = document /\ edits' = 0
    /\ saved' = [session |-> session, file |-> document]
    /\ verdict' = None
    /\ UNCHANGED session

ExportSave == Export(SaveOf(session))
ExportReplay == Export(ReplayOf(session))

\* The file comes back changed.
Alter ==
    /\ file # None /\ edits < MaxEdits /\ verdict = None
    /\ file' \in Variants(file) /\ edits' = edits + 1
    /\ UNCHANGED <<session, saved, verdict>>

\* open_save_json, against a map of the host: the session is replaced only
\* by one that could be restored.
OpenSave ==
    \E w \in MapDocuments :
        /\ file # None /\ verdict = None /\ IsMapDocument(w)
        /\ verdict' = SaveVerdict(file, MapOf(w), StandardRules)
        /\ session' =
              IF verdict' # "opened" THEN session
              ELSE Start(MapOf(w), StandardRules, DecodeState(file.state),
                         file.actorPlayerId, file.rngState, file.eventOffset)
        /\ UNCHANGED <<file, edits, saved>>

\* verify_replay_json of a segment without commands; the session is not used.
VerifyReplay ==
    \E w \in MapDocuments :
        /\ file # None /\ verdict = None /\ IsMapDocument(w)
        /\ verdict' = ReplayVerdict(file, MapOf(w), StandardRules)
        /\ UNCHANGED <<session, file, edits, saved>>

Next ==
    \/ OpenScenario \/ OpenState \/ ExportSave \/ ExportReplay
    \/ Alter \/ OpenSave \/ VerifyReplay

Spec == Init /\ [][Next]_vars

-----------------------------------------------------------------------------
(* Properties.                                                             *)

Document(w) == IF "state" \in DOMAIN w THEN w.state ELSE w.initialState
DigestOf(w) == IF "state" \in DOMAIN w THEN w.stateDigest ELSE w.initialStateDigest

\* Every session is of a valid state and of a map with one tile for every
\* coordinate, at the place where HexGridBounds::index_of looks for it.
TypeOK ==
    session # None =>
        /\ session.state \in State /\ ValidState(session.state)
        /\ Prepared(session.map, session.rules, session.state)
        /\ IsIdentifier(session.actor)
        /\ Each(Cell, session.map.tiles) =
              [i \in 1 .. session.map.cols * session.map.rows |->
                  <<(i - 1) % session.map.cols, (i - 1) \div session.map.cols>>]

\* What a map document says, in whatever order it says it.
Described(w) ==
    [name |-> w.mapName, cols |-> w.cols, rows |-> w.rows, objectives |-> ToSet(w.objectives),
     tiles |-> {<<Cell(t), t.terrains, ToSet(t.resources), t.height>> : t \in ToSet(w.tiles)}]

\* Export and opening fit together (export_save_json, open_save_json, the
\* replay header and the content hash): a file that nobody touched holds the
\* very state of the session.  It opens against exactly those map documents
\* that describe the session's map, however they order and frame it, provided
\* that the state is within the limits of a document, which an export does not
\* ask.
ExportsOpen ==
    file # None /\ edits = 0 /\ verdict = None =>
        LET s == saved.session
        IN  /\ DecodeState(Document(file)) = s.state
            /\ \A w \in MapDocuments : IsMapDocument(w) =>
                  ("opened" \in {SaveVerdict(file, MapOf(w), s.rules),
                                 ReplayVerdict(file, MapOf(w), s.rules)}
                      <=> /\ WithinLimits(EncodeState(s.state))
                          /\ Described(w) = Described(Merge([mapName |-> s.map.mapId], s.map)))

\* The state digest names the game: a changed file whose state still decodes
\* has the digest it was exported with exactly when it is the same game, in
\* whatever order its entities, fog, contacts and roads are listed.
DigestNamesState ==
    file # None /\ verdict = None /\ Decodable(Document(file)) =>
        (Digest(DecodeState(Document(file))) = DigestOf(saved.file)
            <=> SameGame(DecodeState(Document(file)), saved.session.state))

\* A file that opens under the digest it was exported with brings back the
\* saved game, on a map that differs from the saved one in nothing.
OpensWhatWasSaved ==
    verdict = "opened" /\ DigestOf(file) = DigestOf(saved.file)
    /\ file.mapHash = saved.file.mapHash =>
        /\ SameGame(DecodeState(Document(file)), saved.session.state)
        /\ "state" \in DOMAIN file => session.map = saved.session.map

\* A scenario that loads against a map (ScenarioDefinition::from_json) opens a
\* session on it, but for a name that is longer than a unit may have: the
\* scenario's own checks leave nothing else to bootstrap's.
ScenariosOpen ==
    session = None /\ file = None =>
        \A w \in MapDocuments, s \in ScenarioDocuments :
            IsMapDocument(w) /\ IsScenario(s, MapOf(w), StandardRules) =>
                (Bootstraps(ScenarioOf(s, MapOf(w), StandardRules), MapOf(w), StandardRules)
                    <=> \A i \in DOMAIN s.initialUnits :
                            Len(s.initialUnits[i].name) <= MaxNameBytes)
=============================================================================
