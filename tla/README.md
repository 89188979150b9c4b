# A verification of Age of New Worlds

Age of New Worlds is a turn-based strategy game on a hexagonal map. This directory holds TLA+
models of the four parts of it in which mistakes are hardest to find by testing:

- the authoritative Rust engine with the local runtime around it;
- saved games and content: the documents that states, maps and scenarios are read from and written
  to, and the digests that identify them;
- the live match: the server's streams and jobs together with the client that sends commands over
  them;
- the presence of the players of a match: lobbies, leases, the sweeps that take leases, and the
  clocks that end turns and matches.

TLC checks the models on small instances; TLAPS proves the most important results for all values of
the constants.

## 1. The system and its parts

| part | state | operations | in the model |
| --- | --- | --- | --- |
| Rust domain (`engine/crates/aonw_domain`) | the canonical game: units, artifacts, pending interaction, founding draft, fog, contacts, cities, roads | constructor with validation, pure updates | `HexGrid`, `GameState` |
| movement planning (`aonw_engine/src/movement`) | while it plans: records, best scores, a heap | route plan, reachable overlay | `Terrain`, `Movement`, `Commands`, `RouteSearch` |
| command application (`aonw_engine/src/application`, `unit_action.rs`, `movement/transition.rs`) | the game it is given | move, cancel, skip, fortify | `Commands`, `GameEngine` |
| local runtime (`aonw_local_runtime`) | one session, query cache, replay segment, save document | open, close, snapshot, query, dispatch, save, reopen | `Requests`, `LocalRuntime`, `GameSession` |
| documents (`aonw_contracts`, `aonw_contract_mapping`) | none | strict decoding with limits, encoding, both directions of the mapping | `Bytes`, `StateDocument`, `StateMapping` |
| the whole canonical state and its digest (`aonw_domain`, `aonw_engine/src/state_digest.rs`) | every field of the state | the constructors' validation, the digest | `CanonicalState`, `StateDigest` |
| content (`aonw_content`) | map, ruleset, scenario | strict loading, canonical identity of map and ruleset, scenario checks, bootstrap | `MapContent`, `Archive` |
| match server (`server/lib/src/multiplayer`), commands | event log, streams, job queue, presence leases | commands, connecting, disconnecting, presence, sweeps, restart | `MatchHub` |
| match server, lobbies and presence | phase, members, connection states, leases, turn and activity clocks | create, join, leave, resign, start, countdown; connecting, renewing, losing and taking leases; turn timeout, abandonment | `MatchRecord`, `MatchPresence` |
| connection registries (one per server process) | streams, active generations | connect, message, close, queued disconnection | `ConnectionRegistry` |
| scheduling (`server/lib/src/scheduling`, the turn timeout future call) | one database entry, a sweep in hand per server | reconcile, claim, schedule a successor | `SweepSchedule` |
| live client (`lib/api/transport`, `lib/game/presentation/providers/game`) | screen offset, pending command, retry, echo guard, snapshot queue | send, handle a message, load, apply, publish, reconnect | `LiveClient` |
| streams between them | messages under way | | `MatchChannels`, `MatchStream` |

How they interact. A client host (Flutter or Godot) calls the local runtime with requests; the
runtime takes the game out of its session, hands it to the engine, and puts back what it gets. The
engine plans from what the player knows and resolves hidden occupancy only when a move is applied.
In a multiplayer match a client sends wire commands on a stream; the server's connection registry
runs one job at a time per match, each job first commits a database transaction and then delivers
an answer to its caller and an event with a snapshot to everybody else. Scheduled sweeps (turn
timeout, lease expiry) lock the same row but do not pass through the queue. A lease says until when
a player counts as present; its generation says which stream it was given to. Every message renews
it; the disconnection of a player's last stream at a server and the sweep take it, each in a
transaction that first looks whether it is still the lease it means. The sweep is driven by one
database entry that all servers share. The client recognises
the echo of its own commands, loads a snapshot where an event brings none, and applies snapshots to
the screen through a queue of its own.

What is hard there, and what must hold:

- One pending-interaction slot serves all units and players, and the engine consumes the old state
  before the new one is validated: **no accepted command may end in an error** (`NoFault`).
- Plans are made from incomplete knowledge: **a plan can be executed**, it **walks over free tiles
  only**, and **asking tells nothing about what is hidden** (`PlansExecute`, `WalksFreeTiles`,
  `QueriesBlindToHidden`). Two different searches must agree (`OverlayMatchesPlan`).
- A plan is found over a heap in which records are overtaken by better ones, with one score kept for
  a tile and the movement left there: **what comes off is still the best route, or the refusal that
  is due** (`AnswersArePlans`), **no node is expanded twice** (`SettledStays`), **and every plan is
  answered** (`PlansAreAnswered`).
- Fog and contacts are recomputed for the mover only: **nobody's view may be out of date**
  (`FogIsCurrent`, `ContactsComplete`, `KnowledgeGrows`).
- Movement is spent, held by a skip, granted by waking up: **it comes from nowhere else**, and
  **a stopped move costs nothing** (`MovementIsConserved`, `StoppedMoveOnlyWakes`).
- The runtime caches, prepares and records: **none of it shows** (`KeepsPromise`), **its replay
  verifies at any time** (`ReplayVerifies`), **its patches suffice** (`PatchCarriesView`).
- Commands are repeated, answers late, streams doubled, sweeps overtake jobs, the server restarts:
  **a command is applied once**, **its answer is its own**, **the screen shows the match in the
  end** and does not go back (`AppliedOnce`, `AnswersAreTrue`, `EchoesAreOwn`,
  `NoEventIsMissed`, `EventsBringTheirState`, `PresenceFollowsStreams`, `QuietIsCurrent`,
  `OffsetsAreMonotonic`, `Recovers`).
- A lease lies in a table of its own, written by many services beside the match; a stream
  outlives its lease and a queued disconnection its stream: **leases and membership agree**, and
  **nobody who is there is taken for gone** (`LeasesFollowMembership`, `TakenOnlyWhenLost`).
- Turn clock and activity clock are stored times that go on when nobody looks: **no turn ends and
  no match is abandoned for want of players before its time** (`TurnsAreAttended`,
  `AbandonedOnlyIdle`).
- The entry of a sweep is removed before the sweep runs, and every part of it may fail: **a lapsed
  lease is noticed in the end** (`LapsedIsSwept`).
- A save is a state, a digest of it and the identities of map and ruleset, each with a canonical
  form of its own: **what is exported opens, against the same map however it is written**, **equal
  digests mean equal games**, **nothing else opens in its place** (`ExportsOpen`,
  `DigestNamesState`, `OpensWhatWasSaved`). Scenarios are checked twice, by different code:
  **what loads also starts** (`ScenariosOpen`).

`PROJECT.json` lists every component, and every hazard at the line where it bites with the
properties that would catch it.

## 2. The modules

Engine and runtime (each extends the one before):

    HexGrid, Terrain -> Movement -> GameState -> Commands -> GameEngine -> GameProperties
                                                        |             `-> TurnLedger -.
                                                        |-> RouteSearch ------------> PlannedTurn
                                                        `-> Requests -> LocalRuntime -> RuntimeProperties
                                                                     `-> GameSession <-- refined by it

Saved games and content:

    Bytes -> CanonicalState -> StateDocument -> StateMapping -> StateDigest -> Archive
                                            `-> MapContent -------------------^

Live match:

    MatchChannels -> MatchHub, LiveClient -> MatchStream -> StreamProperties

Presence:

    MatchRecord -> ConnectionRegistry -> MatchPresence -> PresenceProperties
             `-> SweepSchedule, instantiated by ^

- `HexGrid`: offset coordinates, the six neighbours of even and odd columns, distance.
- `Terrain`: what a tile costs to enter, how far it lets one see.
- `Movement`: what a unit knows of a tile and what a step costs it; the best routes to a target
  (turns, then cost, then distance), the tiles this turn's movement reaches, the overlay. Any
  route of least score may be returned here, and whatever is said of plans is said of all of them.
- `GameState`: the aggregate (`Game`), what its constructor demands (`ValidGame`: occupancy,
  artifacts, queued paths, pending interaction) and its pure updates.
- `Commands`: the refusals in the order of the code, `Plan`, the moved unit, `AfterMove`,
  `AfterCancel`, `AfterSkip`, `AfterFortification` with fog and contacts.
- `GameEngine`: `GameEngine::apply_owned` as a state machine. One action per command, plus the
  refused command. Variables: `game`; `executed`, the evidence the last accepted command returned;
  `fault`, set when the constructor refuses an update (`CanonicalEngineError::State`).
- `TurnLedger`: `GameEngine` with history variables that keep accounts of a unit's movement over
  the commands of one turn. The engine has no command that ends a turn, so a behaviour is a turn.
- `RouteSearch`: how the planner comes to such a route, `plan_terrain_route` and `route_search.rs`
  step by step. Variables: `stage` (which of the two searches runs: within the allowance, or the
  one that tells whether the allowance is to blame), `asked`, `records`, `best` (the record of each
  node's best score), `frontier` (the heap), `current` and `direction` (which neighbour of which
  record is looked at), `answer`. Actions: `Ask`, `Drop` (an overtaken record comes off the heap),
  `Expand`, `Examine` (one neighbour), `Arrive`, `Exhaust`, `HandOver`. The heap is a set of which
  the top is taken, by the order of `FrontierNode::cmp` (`Rank`). Which of several routes of the
  same score is found is left to that order and not said in `AnswersArePlans`.
- `PlannedTurn`: `TurnLedger` with the planner: commands, or a plan that is looked for while the game,
  which the planner has borrowed, stands still.
- `Requests`: the requests of the client protocol, the engine's outcome of an order, what a player
  is shown, and the patch between two views.
- `LocalRuntime`: `session` (game, actor, event offset, prepared visibility, replay segment),
  `cache`, `document`. One action per request.
- `GameSession`: the abstract specification: a live game, a saved one and truthful answers; no
  cache, no prepared visibility, no replay. `RuntimeProperties!Promise` instantiates it with the
  refinement mapping `live <- Context(session)` and replies without their patches.
- `Bytes`: texts as sequences of bytes with their order and limits, and sorting, because canonical
  forms are about order.
- `CanonicalState`: the whole state with the types of its parts (`State`; numbers have the widths
  of the code), what the constructors refuse (`ValidState`), and when two states are the same game
  (`SameGame`).
- `StateDocument`: the strict shape of a state document: fields that must and may be there,
  tagged unions, ranges of numbers.
- `StateMapping`: what `decode_game_state` refuses (`Decodable`), what it makes of a document, and
  what a state is written as.
- `StateDigest`: what is hashed, in which order. SHA-256 is represented by the value it hashes.
- `MapContent`: the map document, the map compiled from it and its canonical identity; the
  ruleset's identity; scenarios and what they start as.
- `Archive`: a host's sessions and one exported file. Actions: `OpenScenario`, `OpenState`,
  `ExportSave`, `ExportReplay`, `Alter` (a change to the file while it is away), `OpenSave`,
  `VerifyReplay`.
- `MatchChannels`: the streams and their messages. A state of the match is the number of its
  events, because the server stores a snapshot with every event; a tick stands for tick and client
  message id, which are drawn and kept together.
- `MatchHub`: `log`, `streams` (queued, connected, listed, subscribed, left, closed), `job` and
  `swept` (what has been committed and is yet to be delivered), `leased`.
- `LiveClient`: `offset` (the screen), `order`, `retry`, `nextTick`, `echo`, `inbox`, `loading`.
- `MatchStream`: both together with `Reconnect`; `Spec` and `FairSpec`.
- `MatchRecord`: what is stored of a match apart from its game, and one operator per service
  transaction from record to record (a set of records where the game's rules or a random choice
  decide). Deadlines are ticks that are left, starting times are ticks that have passed.
- `ConnectionRegistry`: streams, and per server and user the active generation: `Connect`, `Close`,
  `ParticipantDisconnected`, `Message`, `MessageRejected`, `RegistryLost`.
- `SweepSchedule`: `Reconcile`, `Claim`, and the sweep: `BeginSweep` schedules a stand-in and lists
  the lapsed leases, `Expire` takes one, `EndSweep` looks at the turn and schedules the next sweep;
  and every part of it failing.
- `MatchPresence`: players' calls, streams and sweeps of several servers, crashes and the clock on
  one record; `Spec` and `Fairness`.
- `PresenceProperties`: two history variables, `attended` and `quiet`, which measure from outside
  what the record's clocks claim; `HistorySpec` is `Spec` with them and `Fairness`.
- `IslandWorld`: a small world; `MC*`: the modules TLC is run on, `MCEngineStrip` with a second world.
- `CommandProofs` (facts about the recursive functions of `Movement` and about single commands),
  `GameEngineProofs`, `RouteSearchProofs` and `RuntimeProofs` (theorems of the engine with a turn's
  ledger, of its planner, and of the runtime), `DigestProofs` (what a digest tells apart),
  `ArchiveProofs`, `StreamProofs`, `PresenceProofs`.

Operators whose comment starts with "Fault:" are mutated forms of the definition that follows
them. No specification uses them; they serve to show that a property can fail.

How steps correspond to code. An engine action is a whole command, from the revision check to the
constructor of the new aggregate. A runtime action is a whole request, with clearing the cache and
recording the replay entry. A search is taken apart further, into one step for each record that
comes off its heap and for each neighbour. On the server a job is two steps because the code releases the row
before it delivers: `HandleInput` (renewal of the lease, lookup of the message id, reducing,
storing) and `Deliver`; a connecting stream is three, `Connect`, `ListEvents` and `Subscribe`, one
per `await` between which something else can run. `Disconnect` releases the stream, and
`ParticipantDisconnected` is the job the last one queues. On the client, `HandleMessage` is one
message off the stream, `Load` the end of a request for a snapshot, `Apply` one turn of the
snapshot queue, `Publish` the moment a command's result reaches the screen. In `MatchPresence` a
service call is one step because it is one transaction on the locked row, and so is a job of the
registry: what is delivered between a job's transactions is the subject of `MatchHub`. Only the two
ends of a sweep put two transactions in one step, since neither reads what the other writes; a
fault may take either of them alone.

## 3. The runs

Passing:

| run | question | size |
| --- | --- | --- |
| `engine_island` | types, no fault, fog current, free tiles, knowledge kept, movement from nowhere but a turn's grants, stopped moves free of charge: the commands of two players in all orders; before and after the first of them, any plan: the search over the heap answers what `Plan` says, settled records stay, and every plan is answered | 3 x 2 island, 3 units, 3 accepted commands |
| `engine_strip` | no fault and complete contacts with stacking, a boat, a trader, an undefined unit, overdrawn movement; in every reachable game plans execute, overlay and planner agree, and queries are blind to what is hidden | 6 x 1 strip, 4 units, 4 accepted commands |
| `runtime` | types, replay, patches, and the refinement of `GameSession` | segments of 2 entries, offsets to 2 |
| `archive` | what is exported opens and brings back the game, digests name states, other files are refused or say the same, scenarios that load start | 5 x 5 map in several versions, 6 games of up to 3 units, one of them beyond the limits of a document, any one change to a file |
| `stream` | types, commands applied once, events never shown with an older state, with every operation there is | 1 stream at a time, 2 events, 1 command |
| `delivery` | commands applied once, answers true, echoes one's own, no event missed between backlog and subscription, presence follows streams | 2 streams, 2 events, 2 commands, no sweeps |
| `recovery` | the screen never goes back and, when nothing is under way, shows the match; under fairness the client comes to show it and goes on showing it | 2 streams, 3 events, 1 command, no sweeps, no lag |
| `presence` | leases follow membership, nobody attached is taken, turns are attended, only idle matches are abandoned, lapsed leases are swept | 2 players, 3 streams, up to 2 servers, up to 1 fault |

`engine_island` runs `PlannedTurn`, whose commands are those of `GameEngine` with the revision the
caller last saw; `engine_strip` runs `GameEngine` itself, stale revisions included.

Where the code does not do what a doc or a comment of the repository says, a run shows it
(each is in `PROJECT.json` under `findings`, with the lines):

| run | what it shows |
| --- | --- |
| `skip_reversal` | a second skip overwrites the one slot: the first unit's movement is not given back |
| `refusal` | refusals are not stored: a command reported as refused is in the match after its retry |
| `monotonic` | a result is published over a newer snapshot: the offset on the screen goes back |
| `rights` | a lease that a sweep expires under an open stream: the next message ends the player's subscription for good |

Further behaviours of the code that the models have and a reader should know of. They are why some
properties are checked with `Sweeping` or `Lagging` off, or with `Started` above 0:

- A move stopped by hidden occupancy, "an accepted no-op" by `engine/README.md`, costs nothing but
  wakes a fortified unit (`transition.rs:221`), whose stored movement is 0 and which so loses the
  allowance it planned with. `StoppedMoveOnlyWakes` says what does hold.
- A fortified unit plans with its full allowance whatever it has spent (`reachable.rs:179`): move,
  fortify, move pays more than one allowance in a turn. `MovementIsConserved` counts waking up as a
  grant.
- A sweep's event has its offset as its tick (`match_command_service_event.dart:79`), so the echo
  guard may take the event of a timed-out turn for an echo and drop it. `EchoesAreOwn` holds
  without sweeps only.
- A sweep does not wait in the match's queue: what it stores and broadcasts between the reading
  of the backlog (`match_connection_registry_connect.dart:77`) and the subscription reaches the
  new stream neither way, until a later message brings a newer snapshot. `NoEventIsMissed` and
  `QuietIsCurrent` hold without sweeps only.
- `decode_game_state` limits what a document may hold (`aonw_contracts/src/limits.rs:2`: units,
  queued steps, a balance of 14 half points); `GameState` and `export_save_json` do not. A session
  resumed from a state in memory beyond them exports files that nothing opens. `ExportsOpen` says
  so, and `ScenariosCanBeSaved` that no scenario starts there.
- A sweep that delivers between the commit and the delivery of a job puts its event before the
  job's answer.
- A snapshot of a match without events, still queued when the first result is published, puts the
  screen back to offset 0 (`game_state_provider_multiplayer_sync.dart:272`).
- A command whose caller has given up and that the server executes later comes back as an event
  the echo guard drops, even after another command of the client has been answered: the screen
  then lacks an event of the client's own until the command is repeated or the next event comes.
  `QuietIsCurrent` and `Recovers` therefore except the events of the client's own commands.
- A lease that has run out and that no sweep has taken yet is renewed like any other
  (`multiplayer_match_store_presence.dart:103`). If everybody else is offline, its player is
  present again without the turn's clock being started anew, as it is for who connects to a
  deserted match (`docs/multiplayer-protocol.md:115`). `TurnsAreAttended` therefore counts from the
  last moment at which nobody held a lease.
- A player who has resigned, connects again and resigns once more loses the lease but stays
  "connected" (`match_lifecycle_service_resignation.dart:17`), and no sweep marks the player
  offline. `LeasesFollowMembership` excepts those who have resigned.
- A player with streams on two servers goes offline when the one of the newer generation closes,
  since a registry knows its own server's streams only; `docs/multiplayer-protocol.md:102`,
  "Closing one of several streams for the same user does not change presence", holds of one
  server. The other stream's next message is refused. `TakenOnlyWhenLost` speaks of the stream whose generation is
  the lease's.
- The state digest covers neither the actor nor the random generator's position nor the event
  offset. A save in which one of them was changed opens.
- An army's troops and the hexes of a founding or a draft keep the order they are given in, and are
  hashed in it, although `entity.rs:136` and `activity.rs:85` speak of a canonical order. Two
  documents that differ in that order alone are different games for the digest, and `SameGame`
  treats them so. In the same way the order of a tile's features is part of the map's identity.
- A scenario may give a unit a name of more than 256 bytes, which its own checks accept and
  the unit's constructor refuses: `ScenariosOpen` names this one exception.

Bounds and why they are enough.

- `MaxRevision` bounds accepted commands. Every pair of commands of two units that share the
  pending slot, with a cancel and a move after it, takes four, as on the strip; on the island, where
  plans are looked for step by step in between, it is three, enough for a skip, another and a cancel,
  and its games include some in the middle of a turn. A unit's walk into hidden occupancy
  and everything after it fits too. Refused commands are not bounded. `MaxAsked` 1 bounds the
  revision at which plans are asked for: with the three first games and all that one command makes
  of them, every answer occurs that a search may have, routes around and next to blockers, of one
  turn and several, the lack of allowance and the lack of a way, and records are overtaken on the
  heap. Six tiles make up to a score of records.
- The worlds are small but hold what the rules distinguish: every movement domain, features, a river,
  roads of both owners, sight that ends in woods and on a ridge, hidden and remembered tiles, a
  foreign city, artifacts on the map, carried and under excavation, fortified, busy, trading and
  undefined units, players with and without fog. Starting games include games in the middle of a
  turn. `MovementLimit` is 14 as in the code; `MaxCost` (100, and 300 on the island) and `MaxSteps`
  stand for the ranges of `u32` and `u16`, and hold the score of any shortest way on the map as those
  do (`CounterAssumption`).
- `MaxEntries` 2 and `MaxOffset` 2 let a segment fill up and be left, and the offset reach its
  limit, within a session of three accepted commands and any number of refused ones. `Runtime.cfg`
  uses the view `State`, because no step looks at the last request and reply; action properties
  are still checked on every transition that is generated.
- Streams: a lost answer, a retry, and an event of somebody else need two events; going back over a
  gap needs three. One tick more than the commands under way shows late answers. `MaxQueue` 1
  stops a sender until the queue is empty, and the orders it excludes differ only in how long
  messages wait. Streams are interchangeable (`SYMMETRY`), except in the liveness run. There is
  one kind of command, and what the rules do with it is a choice; in `recovery`
  commands are not refused. A fresh and an old stream suffice, because the server treats all
  streams but the newest in the same way.
- `Sweeping`, `Lagging` and `Started` say whether sweeps run, whether messages may be handled
  before a result is published, and how many events the match has when it is opened.

- Documents: `MCArchive` holds map documents in two framings and with single differences
  (terrain, order of features, size, duplicates), scenarios with each kind of mistake, and games
  that between them fill every optional part of a state. `MCVariants` is what one change makes of a
  file: each field of the header, and in the state reorderings, removals, other values and repeated
  entries. A refusal looks at one place, so one change (`MaxEdits` 1) reaches each of them; limits
  on lengths are the code's where content is concerned and small (`MaxUnits`, `MaxSteps`) elsewhere.
- Presence: every span is one tick (inactivity two), so that with a choice of when ticks come every
  deadline is met, missed, and missed while another is met. Names of streams are used once; p may
  open two and q one, which shows a new stream beside an old one and a late disconnection of either.
  Generations of leases without a stream are fresh: names that no sweep remembers for the player
  may be used again. `Setups` says which lobbies, servers, faults and joins go together:
  a hosted match on one server with a fault, quickplay with two seats and with three (joined twice),
  and a hosted match on two servers without a fault. Quickplay lobbies differ from hosted ones
  only before they start. A tick is long for a server; that one passes while a
  disconnection, a due entry or a sweep waits costs a fault, as a crash or a failed transaction
  does. Lists of leases are not paged.
- The theorems have none of these bounds: see below.

The deadlock check is off in `archive` only, where a host may stop after it has opened its file.

Fairness of the planner is stated in `FairPlannedSpec`: a search runs on its caller's thread until it
has its answer (weak fairness of `Search`). `PlansAreAnswered` then says that it has one in the end,
that is, that the heap runs empty or a target comes off it.

Fairness of the stream is stated in `FairSpec`. Jobs of the queue that can run again and again do run
(strong fairness: the queue is first in, first out, so a waiting job is at its head in time).
What is delivered is handled, snapshots and results reach the screen, a broken stream is found
out, a client without a stream reconnects (weak fairness of each: timers and event loops go on and
give each its turn). Nobody has to give a command, no message has to be
late, no sweep has to run. `Recovers` asks something of clients whose stream is not lost again.

Fairness of presence is stated in `MatchPresence!Fairness` and used by `HistorySpec`: servers and
the clock do not stop, taken together (a tick does not pass while a server has something to do,
but for a fault), and the timers by which each server reconciles the schedule fire. No player has
to do anything. `LapsedIsSwept` then holds although a server may crash with the only sweep in hand,
and although the transaction that schedules its successor may fail: it rests on the stand-in and on
reconciliation, and fails without the latter.

## 4. The proofs

`GameEngineProofs` proves of `GameEngine`, for every map, set of units, balance and set of
valid initial games:

- `EngineInvariant`: `Spec => []IInv`, where `IInv` is `TypeOK`, `ValidGame(game)` and `~fault`;
- `TypeCorrect`: `Spec => []TypeOK`; and `NeverFaults`: `Spec => []NoFault`;
- `PlansAreExecuted`: `Spec => []PlansExecute`; and `MovesWalkFree`: `Spec => WalksFreeTiles`;
- `OverlaysArePlanned`: `Spec => []OverlayMatchesPlan`; and `QueriesDiscloseNothing`:
  `Spec => []QueriesBlindToHidden`;
- `KnowledgeIsKept`: `Spec => KnowledgeGrows`;
- `FogStaysCurrent`: `Spec /\ FogIsCurrent => []FogIsCurrent`; and `ContactsStayComplete`, alike.

`NoFault` is not inductive: a command leaves a valid game only if it was given one, and only if
what the planner returns is a path on the map that starts where the unit stands and enters no
tile closed to it.

The first part of `CommandProofs` says so of the recursive functions of `Movement`, by induction over
numbers. The
library's induction theorems take an operator as a parameter, which no backend can instantiate;
`LeastNatural` (from the well-foundedness of `<`) gives `Induction` about sets and `Recursion` about
functions instead. `PathFacts` says what `SimplePaths` grows, `CostFacts` what the costs add up to,
`RouteFacts` puts the two together, and `RebasedFacts` says that what is left of a route, with its
costs counted from where the unit stops, is a path `QueuedMovePath` accepts.

Then come the lemmas about single commands: the unit stopped by hidden occupancy stands
on a free tile (`StopsOnFreeTile`), and for each command what it builds is a valid game. `PlansQueue`
and `TurnReachesSomewhere` carry `PlansAreExecuted`. The overlay asks for routes by cost within the
movement that is left, the planner for routes by turns; they agree because a route takes one turn
exactly if movement is left at each of its tiles but the last (`OneTurnIffMovementLeft`: any
remainder, however small, lets a unit enter the next tile), so that the planner's best routes to a
tile of the overlay are among the overlay's own (`OverlayAgrees`). That queries are blind rests on
a frame: `SameToPlanner` lists what routes, costs and refusals are computed from, and two games
that agree on it have the same plans and overlays (`SamePlans`); taking out or moving what a player
does not see changes none of it (`UnseenUnitsDoNotShow` and its like for cities and roads). For fog and contacts a step is one of two
shapes (`StepShape`): nobody changed tile and all knowledge is as it was, or one unit did, its
owner's fog is what the owner now sees, and contacts took in what is sighted then. What others see
depends on their own units and cities only (`SightFrame`). The hosts are not required to hand over a
game with current fog, so the two theorems assume it of the first state. The assumptions are those of
the modules: owners, domains and allowances are defined for all units (`EntityAssumption`,
`BalanceAssumption`), no two cities share a centre and terrain is defined (`WorldAssumption`),
`PolicyAssumption`, and `InitialGamesAssumption`: the host hands over games that were constructed.

`GameEngineProofs` proves of `TurnLedger`:

- `LedgersOnlyWatch`: `LedgerSpec => Spec`, so that all theorems of the engine hold in a turn.
  `TurnsArePlanned` states those about plans and queries, which run `engine_strip` checks;
- `LedgerInvariant`: `LedgerSpec => []LInv`; and `TurnsBalance`: `LedgerSpec => []MovementIsConserved`;
- `StoppedMovesAreFree`: `EveryKindMoves` gives `LedgerSpec => StoppedMoveOnlyWakes`.

`LInv` is the engine's invariant with the accounts of all units. A command books for its own unit
only (`OthersKept`), and what it pays, leaves and makes restorable was there before or is granted
(`Covered`); one lemma per command says so. `EveryKindMoves` says that no kind of unit has an
allowance of nothing, as in the ruleset (`aonw_content/src/ruleset.rs:250`): a woken unit without
one could not be told from a unit that walked.

`RouteSearchProofs` proves of `PlannedTurn`, for every map, world and request:

- `PlanningOnlyReads`: `PlannedSpec => LedgerSpec`, so that every theorem above holds with a planner;
- `SearchInvariant`: `PlannedSpec => [](IInv /\ SearchInv)`;
- `SearchAnswersPlans`: `PlannedSpec => []AnswersArePlans`, and `SettledAreFinal`:
  `PlannedSpec => SettledStays`, from it.

This connects an algorithm with a definition that shares nothing with it: `Plan` speaks of all ways
without repetition on the map, the search of records. One direction is that records are ways: the
parents of a record lead back to the departure by affordable edges, and what is counted in it is
what `CostSoFar` and `Pace` say of that way (`ReconstructedSteps`, `StepsCounted`). That such a way
does not repeat a tile, as `Routes` asks, is true of the best ones only, and needs an argument of its
own: a way with the detour left out is strictly better (`StrictRival`, `FoundIsStraight`). The other
direction is that no way is overlooked. A node is a tile with the
movement left there, and having more left is not always better, so records of the same tile do
not replace each other; what makes the search sound is that the next score grows with the score
alone once the node is fixed, and never falls along an edge. `HeapSound` therefore says
that for every edge from an expanded record its end has a record as good (`Explored`, `Matched`),
and that each record made is matched by one in `best`; `HeapOrdered` that no
record on the heap is better than what has left it. From the two, every way to a target is at
any time matched by a settled record or begins with one on the heap (`SettledOrAhead`), so that
the first target to come off is best (`FoundIsBest`), and an empty heap means there is none
(`NothingFound`). The scores of shortest ways must fit their counters, for an edge past them is not
followed: `CounterAssumption` says so, and the limits of a map (`aonw_content/src/model.rs:7`, 40 x 30)
and of a balance (`aonw_contracts/src/limits.rs:8`) give it.

`RuntimeProofs` proves of `LocalRuntime`, for every world, every host and every bound of the
replay segment:

- `RuntimeInvariant`: `Spec => []RuntimeInv`; and `RuntimeTypeCorrect`: `Spec => []TypeOK`;
- `SegmentVerifies`: `Spec => []ReplayVerifies`; and `PatchSuffices`: `Spec => PatchCarriesView`;
- `SessionIsKept`: `Spec => KeepsPromise`, the refinement of `GameSession`.

`RuntimeInv` says that the session is typed, its game is valid and its queued paths are no longer
than the map (`Keepable`), that the prepared sight is the actor's fog, and that the cached answer is
what the engine would say now (`Fresh`). With it an order is never lost (`OutcomeIsFine`), and a save
decodes. `SegmentVerifies` takes the verification itself into the invariant: a replay is
a function on the entries (`ReplayRuns`), one entry more is one step more (`LongerReplays`), and the
order just added is repeated on a session with the same game, actor and offset (`PreparedReplays`,
`DispatchedVerifies`), also when the segment was left for a new one. Beside the engine's
assumptions: openings are valid games whose queued paths fit (`RequestAssumption`), a segment holds
something (`SegmentAssumption`), and `None` is no session and no save (`AbsenceAssumption`).

`StreamProofs` proves of `MatchStream`, for any number of streams, commands and events, with
restarts, losses and retries:

- `StreamInvariant`: `Spec => []StreamInv`; and `CommandsApplyOnce`: `Spec => []AppliedOnce`;
- `TruthInvariant`: `Spec => []TruthInv`; from it `StreamTypes`: `Spec => []TypeOK`,
  `EventsComeWithTheirState`: `Spec => []EventsBringTheirState` and `AnswersTellTheTruth`:
  `Spec => []AnswersAreTrue`;
- without sweeps (`~Sweeping`), `CalmInvariant`: `Spec => []CalmInv`; from it `ConnectedIsPresent`:
  `Spec => []PresenceFollowsStreams`, `BacklogIsComplete`: `Spec => NoEventIsMissed` and
  `GuardKeepsOwnOnly`: `Spec => EchoesAreOwn`;
- without sweeps and lag, and with a match that has begun (`~Sweeping /\ ~Lagging /\ Started > 0`),
  `ScreenInvariant`: `Spec => []Screened`; from it `ScreenNeverGoesBack`:
  `Spec => OffsetsAreMonotonic` and `QuietScreensAreCurrent`: `Spec => []QuietIsCurrent`.

The four invariants build on one another. `AppliedOnce` says nothing of what may still be sent, so
`StreamInv` adds that all that is under way, waits for an answer or may be sent again is a wire
(`Wired`), and states uniqueness over all ticks of the log at once (`Logged`). The only step that
adds a command of the player's is `Accept`, which has looked for the tick before
(`DistinctAppend`). `TruthInv` says that every answer, event and state is true of the log wherever
it is: in a job, under way, queued at the client, in its hands; the log only grows, so what is true
stays true. It needs no condition, for a sweep tells the truth as well. `CalmInv` is about order: a
job holds the queue, so what a connecting stream has read is still all there is when it is
subscribed; a sweep does not wait in the queue, and with sweeps these properties fail. `Screened`
says of every stream in which order states come, that they are not behind the screen, and that
every event of somebody else is shown or on its way. It needs the two other conditions because a
result published late goes back (run `monotonic`), and because a snapshot of offset 0
is always shown. Beside these conditions the theorems rest on
`ChannelAssumption`, `HubAssumption` and `StartAssumption`, by which `None` is no stream, command,
number, message or notice.

`PresenceProofs` proves of `MatchPresence`, for any number of players, streams, servers, joins and
faults, any spans and any lobbies:

- `PresenceInvariant`: `Spec => []PresenceInv`;
- `LeasesFollow`: `Spec => []LeasesFollowMembership`, from it;
- `AttachedAreSpared`: `Spec => TakenOnlyWhenLost`, from it.

The record's part is nearly inductive by itself: `Sound` is its type with `Follows`, the relation
of leases, members and connection states, and one lemma per transaction says that it keeps it
(`JoinedIsSound`, `ExpiredIsSound`, ...). What a service does to one player must not touch
another's lease, and the lemmas say that too. `TakenOnlyWhenLost` needs the registries. A queued
disconnection names whatever generation is active at its server when it runs, so one must know that
this cannot be the generation of an attached stream: streams are at a server exactly while they are
open or leaving (`Placed`), an active generation is that of a stream which was opened there
(`Activated`), and no generation is active at two servers (`Exclusive`).
With these a disconnection that finds no stream of its player open at its server holds a generation
that no other server has, and a sweep takes only leases without time left. The theorems rest on
`RecordAssumption` (spans are positive, `None` is nobody), `RegistryAssumption` (each stream is one
user's) and `PresenceAssumption` (the creator is a user, the recovery delay is not shorter than
the next sweep's). `SameRecord` connects the names of the record that `SweepSchedule`'s instance
uses with those of `MatchRecord`.

Its second half goes on from `PresenceInv`:

- `HistoryInvariant`: `HistorySpec => []HistoryInv`;
- `TurnsWereAttended`: `HistorySpec => TurnsAreAttended`, from it;
- `AbandonedWereIdle`: `HistorySpec => AbandonedOnlyIdle`, from it.

The properties compare the clocks of the record with histories kept beside it, and `Timed` says
how: the inactivity clock shows no more than `quiet`, and while the match is not deserted the turn's
clock shows no more than `attended`. Whatever a history counts as a beginning must therefore reset
the clock. `Resets` says so of one transaction, with one lemma for each, and it is transitive, as
transactions are made of others. All four safety properties of the run `presence` are so proved; only
`LapsedIsSwept` is model-checked.

`DigestProofs` proves of `StateDigest`, for states of any size:

- `DigestNamesGames`: two valid states have the same digest exactly when they are the same game.

Nothing in a digest marks where one part ends and the next begins. What makes it injective is that
every part is a prefix code: `Agree(a, b, x, y)` says of the encodings `a` of `x` and `b` of `y` that,
whatever bytes follow them, the whole can only be the same if `x` and `y` are and the same bytes
follow. `AgreeThen` joins such codes; `ItemsAgree` and `MaybeAgree` are for lists behind their length
and optional values behind their tag; so the lemmas climb from numbers in their widths
(`U8Agree` to `U64Agree`, `SignedAgree`) and texts to the whole state (`StatesAgree`). Sets are
written in their canonical order and entities in that of their identifiers. That a set can be found
again in its sorted list rests on the orders being strict and total (`KeysOrder`, `PairsOrder`) and, for
entities, fog and roads, on keys being unique, which is what `ValidState` is needed for. Two facts of
the code carry the proof: numbers fit the width they are written in, and the number of elements of
a list fits in 64 bits.

`ArchiveProofs` proves of `Archive`, for any documents, scenarios, games and actors of a host, any
changes to a file and any limits on lengths:

- `ArchiveTypeCorrect`: `Spec => []TypeOK`;
- `ScenariosStart`: `Spec => []ScenariosOpen`;
- `ArchiveIsFaithful`: `Spec => []ArchiveInvariant`;
- `DigestsNameStates`: `Spec => []DigestNamesState`, and `FilesOpenWhatWasSaved`:
  `Spec => []OpensWhatWasSaved`, from it.

`DecodedState` has the work of the first: what the strict codec and `decode_game_state` let through
decodes to a member of `State`, with one lemma for each part of a document, and `TilesByIndex`
that a map's sorted tiles lie where their index is looked for. `OpensWhatWasSaved` is not
inductive: that the state of an altered file is the saved game follows only if the digest in the
export was that of a valid state (`SavedFaithfully`) and if what has opened decodes, to a state of
the digest in the file (`OpenedByDigest`); the rest is `DigestNamesGames`. The theorems rest on
`HostAssumption` (what a host resumes from memory is a valid state), `AbsenceAssumption`,
`NamesAssumption` and `VerdictAssumption` (`None` is no number, text, name or verdict), and on the
absence of collisions that representing a hash by what is hashed amounts to.

The second half of `ArchiveProofs` is the other direction, that what the program writes it reads:

- `ExportsAreOpen`: `Spec => []ExportsOpen`. A file that nobody touched decodes to the very state of
  the session, and opens against exactly the map documents that describe the session's map;
- `ScenariosCanBeSaved`: a scenario's first state is within the limits of a document
  (`FilesFitScenarios`, true of the constants in the source), decodes, and to itself.

The work is `StateEncoding`: for every member of `State`, `EncodeState` gives a document of the shape
that the strict codec asks for, with valid identifiers, that decodes to that member. It has one
lemma for each part of a state. The sets of a state (hexes, fog, contacts, roads) are written in
their order and read back as sets, so each needs that the order lists every element once
(`ArrangedOnce`); enumerations need that no name stands twice in a table (`NamesAreDistinct`).
`MapIsDescribed` and `DescriptionsAreMaps` do the same for maps: tiles, resources and objectives are
sorted by keys that are unique, so a map is determined by what its document says in any order. The
invariant (`ExportInvariant`) is that an exported session is one that was opened from a scenario or
a state, and that a file without changes is its export. Three things the proof brought out: the
model's types had to have what the constructors enforce (identifiers, a grid that is not empty, a
city's centre outside its hexes); a state in memory beyond the limits of
`aonw_contracts::limits` (a balance over 14, routes or units too many) can be exported and is then
refused by `decode_game_state`, which `ExportsOpen` now says; and that `null` is told from a
document of an object has to be a hypothesis, `NullIsNoDocument`, which TLC cannot evaluate of a
model value.

Only model-checked: liveness (`Recovers`, `LapsedIsSwept`, `PlansAreAnswered`), which the prover does
not do under fairness. Every safety property of a passing run is stated by a theorem.

## 5. What is not modelled

- `requestSnapshot`, which no client sends; authorization failures while a stream connects; the
  message guard, whose refusals end a stream as any failure does.
- Of matchmaking: seats, countries, names, invite codes, and which lobby or map a player is given.
  They are columns of the same transactions that nothing modelled depends on.
- `MatchHub` and `MatchPresence` are not composed: the first has commits and deliveries apart and a
  lease that is there or not, the second has deadlines and generations and no deliveries. Together
  they exceed what TLC explores.
- Accounts (with their clean-up schedule and refresh tokens), statistics, status: single
  transactions that share no state with a match, or I/O.
- The Dart rules (combat, cities, technologies, computer players): the server models take from
  them that a command is accepted or refused, ends a turn or a match.
- The DTOs of the client protocol, whose dispatch `LocalRuntime` has; the syntax of JSON, which a
  library reads: a document is a value with fields.
- Updates of the state that no command of the Rust engine makes. Hit points, names and charges of
  units are carried along by commands; documents and digests have them.
- The Godot host, clients' screens, rendering, bindings, fixtures, assets and deployment.

## 6. Plan

The order of the work was: the engine, because everything trusts it; its first theorems; the
runtime with its abstract specification; the live match and its theorem; saved games and
content; presence, lobbies and the sweeps, with their theorems; the planner's search. What is left:

1. `MatchScreen`: the Godot host over `GameSession`: selection, overlay, animation, revisions.
2. The bounded search of `reachable.rs`, as `RouteSearch` has that of `route_search.rs`.
3. An abstraction of `MatchPresence` small enough to compose with `MatchHub`, and the refinement.
4. The message guard and the rotation of refresh tokens.
