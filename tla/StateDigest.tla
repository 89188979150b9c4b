---------------------------- MODULE StateDigest ----------------------------
(***************************************************************************)
(* The bytes over which aonw_engine takes the SHA-256 digest of a state.   *)
(* Two digests are taken to be equal when their bytes are: the hash itself *)
(* is assumed to have no collisions.  Entities are written in the order of *)
(* their identifiers, sets in their canonical order, every other list in   *)
(* the order in which the state holds it.                                  *)
(***************************************************************************)
EXTENDS StateMapping

\* The text "aonw-game-state-v3".
Format == <<97, 111, 110, 119, 45, 103, 97, 109, 101, 45, 115, 116, 97, 116, 101, 45,
            118, 51>>

Hexes(S) == Items(Coordinate, Sorted(Before, S))
HashStep(step) == Coordinate(step.tile) \o U32(step.enter) \o U32(step.total)
Steps(s) == Items(HashStep, s)

HashQueued(path) == Coordinate(path.target) \o Steps(path.steps)
HashMerchant(m) ==
    Text(m.origin) \o Text(m.destination) \o Steps(m.steps) \o Text(m.fingerprint)
HashTroop(t) == U8(t.kind) \o U32(t.count)
HashTimed(job) == U32(job.remaining) \o U32(job.total)
HashJob(job) ==
    IF job = None THEN U8(0)
    ELSE IF job.improvement = None
         THEN U8(2) \o Coordinate(job.target) \o HashTimed(job)
         ELSE U8(1) \o Coordinate(job.target) \o U8(job.improvement) \o HashTimed(job)
HashFounding(job) == Coordinate(job.center) \o Items(Coordinate, job.hexes) \o HashTimed(job)
HashActivity(a) ==
    HashJob(a.job) \o Maybe(HashFounding, a.founding) \o Maybe(Coordinate, a.assignment)
    \o Maybe(Text, a.excavating)
HashUnit(u) ==
    Text(u.id) \o Text(u.owner) \o U8(u.kind) \o Text(u.name) \o Coordinate(u.position)
    \o U32(u.movement) \o Items(HashTroop, u.army) \o Maybe(HashQueued, u.queued)
    \o Maybe(HashMerchant, u.merchant) \o HashActivity(u.activity) \o U32(u.charges)
    \o Maybe(U32, u.hitPoints) \o U32(u.experience) \o U8(u.posture)
    \o Maybe(Text, u.carried)
HashCity(c) == Text(c.id) \o Text(c.owner) \o Coordinate(c.center) \o Hexes(c.hexes)
HashLocation(l) ==
    CASE l.kind = "map"     -> U8(0) \o Coordinate(l.tile)
      [] l.kind = "carried" -> U8(1) \o Text(l.unit)
      [] l.kind = "stored"  -> U8(2) \o Text(l.city)
      [] OTHER -> U8(3) \o Text(l.unit) \o Coordinate(l.tile) \o U32(l.remaining)
HashArtifact(a) == Text(a.id) \o U8(a.type) \o HashLocation(a.location)

HashDraft(d) ==
    Text(d.unit) \o Text(d.owner) \o Coordinate(d.center) \o Items(Coordinate, d.hexes)
PendingTag(kind) == Valued(PendingKinds, kind) + 1
HashPending(p) ==
    Text(p.owner)
    \o (CASE p.kind \in CityKinds -> Text(p.city)
          [] p.kind = "researchSelection" -> <<>>
          [] OTHER -> Text(p.unit))
    \o CASE p.kind = "workerActionSelection" -> Maybe(U8, p.improvement)
         [] p.kind = "unitTurnSkip" -> U32(p.restore)
         [] p.kind = "attackTargeting" -> Maybe(Coordinate, p.defender)
         [] OTHER -> <<>>
HashInteraction(g) ==
    Maybe(HashDraft, g.draft)
    \o IF g.pending = None THEN U8(0)
       ELSE U8(PendingTag(g.pending.kind)) \o HashPending(g.pending)

HashFog(f) == Text(f.player) \o Hexes(f.discovered) \o Hexes(f.visible)
HashRoad(r) ==
    Coordinate(r.coordinate) \o U8(r.condition) \o Text(r.builder) \o Maybe(Text, r.city)
HashPair(p) == Text(p[1]) \o Text(p[2])

\* sort_unstable_by of entities with distinct identifiers.
ById(s) == Sorted(LAMBDA x, y : Before(x.id, y.id), ToSet(s))

Digest(g) ==
    Text(Format) \o U64(g.revision) \o U32(g.turn) \o U16(g.cols) \o U16(g.rows)
    \o U8(g.policy) \o Items(HashUnit, ById(g.units)) \o Items(HashCity, ById(g.cities))
    \o Items(HashArtifact, ById(g.artifacts)) \o HashInteraction(g)
    \o Items(HashFog, FogList(g))
    \o Items(HashPair, ContactList(g))
    \o Items(HashRoad, RoadList(g))
=============================================================================
