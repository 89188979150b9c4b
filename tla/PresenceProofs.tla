--------------------------- MODULE PresenceProofs ---------------------------
(***************************************************************************)
(* For any number of players, streams, servers, faults and any spans:      *)
(* leases follow membership, nobody who is attached is taken for gone, a   *)
(* sweep ends a turn only when its time has run with somebody there, and   *)
(* abandons a match only after a timeout in which nothing happened.        *)
(*                                                                         *)
(* Every transaction on the record keeps it sound: typed, and with leases  *)
(* that follow its members.  The second result needs to know besides what  *)
(* the registries say of each other: a generation is active at one server  *)
(* at most, and a stream that is not closed has its own active there only. *)
(***************************************************************************)
EXTENDS PresenceProperties, FiniteSetTheorems, TLAPS

\* What LeasesFollowMembership says of the record.
Follows(m) ==
    /\ Over(m) => \A u \in Users : m.lease[u] = None
    /\ Open(m) => \A u \in Users : m.lease[u] # None <=> u \in m.members
    /\ Running(m) =>
           \A u \in Users :
               /\ m.lease[u] # None => u \in m.members /\ m.conn[u] = "connected"
               /\ u \in m.members /\ m.lease[u] = None =>
                      m.conn[u] = "offline" \/ u \in m.resigned

Sound(m) == m \in Records /\ Follows(m)

-----------------------------------------------------------------------------
(* Spans and leases.                                                       *)

LEMMA SpansAreNumbers ==
  /\ MaxLease \in Nat
  /\ \A span \in Spans : span \in 0 .. MaxLease
  <1>1. Spans \subseteq Nat
    BY RecordAssumption
  <1>2. \E span \in Spans : \A other \in Spans : other <= span
    BY <1>1 DEF Spans
  <1>3. MaxLease \in Spans /\ \A other \in Spans : other <= MaxLease
    BY <1>2 DEF MaxLease
  <1> QED BY <1>1, <1>3

LEMMA LeaseTyping ==
  ASSUME NEW g \in Generations, NEW span \in Spans
  PROVE  Lease(g, span) \in Leases /\ Lease(g, span) # None
  <1>1. Lease(g, span) \in Leases
    BY SpansAreNumbers DEF Lease, Leases
  <1>2. None \notin Leases
    BY RecordAssumption
  <1> QED BY <1>1, <1>2

\* The fields of a record, so that a later step need not look for them.
LEMMA RecordTyping ==
  ASSUME NEW m \in Records
  PROVE  /\ m.phase \in {"open", "running", "finished", "abandoned"}
         /\ m.members \subseteq Users /\ m.resigned \subseteq Users
         /\ m.lease \in [Users -> Leases \cup {None}]
         /\ m.countdown \in 0 .. Countdown \cup {None}
         /\ m.turnAge \in 0 .. TurnTimeout /\ m.idle \in 0 .. InactivityTimeout
         /\ (Open(m) \/ Running(m)) <=> ~Over(m)
  BY DEF Records, Open, Running, Over

-----------------------------------------------------------------------------
(* Every transaction keeps the record sound.                               *)

LEMMA EnteredTyping ==
  ASSUME NEW m \in Records, NEW phase \in {"running", "finished", "abandoned"}
  PROVE  /\ Entered(m, phase) \in Records
         /\ Entered(m, phase).phase = phase /\ Entered(m, phase).members = m.members
         /\ Entered(m, phase).lease = m.lease /\ Entered(m, phase).conn = m.conn
         /\ Entered(m, phase).resigned = m.resigned
  <1>1. 0 \in 0 .. TurnTimeout /\ 0 \in 0 .. InactivityTimeout
    BY RecordAssumption
  <1>2. Entered(m, phase) \in Records
    BY <1>1 DEF Entered, Records
  <1> QED BY <1>2 DEF Entered, Records

LEMMA EndedIsSound ==
  ASSUME NEW m \in Records, NEW phase \in {"finished", "abandoned"}
  PROVE  Sound(Ended(m, phase)) /\ Over(Ended(m, phase))
  <1>1. /\ Ended(m, phase) \in Records /\ Ended(m, phase).phase = phase
        /\ \A u \in Users : Ended(m, phase).lease[u] = None
    BY EnteredTyping DEF Ended, Records
  <1> QED BY <1>1 DEF Sound, Follows, Open, Running, Over

LEMMA StartedIsSound ==
  ASSUME NEW m, Sound(m), Open(m), Startable(m)
  PROVE  Sound(Started(m))
  <1>1. \A u \in m.members : m.conn[u] = "connected" /\ m.lease[u] # None
    BY DEF Startable, AllLive, Live
  <1> QED BY <1>1, EnteredTyping, RecordTyping
          DEF Sound, Follows, Open, Running, Over, Started

\* Whatever the countdown of a lobby is set to, the record stays sound.
LEMMA AdvancedIsSound ==
  ASSUME NEW m, Sound(m)
  PROVE  /\ Sound(Advanced(m))
         /\ Advanced(m).lease = m.lease /\ Advanced(m).conn = m.conn
         /\ ~Over(m) => ~Over(Advanced(m))
  <1>1. ASSUME NEW n \in 0 .. Countdown \cup {None}
        PROVE  /\ Sound([m EXCEPT !.countdown = n])
               /\ [m EXCEPT !.countdown = n].lease = m.lease
               /\ [m EXCEPT !.countdown = n].conn = m.conn
               /\ [m EXCEPT !.countdown = n].phase = m.phase
    BY DEF Sound, Follows, Open, Running, Over, Records
  <1>2. Countdown \in 0 .. Countdown
    BY RecordAssumption
  <1>3. CASE Advanced(m) = m
    BY <1>3
  <1>4. CASE \E n \in {None, Countdown} : Advanced(m) = [m EXCEPT !.countdown = n]
    BY <1>1, <1>2, <1>4 DEF Over
  <1>5. CASE Open(m) /\ Startable(m) /\ Advanced(m) = Started(m)
    <2>1. /\ Started(m).lease = m.lease /\ Started(m).conn = m.conn
          /\ Started(m).phase = "running"
      BY DEF Started, Entered, Records, Sound
    <2> QED BY <1>5, <2>1, StartedIsSound DEF Over
  <1> QED BY <1>3, <1>4, <1>5 DEF Advanced

LEMMA JoinedIsSound ==
  ASSUME NEW m, Sound(m), Open(m), NEW u \in Users, NEW g \in Generations
  PROVE  Sound(Joined(m, u, g))
  <1> DEFINE seated == [m EXCEPT !.members = @ \cup {u}, !.conn[u] = "connecting",
                                 !.lease[u] = Lease(g, InitialLease)]
  <1>1. Lease(g, InitialLease) \in Leases /\ Lease(g, InitialLease) # None
    BY LeaseTyping DEF Spans
  <1>2. seated \in Records /\ seated.phase = "open"
    BY <1>1 DEF Sound, Records, Open
  <1>3. \A v \in Users : seated.lease[v] # None <=> v \in seated.members
    BY <1>1 DEF Sound, Follows, Records
  <1>4. Sound(seated)
    BY <1>2, <1>3 DEF Sound, Follows, Open, Running, Over
  <1> QED BY <1>4, AdvancedIsSound DEF Joined

LEMMA LeftOpenIsSound ==
  ASSUME NEW m, Sound(m), Open(m), NEW u \in Users, NEW next \in LeftOpen(m, u)
  PROVE  /\ Sound(next)
         /\ ~Over(next) =>
                \A v \in Users \ {u} : next.lease[v] = m.lease[v] /\ next.conn[v] = m.conn[v]
  <1>1. CASE next = Ended(m, "abandoned")
    BY <1>1, EndedIsSound DEF Sound
  <1>2. ASSUME NEW o \in Successors(m, u),
               next = Advanced([m EXCEPT !.owner = o, !.members = @ \ {u},
                                         !.conn[u] = "none", !.lease[u] = None])
        PROVE  /\ Sound(next)
               /\ \A v \in Users \ {u} : next.lease[v] = m.lease[v] /\ next.conn[v] = m.conn[v]
    <2> DEFINE rest == [m EXCEPT !.owner = o, !.members = @ \ {u},
                                 !.conn[u] = "none", !.lease[u] = None]
    <2>1. o \in Users \cup {None}
      BY DEF Successors, Sound, Records
    <2>2. rest \in Records /\ rest.phase = "open"
      BY <2>1 DEF Sound, Records, Open
    <2>3. \A v \in Users : rest.lease[v] # None <=> v \in rest.members
      BY DEF Sound, Follows, Records
    <2>4. Sound(rest)
      BY <2>2, <2>3 DEF Sound, Follows, Open, Running, Over
    <2>5. \A v \in Users \ {u} : rest.lease[v] = m.lease[v] /\ rest.conn[v] = m.conn[v]
      BY DEF Sound, Records
    <2> HIDE DEF rest
    <2> QED BY <1>2, <2>4, <2>5, AdvancedIsSound DEF rest
  <1> QED BY <1>1, <1>2 DEF LeftOpen

\* A player of a running match goes offline.
LEMMA OfflineIsSound ==
  ASSUME NEW m, Sound(m), Running(m), NEW u \in Users
  PROVE  /\ Sound(Offline(m, u)) /\ Running(Offline(m, u))
         /\ \A v \in Users \ {u} :
                Offline(m, u).lease[v] = m.lease[v] /\ Offline(m, u).conn[v] = m.conn[v]
  <1>1. 0 \in 0 .. InactivityTimeout
    BY RecordAssumption
  <1>2. Offline(m, u) \in Records /\ Offline(m, u).phase = "running"
    BY <1>1 DEF Sound, Records, Running, Offline
  <1>3. \A v \in Users :
            /\ Offline(m, u).lease[v] = IF v = u THEN None ELSE m.lease[v]
            /\ Offline(m, u).conn[v] = IF v = u THEN "offline" ELSE m.conn[v]
    BY DEF Sound, Records, Offline
  <1>4. Offline(m, u).members = m.members /\ Offline(m, u).resigned = m.resigned
    BY DEF Sound, Records, Offline
  <1> QED BY <1>2, <1>3, <1>4 DEF Sound, Follows, Open, Running, Over

\* A lease is deleted and nothing else is done: right where the match is over
\* or the player is known to be away.
LEMMA DeletionIsSound ==
  ASSUME NEW m, Sound(m), NEW u \in Users,
         \/ Over(m)
         \/ Running(m) /\ (m.conn[u] = "offline" \/ u \in m.resigned)
  PROVE  Sound([m EXCEPT !.lease[u] = None])
  <1> DEFINE next == [m EXCEPT !.lease[u] = None]
  <1>1. next \in Records
    BY DEF Sound, Records
  <1>2. /\ next.phase = m.phase /\ next.members = m.members /\ next.conn = m.conn
        /\ next.resigned = m.resigned
        /\ \A v \in Users : next.lease[v] = IF v = u THEN None ELSE m.lease[v]
    BY DEF Sound, Records
  <1> HIDE DEF next
  <1>3. Follows(next)
    BY <1>2 DEF Sound, Follows, Open, Running, Over
  <1> QED BY <1>1, <1>3 DEF Sound, next

LEMMA ConnectedIsSound ==
  ASSUME NEW m, Sound(m), NEW u \in m.members, NEW g \in Generations
  PROVE  Sound(Connected(m, u, g))
  <1> DEFINE turnAge == IF RestartsClock(m) THEN 0 ELSE m.turnAge
             changed == m.conn[u] # "connected" \/ RestartsClock(m)
             idle == IF Running(m) /\ changed THEN 0 ELSE m.idle
             next == [m EXCEPT !.conn[u] = "connected",
                               !.lease[u] = Lease(g, ConnectedLease),
                               !.turnAge = turnAge, !.idle = idle]
  <1>1. Lease(g, ConnectedLease) \in Leases /\ Lease(g, ConnectedLease) # None
    BY LeaseTyping DEF Spans
  <1>2. turnAge \in 0 .. TurnTimeout /\ idle \in 0 .. InactivityTimeout
    BY RecordAssumption, RecordTyping DEF Sound
  <1>3. u \in Users
    BY DEF Sound, Records
  <1> HIDE DEF turnAge, idle, changed
  <1>4. next \in Records
    BY <1>1, <1>2, <1>3 DEF Sound, Records
  <1>5. /\ next.phase = m.phase /\ next.members = m.members /\ next.resigned = m.resigned
        /\ next.conn[u] = "connected" /\ next.lease[u] # None
        /\ \A v \in Users \ {u} : next.conn[v] = m.conn[v] /\ next.lease[v] = m.lease[v]
    BY <1>1, <1>3 DEF Sound, Records
  <1>6. ~Over(m) => Sound(next)
    <2> HIDE DEF next
    <2> QED BY <1>3, <1>4, <1>5 DEF Sound, Follows, Open, Running, Over
  <1>7. Connected(m, u, g) = IF Over(m) THEN m ELSE Advanced(next)
    BY DEF Connected, next, turnAge, idle, changed
  <1> QED BY <1>6, <1>7, AdvancedIsSound

\* A disconnection touches no other player's presence.
LEMMA DisconnectedIsSound ==
  ASSUME NEW m, Sound(m), NEW u \in Users, NEW g, NEW h \in Generations
  PROVE  /\ Sound(Disconnected(m, u, g, h))
         /\ \A v \in Users \ {u} :
                /\ Disconnected(m, u, g, h).lease[v] = m.lease[v]
                /\ Disconnected(m, u, g, h).conn[v] = m.conn[v]
  <1> DEFINE deleted == [m EXCEPT !.lease[u] = None]
             waiting == [m EXCEPT !.conn[u] = "reconnecting",
                                  !.lease[u] = Lease(h, ReconnectLease)]
  <1>1. CASE Disconnected(m, u, g, h) = m
    BY <1>1
  <1>2. CASE Over(m) /\ Disconnected(m, u, g, h) = deleted
    <2>1. \A v \in Users \ {u} : deleted.lease[v] = m.lease[v] /\ deleted.conn[v] = m.conn[v]
      BY DEF Sound, Records
    <2> QED BY <1>2, <2>1, DeletionIsSound
  <1>3. CASE Running(m) /\ Disconnected(m, u, g, h) = Offline(m, u)
    BY <1>3, OfflineIsSound
  <1>4. CASE Open(m) /\ Holds(m, u, g) /\ Disconnected(m, u, g, h) = Advanced(waiting)
    <2>1. Lease(h, ReconnectLease) \in Leases /\ Lease(h, ReconnectLease) # None
      BY LeaseTyping DEF Spans
    <2>2. waiting \in Records /\ waiting.phase = "open" /\ waiting.members = m.members
      BY <1>4, <2>1 DEF Sound, Records, Open
    <2>3. \A v \in Users \ {u} : waiting.lease[v] = m.lease[v] /\ waiting.conn[v] = m.conn[v]
      BY DEF Sound, Records
    <2>4. \A v \in Users : waiting.lease[v] # None <=> v \in waiting.members
      BY <1>4, <2>1, <2>2, <2>3 DEF Sound, Follows, Records, Holds
    <2> HIDE DEF waiting
    <2>5. Sound(waiting)
      BY <2>2, <2>4 DEF Sound, Follows, Open, Running, Over
    <2> QED BY <1>4, <2>3, <2>5, AdvancedIsSound
  <1> QED BY <1>1, <1>2, <1>3, <1>4, RecordTyping DEF Disconnected, Sound

\* A sweep takes the lease that has lapsed, or none, and no other player's
\* presence unless the match ends with it.
LEMMA ExpiredIsSound ==
  ASSUME NEW m, Sound(m), NEW u \in Users, NEW g, NEW next \in Expired(m, u, g)
  PROVE  /\ Sound(next)
         /\ ~Over(next) =>
                \A v \in Users :
                    v # u \/ ~Lapsed(m, u) =>
                        next.lease[v] = m.lease[v] /\ next.conn[v] = m.conn[v]
  <1> DEFINE deleted == [m EXCEPT !.lease[u] = None]
  <1>1. CASE next = m
    BY <1>1
  <1>2. CASE StillLapsed(m, u, g) /\ Open(m) /\ next \in LeftOpen(m, u)
    BY <1>2, LeftOpenIsSound DEF StillLapsed
  <1>3. CASE StillLapsed(m, u, g) /\ Running(m) /\ next = Offline(m, u)
    BY <1>3, OfflineIsSound DEF StillLapsed
  <1>4. CASE /\ StillLapsed(m, u, g) /\ next = deleted
             /\ ~(Open(m) /\ u \in m.members)
             /\ ~(Running(m) /\ u \in m.members /\ m.conn[u] # "offline")
    <2>1. m.lease[u] # None
      BY <1>4 DEF StillLapsed, Lapsed
    <2>2. Over(m) \/ (Running(m) /\ m.conn[u] = "offline")
      BY <1>4, <2>1, RecordTyping DEF Sound, Follows
    <2>3. Sound(deleted)
      BY <2>2, DeletionIsSound
    <2>4. \A v \in Users \ {u} : deleted.lease[v] = m.lease[v] /\ deleted.conn[v] = m.conn[v]
      BY DEF Sound, Records
    <2> QED BY <1>4, <2>3, <2>4 DEF StillLapsed
  <1> QED BY <1>1, <1>2, <1>3, <1>4 DEF Expired

LEMMA RenewedIsSound ==
  ASSUME NEW m, Sound(m), NEW u \in Users, m.lease[u] # None
  PROVE  Sound(Renewed(m, u)) /\ Renewed(m, u).phase = m.phase
  <1>1. ConnectedLease \in 0 .. MaxLease
    BY SpansAreNumbers DEF Spans
  <1>2. m.lease[u] \in Leases
    BY DEF Sound, Records
  <1>3. [m.lease[u] EXCEPT !.left = ConnectedLease] \in Leases
    BY <1>1, <1>2 DEF Leases
  <1>4. Renewed(m, u) = [m EXCEPT !.lease[u] = [m.lease[u] EXCEPT !.left = ConnectedLease]]
    BY <1>2 DEF Renewed, Sound, Records
  <1>5. Renewed(m, u) \in Records
    BY <1>3, <1>4 DEF Sound, Records
  <1>6. /\ Renewed(m, u).phase = m.phase /\ Renewed(m, u).members = m.members
        /\ Renewed(m, u).conn = m.conn /\ Renewed(m, u).resigned = m.resigned
    BY DEF Renewed, Sound, Records
  <1>7. \A v \in Users : Renewed(m, u).lease[v] = None <=> m.lease[v] = None
    BY <1>3, <1>4, RecordAssumption DEF Sound, Records
  <1> QED BY <1>5, <1>6, <1>7 DEF Sound, Follows, Open, Running, Over

\* The clocks of a match may be set to anything within their spans.
LEMMA ClocksAreFree ==
  ASSUME NEW m, Sound(m), NEW next \in Records,
         next.phase = m.phase, next.members = m.members, next.conn = m.conn,
         next.resigned = m.resigned,
         \A u \in Users : next.lease[u] = None <=> m.lease[u] = None
  PROVE  Sound(next)
  BY DEF Sound, Follows, Open, Running, Over

LEMMA CommandedIsSound ==
  ASSUME NEW m, Sound(m), NEW next \in Commanded(m)
  PROVE  Sound(next)
  <1>1. 0 \in 0 .. TurnTimeout /\ 0 \in 0 .. InactivityTimeout
    BY RecordAssumption
  <1>2. CASE next = Ended(m, "finished")
    BY <1>2, EndedIsSound DEF Sound
  <1>3. CASE next \in {[m EXCEPT !.idle = 0], [m EXCEPT !.idle = 0, !.turnAge = 0]}
    <2>1. /\ next \in Records /\ next.phase = m.phase /\ next.members = m.members
          /\ next.conn = m.conn /\ next.resigned = m.resigned /\ next.lease = m.lease
      BY <1>1, <1>3 DEF Sound, Records
    <2> QED BY <2>1, ClocksAreFree
  <1> QED BY <1>2, <1>3 DEF Commanded

\* A sweep that ends a turn takes nobody's presence unless the match ends.
LEMMA TimedOutIsSound ==
  ASSUME NEW m, Sound(m), NEW next \in TimedOut(m)
  PROVE  /\ Sound(next)
         /\ ~Over(next) => next.lease = m.lease /\ next.conn = m.conn
  <1>1. 0 \in 0 .. TurnTimeout
    BY RecordAssumption
  <1>2. CASE next = m
    BY <1>2
  <1>3. CASE next \in {Ended(m, "abandoned"), Ended(m, "finished")}
    BY <1>3, EndedIsSound DEF Sound
  <1>4. CASE next = [m EXCEPT !.turnAge = 0]
    <2>1. /\ next \in Records /\ next.phase = m.phase /\ next.members = m.members
          /\ next.conn = m.conn /\ next.resigned = m.resigned /\ next.lease = m.lease
      BY <1>1, <1>4 DEF Sound, Records
    <2> QED BY <2>1, ClocksAreFree
  <1> QED BY <1>2, <1>3, <1>4 DEF TimedOut

LEMMA LeftIsSound ==
  ASSUME NEW m, Sound(m), NEW u \in Users, NEW next \in Left(m, u)
  PROVE  Sound(next)
  BY LeftOpenIsSound, OfflineIsSound DEF Left

LEMMA ResignedIsSound ==
  ASSUME NEW m, Sound(m), Running(m), NEW u \in Users, NEW next \in ResignedRunning(m, u)
  PROVE  Sound(next)
  <1> DEFINE away == Offline(m, u)
             resigned == [away EXCEPT !.resigned = @ \cup {u}]
  <1>1. Sound(away) /\ Running(away)
    BY OfflineIsSound
  <1> HIDE DEF away
  <1>2. /\ resigned \in Records /\ resigned.phase = away.phase
        /\ resigned.members = away.members /\ resigned.conn = away.conn
        /\ resigned.lease = away.lease /\ away.resigned \subseteq resigned.resigned
    BY <1>1 DEF Sound, Records
  <1>3. Sound(resigned)
    <2> HIDE DEF resigned
    <2> QED BY <1>1, <1>2 DEF Sound, Follows, Open, Running, Over
  <1>4. CASE u \in m.resigned /\ next = [m EXCEPT !.lease[u] = None]
    BY <1>4, DeletionIsSound
  <1>5. CASE next = resigned
    BY <1>3, <1>5
  <1>6. CASE next \in {Ended(resigned, "abandoned"), Ended(resigned, "finished")}
    BY <1>2, <1>6, EndedIsSound
  <1> QED BY <1>4, <1>5, <1>6 DEF ResignedRunning, resigned, away

\* Time changes the clocks and what is left of the leases.
LEMMA LaterIsSound ==
  ASSUME NEW m, Sound(m)
  PROVE  Sound(Later(m))
  <1> DEFINE lease == [u \in Users |->
                          IF m.lease[u] = None THEN None
                          ELSE [m.lease[u] EXCEPT !.left = Down(@)]]
             countdown == IF m.countdown = None THEN None ELSE Down(m.countdown)
             turnAge == IF Running(m) THEN Up(m.turnAge, TurnTimeout) ELSE m.turnAge
             idle == IF Running(m) THEN Up(m.idle, InactivityTimeout) ELSE m.idle
  <1>1. \A limit \in Nat : \A n \in 0 .. limit : Down(n) \in 0 .. limit /\ Up(n, limit) \in 0 .. limit
    BY DEF Down, Up
  <1>2. \A l \in Leases : [l EXCEPT !.left = Down(@)] \in Leases
    BY <1>1, SpansAreNumbers DEF Leases
  <1>3. /\ lease \in [Users -> Leases \cup {None}]
        /\ \A u \in Users : lease[u] = None <=> m.lease[u] = None
    BY <1>2, RecordTyping, RecordAssumption DEF Sound
  <1>4. /\ countdown \in 0 .. Countdown \cup {None} /\ turnAge \in 0 .. TurnTimeout
        /\ idle \in 0 .. InactivityTimeout
    BY <1>1, RecordTyping, RecordAssumption DEF Sound
  <1>5. Later(m) = [m EXCEPT !.lease = lease, !.countdown = countdown,
                             !.turnAge = turnAge, !.idle = idle]
    BY DEF Later, Sound, Records
  <1> HIDE DEF lease, countdown, turnAge, idle
  <1>6. /\ Later(m) \in Records /\ Later(m).phase = m.phase /\ Later(m).members = m.members
        /\ Later(m).conn = m.conn /\ Later(m).resigned = m.resigned
        /\ Later(m).lease = lease
    BY <1>3, <1>4, <1>5 DEF Sound, Records
  <1> QED BY <1>3, <1>6, ClocksAreFree

LEMMA CreatedIsSound ==
  ASSUME NEW u \in Users, NEW lobby \in Lobbies, NEW g \in Generations
  PROVE  Sound(Created(u, lobby, g))
  <1>1. Lease(g, InitialLease) \in Leases /\ Lease(g, InitialLease) # None
    BY LeaseTyping DEF Spans
  <1>2. 0 \in 0 .. TurnTimeout /\ 0 \in 0 .. InactivityTimeout
    BY RecordAssumption
  <1>3. lobby.quickplay \in BOOLEAN
    BY RecordAssumption
  <1>4. Created(u, lobby, g) \in Records
    BY <1>1, <1>2, <1>3 DEF Created, Records
  <1>5. Follows(Created(u, lobby, g))
    BY <1>1 DEF Created, Follows, Open, Running, Over
  <1> QED BY <1>4, <1>5 DEF Sound

-----------------------------------------------------------------------------
(* The registries.                                                         *)

Registered ==
    /\ stream \in [Connections -> {"new", "open", "leaving", "closed"}]
    /\ at \in [Connections -> Servers \cup {None}]
    /\ active \in [Servers -> [Users -> Generations \cup {None}]]

Attending(c) == stream[c] \in {"open", "leaving"}

\* A stream is at a server from its opening to its closing.
Placed == \A c \in Connections : Attending(c) <=> at[c] \in Servers

\* An active generation is that of a stream which has been opened, and there.
Activated ==
    \A s \in Servers, u \in Users :
        active[s][u] # None =>
            /\ active[s][u] \in Connections
            /\ stream[active[s][u]] # "new"
            /\ Attending(active[s][u]) => at[active[s][u]] = s

\* A generation is active at one server.
Exclusive ==
    \A s, t \in Servers, u \in Users :
        active[s][u] # None /\ active[s][u] = active[t][u] => s = t

RegistryInv == Registered /\ Placed /\ Activated /\ Exclusive

LEMMA ConnectRegisters ==
  ASSUME RegistryInv, NEW c \in Connections, NEW s \in Servers, Connect(c, s)
  PROVE  RegistryInv'
  <1>1. UserOf[c] \in Users /\ c \in Generations /\ c # None
    BY RegistryAssumption, RecordAssumption DEF Generations
  <1>2. stream[c] = "new"
    BY DEF Connect, Unused
  <1>3. /\ \A d \in Connections : stream'[d] = IF d = c THEN "open" ELSE stream[d]
        /\ \A d \in Connections : at'[d] = IF d = c THEN s ELSE at[d]
        /\ \A t \in Servers, u \in Users :
               active'[t][u] = IF t = s /\ u = UserOf[c] THEN c ELSE active[t][u]
    BY DEF Connect, RegistryInv, Registered
  <1>4. Registered'
    BY <1>1 DEF Connect, RegistryInv, Registered
  <1>5. Placed'
    BY <1>3 DEF RegistryInv, Placed, Attending
  <1>6. Activated'
    BY <1>2, <1>3 DEF RegistryInv, Activated, Attending
  <1>7. \A t \in Servers, u \in Users : active[t][u] # c
    BY <1>1, <1>2 DEF RegistryInv, Activated
  <1>8. Exclusive'
    BY <1>3, <1>7 DEF RegistryInv, Exclusive
  <1> QED BY <1>4, <1>5, <1>6, <1>8 DEF RegistryInv

\* Streams that are closed take nothing from the others.
LEMMA ClosedRegisters ==
  ASSUME RegistryInv, NEW gone \in SUBSET Connections, Closed(gone),
         \A c \in gone : stream[c] # "new",
         \/ UNCHANGED active
         \/ /\ active' \in [Servers -> [Users -> Generations \cup {None}]]
            /\ \A s \in Servers, u \in Users : active'[s][u] \in {active[s][u], None}
  PROVE  RegistryInv'
  <1>1. /\ \A c \in Connections : stream'[c] = IF c \in gone THEN "closed" ELSE stream[c]
        /\ \A c \in Connections : at'[c] = IF c \in gone THEN None ELSE at[c]
    BY DEF Closed
  <1>2. Registered'
    BY DEF Closed, RegistryInv, Registered
  <1>3. Placed'
    BY <1>1, RegistryAssumption DEF RegistryInv, Placed, Attending
  <1>4. \A s \in Servers, u \in Users : active'[s][u] \in {active[s][u], None}
    OBVIOUS
  <1>5. Activated'
    BY <1>1, <1>4 DEF RegistryInv, Activated, Attending
  <1>6. Exclusive'
    BY <1>4 DEF RegistryInv, Exclusive
  <1> QED BY <1>2, <1>3, <1>5, <1>6 DEF RegistryInv

LEMMA ReleasedRegisters ==
  ASSUME RegistryInv, NEW c \in Connections, stream[c] = "open", Released(c)
  PROVE  RegistryInv'
  <1>1. CASE stream' = [stream EXCEPT ![c] = "leaving"] /\ UNCHANGED at
    <2>1. UNCHANGED active
      BY DEF Released
    <2>2. \A d \in Connections : stream'[d] = IF d = c THEN "leaving" ELSE stream[d]
      BY <1>1 DEF RegistryInv, Registered
    <2>3. Registered' /\ Placed'
      BY <1>1, <2>1, <2>2 DEF RegistryInv, Registered, Placed, Attending
    <2>4. Activated' /\ Exclusive'
      BY <1>1, <2>1, <2>2 DEF RegistryInv, Activated, Exclusive, Attending
    <2> QED BY <2>3, <2>4 DEF RegistryInv
  <1>2. CASE Closed({c})
    <2>1. UNCHANGED active
      BY DEF Released
    <2> QED BY <1>2, <2>1, ClosedRegisters
  <1> QED BY <1>1, <1>2 DEF Released

LEMMA ClearedRegisters ==
  ASSUME RegistryInv, NEW c \in Connections, stream[c] = "leaving", Cleared(c)
  PROVE  RegistryInv'
  <1>1. \/ UNCHANGED active
        \/ active' = [active EXCEPT ![at[c]][UserOf[c]] = None]
    BY DEF Cleared
  <1>2. at[c] \in Servers /\ UserOf[c] \in Users
    BY RegistryAssumption DEF RegistryInv, Placed, Attending
  <1>3. active' = [active EXCEPT ![at[c]][UserOf[c]] = None] =>
            /\ active' \in [Servers -> [Users -> Generations \cup {None}]]
            /\ \A s \in Servers, u \in Users : active'[s][u] \in {active[s][u], None}
    BY <1>2 DEF RegistryInv, Registered
  <1> QED BY <1>1, <1>3, ClosedRegisters DEF Cleared

LEMMA LossRegisters ==
  ASSUME RegistryInv, NEW s \in Servers, RegistryLost(s)
  PROVE  RegistryInv'
  <1> DEFINE gone == {c \in Connections : at[c] = s}
  <1>1. Closed(gone) /\ gone \in SUBSET Connections
    BY DEF RegistryLost
  <1>2. \A c \in gone : stream[c] # "new"
    BY DEF RegistryInv, Placed, Attending
  <1>3. active' = [active EXCEPT ![s] = [u \in Users |-> None]]
    BY DEF RegistryLost
  <1>4. /\ active' \in [Servers -> [Users -> Generations \cup {None}]]
        /\ \A t \in Servers, u \in Users : active'[t][u] \in {active[t][u], None}
    BY <1>3 DEF RegistryInv, Registered
  <1> HIDE DEF gone
  <1> QED BY <1>1, <1>2, <1>4, ClosedRegisters

-----------------------------------------------------------------------------
(* The schedule.                                                           *)

\* SweepSchedule has the record's operators under names of its own.
LEMMA SameRecord ==
  /\ S!Generations = Generations
  /\ \A m, u : S!Lapsed(m, u) <=> Lapsed(m, u)
  /\ \A m, u, g : S!Expired(m, u, g) = Expired(m, u, g)
  /\ \A m : S!TimedOut(m) = TimedOut(m)
  <1>1. S!Generations = Generations
    BY DEF S!Generations, Generations
  <1>2. /\ \A m : (S!Open(m) <=> Open(m)) /\ (S!Running(m) <=> Running(m))
        /\ \A m, u : (S!Lapsed(m, u) <=> Lapsed(m, u)) /\ (S!Live(m, u) <=> Live(m, u))
        /\ \A m, u, g : S!Holds(m, u, g) <=> Holds(m, u, g)
    BY DEF S!Open, Open, S!Running, Running, S!Lapsed, Lapsed, S!Live, Live, S!Holds, Holds
  <1>3. /\ \A m, phase : S!Ended(m, phase) = Ended(m, phase)
        /\ \A m : S!Started(m) = Started(m)
        /\ \A m, u : S!Offline(m, u) = Offline(m, u)
    BY DEF S!Ended, Ended, S!Entered, Entered, S!Started, Started, S!Offline, Offline
  <1>4. /\ \A m : S!AllLive(m) <=> AllLive(m)
        /\ \A m : S!AllOffline(m) <=> AllOffline(m)
    BY <1>2 DEF S!AllLive, AllLive, S!AllOffline, AllOffline
  <1>5. ASSUME NEW m PROVE S!Advanced(m) = Advanced(m)
    <2>1. S!Startable(m) <=> Startable(m)
      <3>1. S!Cardinality(m.members) = Cardinality(m.members)
        BY DEF S!Cardinality, Cardinality
      <3> QED BY <1>4, <3>1 DEF S!Startable, Startable
    <2>2. CASE ~Open(m) \/ ~m.quickplay \/ ~Startable(m)
      BY <1>2, <2>1, <2>2 DEF S!Advanced, Advanced
    <2>3. CASE Open(m) /\ m.quickplay /\ Startable(m)
      <3>1. S!Cardinality(m.members) = Cardinality(m.members)
        BY DEF S!Cardinality, Cardinality
      <3> QED BY <1>2, <1>3, <2>1, <2>3, <3>1 DEF S!Advanced, Advanced
    <2> QED BY <2>2, <2>3
  <1>6. \A m, u : S!Successors(m, u) = Successors(m, u)
    BY DEF S!Successors, Successors
  <1>7. ASSUME NEW m, NEW u PROVE S!LeftOpen(m, u) = LeftOpen(m, u)
    <2> DEFINE rest(o) == [m EXCEPT !.owner = o, !.members = @ \ {u}, !.conn[u] = "none",
                                    !.lease[u] = None]
    <2>1. \A o : S!Advanced(rest(o)) = Advanced(rest(o))
      BY <1>5
    <2>2. S!LeftOpen(m, u) = IF Successors(m, u) = {} THEN {Ended(m, "abandoned")}
                             ELSE {S!Advanced(rest(o)) : o \in Successors(m, u)}
      BY <1>3, <1>6 DEF S!LeftOpen
    <2>3. LeftOpen(m, u) = IF Successors(m, u) = {} THEN {Ended(m, "abandoned")}
                           ELSE {Advanced(rest(o)) : o \in Successors(m, u)}
      BY DEF LeftOpen
    <2> HIDE DEF rest
    <2> QED BY <2>1, <2>2, <2>3
  <1>8. \A m, u, g : S!StillLapsed(m, u, g) <=> StillLapsed(m, u, g)
    BY <1>2 DEF S!StillLapsed, StillLapsed
  <1>9. \A m, u, g : S!Expired(m, u, g) = Expired(m, u, g)
    BY <1>2, <1>3, <1>7, <1>8 DEF S!Expired, Expired
  <1>10. \A m : S!TimedOut(m) = TimedOut(m)
    BY <1>2, <1>3, <1>4 DEF S!TimedOut, TimedOut, S!TurnIsOver, TurnIsOver
  <1> QED BY <1>1, <1>2, <1>9, <1>10

LEMMA StageTyping ==
  ASSUME S!ScheduleTypeOK, NEW s \in Servers,
         entry' \in 0 .. RecoveryDelay \cup {None},
         NEW stage \in {"idle", "claimed", "expiring"}, NEW listed \in SUBSET S!Candidates,
         S!Stage(s, stage, listed)
  PROVE  S!ScheduleTypeOK'
  BY DEF S!ScheduleTypeOK, S!Stage

LEMMA ScheduledTyping ==
  ASSUME S!ScheduleTypeOK, NEW deadline \in {NextDelay, RecoveryDelay}, NEW accelerate \in BOOLEAN
  PROVE  S!Scheduled(deadline, accelerate) \in 0 .. RecoveryDelay \cup {None}
  BY PresenceAssumption DEF S!ScheduleTypeOK, S!Scheduled

LEMMA ReconciledTyping ==
  ASSUME S!ScheduleTypeOK, S!Reconcile
  PROVE  S!ScheduleTypeOK'
  <1>1. entry' \in 0 .. RecoveryDelay \cup {None}
    BY ScheduledTyping DEF S!Reconcile, S!Reconciled
  <1> QED BY <1>1 DEF S!Reconcile, S!ScheduleTypeOK

LEMMA LapsedLeasesTyping ==
  ASSUME Sound(match)
  PROVE  S!LapsedLeases \subseteq S!Candidates
  <1>1. \A u \in Users : Lapsed(match, u) => match.lease[u].gen \in Generations
    BY DEF Sound, Records, Leases, Lapsed
  <1> QED BY <1>1, SameRecord DEF S!LapsedLeases, S!Candidates

\* Names of generations are not used up, and they are names.
LEMMA FreshTyping == \A u : Fresh(u) \subseteq Generations
  <1>1. \A G : G # {} => (CHOOSE t \in G : TRUE) \in G
    OBVIOUS
  <1> QED BY <1>1 DEF Fresh, Generations

-----------------------------------------------------------------------------
(* Every step.                                                             *)

PresenceInv ==
    /\ Sound(match)
    /\ RegistryInv
    /\ S!ScheduleTypeOK
    /\ up \subseteq Servers /\ faults \in Nat /\ joins \in Nat

LEMMA Frame ==
  ASSUME PresenceInv, Sound(match'), RegistryInv', S!ScheduleTypeOK',
         UNCHANGED up, faults' \in Nat, joins' \in Nat
  PROVE  PresenceInv'
  BY DEF PresenceInv, Sound, Follows, Open, Running, Over, Records

LEMMA UnchangedSchedule ==
  ASSUME PresenceInv, UNCHANGED <<entry, sweep>>
  PROVE  S!ScheduleTypeOK'
  BY DEF PresenceInv, S!ScheduleTypeOK

LEMMA UnchangedRegistry ==
  ASSUME PresenceInv, UNCHANGED registry
  PROVE  RegistryInv'
  BY DEF PresenceInv, registry, RegistryInv, Registered, Placed, Attending, Activated, Exclusive

LEMMA CallKeeps ==
  ASSUME PresenceInv, NEW outcomes, Call(outcomes), \A next \in outcomes : Sound(next),
         joins' \in Nat
  PROVE  PresenceInv'
  BY Frame, UnchangedSchedule, UnchangedRegistry DEF Call, PresenceInv

LEMMA PlayerKeeps ==
  ASSUME PresenceInv, PlayerStep
  PROVE  PresenceInv'
  <1> USE DEF PresenceInv
  <1>1. ASSUME NEW u \in Users, Join(u)  PROVE PresenceInv'
    <2>1. PICK g \in Fresh(u) : Call({Joined(match, u, g)})
      BY <1>1 DEF Join
    <2>2. Sound(Joined(match, u, g))
      BY <1>1, <2>1, FreshTyping, JoinedIsSound DEF Join, MayJoin
    <2>3. joins' \in Nat
      BY <1>1 DEF Join
    <2> QED BY <2>1, <2>2, <2>3, CallKeeps
  <1>2. ASSUME NEW u \in Users, Leave(u)  PROVE PresenceInv'
    BY <1>2, LeftIsSound, CallKeeps DEF Leave
  <1>3. ASSUME NEW u \in Users, Resign(u)  PROVE PresenceInv'
    <2>1. CASE Call({Ended(match, "abandoned")})
      <3>1. Sound(Ended(match, "abandoned"))
        BY EndedIsSound DEF Sound
      <3> QED BY <1>3, <2>1, <3>1, CallKeeps DEF Resign
    <2>2. CASE Running(match) /\ Call(ResignedRunning(match, u))
      BY <1>3, <2>2, ResignedIsSound, CallKeeps DEF Resign
    <2> QED BY <1>3, <2>1, <2>2 DEF Resign
  <1>4. ASSUME NEW u \in Users, StartMatch(u)  PROVE PresenceInv'
    BY <1>4, StartedIsSound, CallKeeps DEF StartMatch
  <1>5. ASSUME NEW u \in Users, LoadMatch(u)  PROVE PresenceInv'
    BY <1>5, AdvancedIsSound, CallKeeps DEF LoadMatch
  <1>6. CASE RetireStaleLobby
    <2>1. Sound(Ended(match, "abandoned"))
      BY EndedIsSound DEF Sound
    <2> QED BY <1>6, <2>1, CallKeeps DEF RetireStaleLobby
  <1>7. ASSUME NEW c \in Connections, NEW s \in up, Registry(Connect(c, s))
        PROVE  PresenceInv'
    <2>1. Sound(match')
      BY <1>7, ConnectedIsSound DEF Registry, Connect, Generations
    <2>2. RegistryInv'
      BY <1>7, ConnectRegisters DEF Registry
    <2> QED BY <1>7, <2>1, <2>2, Frame, UnchangedSchedule DEF Registry
  <1>8. ASSUME NEW c \in Connections,
               Registry(Close(c)) \/ Registry(MessageRejected(c))
        PROVE  PresenceInv'
    <2>1. stream[c] = "open" /\ Released(c)
      BY <1>8 DEF Registry, Close, MessageRejected
    <2>2. RegistryInv' /\ UNCHANGED match
      BY <2>1, ReleasedRegisters DEF Released
    <2> QED BY <1>8, <2>2, Frame, UnchangedSchedule DEF Registry
  <1>9. ASSUME NEW c \in Connections, Registry(Message(c))
        PROVE  PresenceInv'
    <2>1. UserOf[c] \in Users /\ match.lease[UserOf[c]] # None
      BY <1>9, RegistryAssumption DEF Registry, Message, Holds
    <2>2. Sound(match')
      BY <1>9, <2>1, RenewedIsSound, CommandedIsSound DEF Registry, Message
    <2> QED BY <1>9, <2>2, Frame, UnchangedSchedule, UnchangedRegistry DEF Registry, Message
  <1> QED BY <1>1, <1>2, <1>3, <1>4, <1>5, <1>6, <1>7, <1>8, <1>9 DEF PlayerStep

LEMMA DisconnectKeeps ==
  ASSUME PresenceInv, NEW c \in Connections, Disconnect(c)
  PROVE  PresenceInv'
  <1>1. PICK h \in Fresh(UserOf[c]) : Registry(ParticipantDisconnected(c, h))
    BY DEF Disconnect
  <1>2. UserOf[c] \in Users /\ h \in Generations
    BY <1>1, FreshTyping, RegistryAssumption
  <1>3. Sound(match')
    BY <1>1, <1>2, DisconnectedIsSound DEF PresenceInv, Registry, ParticipantDisconnected
  <1>4. RegistryInv'
    BY <1>1, ClearedRegisters DEF PresenceInv, Registry, ParticipantDisconnected
  <1> QED BY <1>1, <1>3, <1>4, Frame, UnchangedSchedule DEF Registry, PresenceInv

\* The sweep of a server, whether its transactions fail or not.
LEMMA SweepKeeps ==
  ASSUME PresenceInv, NEW s \in Servers, UNCHANGED <<registry, up>>,
         faults' \in Nat, joins' \in Nat,
         S!Claim(s) \/ S!SweepStep(s) \/ S!SweepFails(s)
  PROVE  PresenceInv'
  <1> USE DEF PresenceInv
  <1>0. /\ S!Scheduled(RecoveryDelay, TRUE) \in 0 .. RecoveryDelay \cup {None}
        /\ S!Scheduled(NextDelay, TRUE) \in 0 .. RecoveryDelay \cup {None}
        /\ entry \in 0 .. RecoveryDelay \cup {None}
        /\ S!LapsedLeases \in SUBSET S!Candidates /\ {} \in SUBSET S!Candidates
        /\ \A candidate : sweep[s].listed \ {candidate} \in SUBSET S!Candidates
    BY ScheduledTyping, LapsedLeasesTyping DEF S!ScheduleTypeOK
  <1>1. CASE S!Claim(s)
    BY <1>0, <1>1, StageTyping, Frame, UnchangedRegistry DEF S!Claim
  <1>2. CASE S!BeginSweep(s) \/ S!BeginningFails(s)
    BY <1>0, <1>2, StageTyping, Frame, UnchangedRegistry DEF S!BeginSweep, S!BeginningFails
  <1>3. CASE S!Expire(s)
    <2>1. PICK candidate \in sweep[s].listed :
              /\ match' \in Expired(match, candidate.user, candidate.gen)
              /\ S!Unlisted(s, candidate)
      BY <1>3, SameRecord DEF S!Expire
    <2>2. candidate.user \in Users
      BY DEF S!ScheduleTypeOK, S!Candidates
    <2>3. Sound(match')
      BY <2>1, <2>2, ExpiredIsSound
    <2>4. S!ScheduleTypeOK'
      BY <1>0, <1>3, <2>1, StageTyping DEF S!Expire, S!Unlisted
    <2> QED BY <2>3, <2>4, Frame, UnchangedRegistry
  <1>4. CASE S!ExpiryFails(s)
    BY <1>0, <1>4, StageTyping, Frame, UnchangedRegistry DEF S!ExpiryFails, S!Unlisted
  <1>5. CASE S!EndSweep(s) \/ S!EndingFails(s)
    <2>1. Sound(match')
      BY <1>5, SameRecord, TimedOutIsSound DEF S!EndSweep, S!EndingFails
    <2>2. S!ScheduleTypeOK'
      BY <1>0, <1>5, StageTyping DEF S!EndSweep, S!EndingFails
    <2> QED BY <2>1, <2>2, Frame, UnchangedRegistry
  <1> QED BY <1>1, <1>2, <1>3, <1>4, <1>5 DEF S!SweepStep, S!SweepFails

LEMMA CrashKeeps ==
  ASSUME PresenceInv, NEW s \in Servers, Crash(s)
  PROVE  PresenceInv'
  <1>1. /\ RegistryLost(s) /\ UNCHANGED <<match, entry, up, joins>>
        /\ sweep' = [sweep EXCEPT ![s] = S!Idle] /\ faults' = faults - 1 /\ faults > 0
    BY DEF Crash, Faulty
  <1>2. RegistryInv'
    BY <1>1, LossRegisters DEF PresenceInv
  <1>3. S!ScheduleTypeOK'
    BY <1>1 DEF PresenceInv, S!ScheduleTypeOK, S!Idle
  <1> QED BY <1>1, <1>2, <1>3, Frame DEF PresenceInv

LEMMA TickKeeps ==
  ASSUME PresenceInv, Tick
  PROVE  PresenceInv'
  <1>1. /\ Passes /\ UNCHANGED <<up, joins>>
        /\ faults' = faults \/ (faults' = faults - 1 /\ faults > 0)
    <2>1. CASE Passes /\ UNCHANGED <<up, faults, joins>>
      BY <2>1
    <2>2. CASE Faulty(Passes)
      BY <2>2 DEF Faulty
    <2> QED BY <2>1, <2>2 DEF Tick
  <1>2. Sound(match') /\ RegistryInv'
    BY <1>1, LaterIsSound, UnchangedRegistry DEF Passes, PresenceInv
  <1>3. S!ScheduleTypeOK'
    BY <1>1, PresenceAssumption DEF Passes, PresenceInv, S!ScheduleTypeOK, Down
  <1> QED BY <1>1, <1>2, <1>3, Frame DEF PresenceInv

LEMMA InitiallySound ==
  ASSUME Init
  PROVE  PresenceInv
  <1>1. PICK setup \in Setups, g \in Fresh(Creator) :
            /\ match = Created(Creator, setup.lobby, g)
            /\ up = setup.servers /\ faults = setup.faults /\ joins = setup.joins
    BY DEF Init
  <1>2. /\ setup.lobby \in Lobbies /\ setup.servers \subseteq Servers
        /\ setup.faults \in Nat /\ setup.joins \in Nat
    BY PresenceAssumption
  <1>3. Sound(match)
    BY <1>1, <1>2, CreatedIsSound, FreshTyping, PresenceAssumption
  <1>4. RegistryInv
    BY RegistryAssumption
       DEF Init, RegistryInit, RegistryInv, Registered, Placed, Attending, Activated, Exclusive
  <1>5. S!ScheduleTypeOK
    BY PresenceAssumption DEF Init, S!ScheduleInit, S!ScheduleTypeOK, S!Idle
  <1> QED BY <1>1, <1>2, <1>3, <1>4, <1>5 DEF PresenceInv

LEMMA NextKeeps ==
  ASSUME PresenceInv, [Next]_vars
  PROVE  PresenceInv'
  <1> USE DEF PresenceInv
  <1>1. CASE UNCHANGED vars
    <2>1. UNCHANGED <<match, entry, sweep, up, faults, joins>> /\ UNCHANGED registry
      BY <1>1 DEF vars, registry
    <2> QED BY <2>1, Frame, UnchangedSchedule, UnchangedRegistry
  <1>2. CASE PlayerStep
    BY <1>2, PlayerKeeps
  <1>3. CASE ServerStep
    <2>1. ASSUME NEW c \in Connections, Disconnect(c) PROVE PresenceInv'
      BY <2>1, DisconnectKeeps
    <2>2. ASSUME NEW s \in up, Sweeping(S!Claim(s)) \/ Sweeping(S!SweepStep(s))
          PROVE  PresenceInv'
      BY <2>2, SweepKeeps DEF Sweeping
    <2>3. CASE Sweeping(S!Reconcile)
      <3>1. UNCHANGED <<match, up, faults, joins>> /\ UNCHANGED registry
        BY <2>3 DEF Sweeping, S!Reconcile
      <3> QED BY <2>3, <3>1, ReconciledTyping, UnchangedRegistry, Frame DEF Sweeping
    <2> QED BY <1>3, <2>1, <2>2, <2>3 DEF ServerStep
  <1>4. CASE Fault
    <2>1. ASSUME NEW c \in Connections, StreamFault(c) PROVE PresenceInv'
      <3>1. /\ stream[c] = "leaving" /\ Cleared(c) /\ UNCHANGED <<match, entry, sweep, up, joins>>
            /\ faults' = faults - 1 /\ faults > 0
        BY <2>1 DEF StreamFault, Faulty, DisconnectionFails
      <3> QED BY <3>1, ClearedRegisters, UnchangedSchedule, Frame
    <2>2. ASSUME NEW s \in up, SweepFault(s) PROVE PresenceInv'
      BY <2>2, SweepKeeps DEF SweepFault, Faulty
    <2>3. ASSUME NEW s \in up, Crash(s) PROVE PresenceInv'
      BY <2>3, CrashKeeps
    <2> QED BY <1>4, <2>1, <2>2, <2>3 DEF Fault
  <1>5. CASE Tick
    BY <1>5, TickKeeps
  <1> QED BY <1>1, <1>2, <1>3, <1>4, <1>5 DEF Next, Move

\* The inductive invariant: the record is sound, the registries agree with the
\* streams and with each other, and the schedule is typed.
THEOREM PresenceInvariant == Spec => []PresenceInv
  <1>1. Init => PresenceInv
    BY InitiallySound
  <1>2. PresenceInv /\ [Next]_vars => PresenceInv'
    BY NextKeeps
  <1> QED BY <1>1, <1>2, PTL DEF Spec

\* For any number of players, streams, servers, joins and faults: only who
\* waits in the lobby or is connected in the running match holds a lease, and
\* who has lost it is shown offline.
\* (match_lifecycle_service*.dart, match_participant_connection_coordinator.dart)
THEOREM LeasesFollow == Spec => []LeasesFollowMembership
  <1>1. PresenceInv => LeasesFollowMembership
    BY DEF PresenceInv, Sound, Follows, RegistryInv, Registered, LeasesFollowMembership,
           TypeOK, RegistryTypeOK, Deserted
  <1> QED BY <1>1, PresenceInvariant, PTL

-----------------------------------------------------------------------------
(* Nobody who is attached is taken for gone.                               *)

Kept(u) == match'.lease[u] = match.lease[u] /\ match'.conn[u] = match.conn[u]

\* A player's step runs neither a sweep nor a queued disconnection.
LEMMA PlayersDoNotRun ==
  ASSUME PresenceInv, PlayerStep
  PROVE  ~Runs
  <1>1. UNCHANGED sweep
    BY DEF PlayerStep, Join, Leave, Resign, StartMatch, LoadMatch, RetireStaleLobby, Call,
           Registry
  <1>2. CASE UNCHANGED registry
    BY <1>1, <1>2 DEF Runs, registry
  <1>3. CASE \E c \in Connections : stream[c] # "leaving" /\
                 \A d \in Connections \ {c} : stream'[d] = stream[d]
    BY <1>1, <1>3 DEF Runs
  <1>4. ASSUME NEW c \in Connections, NEW s \in up, Registry(Connect(c, s))
        PROVE  ~Runs
    <2>1. stream[c] = "new" /\ \A d \in Connections \ {c} : stream'[d] = stream[d]
      BY <1>4 DEF Registry, Connect, Unused, PresenceInv, RegistryInv, Registered
    <2> QED BY <1>3, <2>1
  <1>5. ASSUME NEW c \in Connections, stream[c] = "open", Released(c)
        PROVE  ~Runs
    <2>1. \A d \in Connections \ {c} : stream'[d] = stream[d]
      BY <1>5 DEF Released, Closed, PresenceInv, RegistryInv, Registered
    <2> QED BY <1>3, <1>5, <2>1
  <1> QED BY <1>2, <1>4, <1>5
          DEF PlayerStep, Join, Leave, Resign, StartMatch, LoadMatch, RetireStaleLobby, Call,
              Registry, Close, Message, MessageRejected

\* The disconnection that is queued for a server where the player has no
\* stream left does not name the generation of a stream elsewhere.
LEMMA DisconnectSpares ==
  ASSUME PresenceInv, NEW c \in Connections, Disconnect(c), NEW u \in Users, Attached(u)
  PROVE  Kept(u)
  <1>1. PICK h \in Fresh(UserOf[c]) : Registry(ParticipantDisconnected(c, h))
    BY DEF Disconnect
  <1>2. UserOf[c] \in Users /\ h \in Generations /\ stream[c] = "leaving"
    BY <1>1, FreshTyping, RegistryAssumption DEF Registry, ParticipantDisconnected
  <1>3. CASE match' = match
    BY <1>3 DEF Kept
  <1>4. CASE /\ OpenAt(at[c], UserOf[c]) = {}
             /\ match' = Disconnected(match, UserOf[c], CurrentGeneration(c), h)
    <2>1. CASE u # UserOf[c]
      BY <1>2, <1>4, <2>1, DisconnectedIsSound DEF PresenceInv, Kept
    <2>2. CASE u = UserOf[c]
      <3>1. PICK s \in Servers : OpenAt(s, u) # {} /\ active[s][u] = match.lease[u].gen
        BY DEF Attached
      <3>2. s # at[c] /\ at[c] \in Servers
        BY <1>2, <1>4, <2>2, <3>1 DEF PresenceInv, RegistryInv, Placed, Attending
      <3>3. active[s][u] # None
        <4>1. match.lease[u] \in Leases
          BY DEF Attached, PresenceInv, Sound, Records
        <4> QED BY <3>1, <4>1, RecordAssumption DEF Leases
      <3>4. active[at[c]][u] # active[s][u]
        BY <3>2, <3>3 DEF PresenceInv, RegistryInv, Exclusive
      <3>5. active[s][u] # c
        BY <1>2, <3>2, <3>3 DEF PresenceInv, RegistryInv, Activated, Attending
      <3>6. ~Holds(match, u, CurrentGeneration(c))
        BY <2>2, <3>1, <3>4, <3>5 DEF Holds, CurrentGeneration
      <3>7. match' = match
        BY <1>4, <2>2, <3>6 DEF Disconnected
      <3> QED BY <3>7 DEF Kept
    <2> QED BY <2>1, <2>2
  <1> QED BY <1>1, <1>3, <1>4 DEF Registry, ParticipantDisconnected

\* A sweep takes what has lapsed, and who is attached has time left.
LEMMA SweepSpares ==
  ASSUME PresenceInv, NEW s \in Servers, NEW u \in Users, Attached(u), ~Over(match'),
         S!Claim(s) \/ S!SweepStep(s) \/ S!SweepFails(s)
  PROVE  Kept(u)
  <1>1. ~Lapsed(match, u)
    <2>1. match.lease[u] \in Leases /\ match.lease[u].left > 0
      BY DEF Attached, PresenceInv, Sound, Records
    <2> QED BY <2>1 DEF Lapsed
  <1>2. CASE match' = match
    BY <1>2 DEF Kept
  <1>3. CASE S!Expire(s)
    <2>1. PICK candidate \in sweep[s].listed :
              match' \in Expired(match, candidate.user, candidate.gen)
      BY <1>3, SameRecord DEF S!Expire
    <2>2. candidate.user \in Users
      BY DEF PresenceInv, S!ScheduleTypeOK, S!Candidates
    <2> QED BY <1>1, <2>1, <2>2, ExpiredIsSound DEF PresenceInv, Kept
  <1>4. CASE match' \in TimedOut(match)
    BY <1>4, TimedOutIsSound DEF PresenceInv, Kept
  <1>5. \/ match' = match
        \/ S!Expire(s)
        \/ match' \in TimedOut(match)
    BY SameRecord DEF S!Claim, S!SweepStep, S!SweepFails, S!BeginSweep, S!EndSweep,
                      S!BeginningFails, S!ExpiryFails, S!EndingFails
  <1> QED BY <1>2, <1>3, <1>4, <1>5

\* For any number of streams and servers: no sweep and no disconnection takes
\* the presence of a player who is attached, however late it runs.
\* (match_connection_registry.dart, match_lifecycle_service_presence_expiry.dart)
THEOREM AttachedAreSpared == Spec => TakenOnlyWhenLost
  <1>1. ASSUME PresenceInv, [Next]_vars, Runs, NEW u \in Users, Attached(u), ~Over(match')
        PROVE  Kept(u)
    <2>1. CASE PlayerStep
      BY <1>1, <2>1, PlayersDoNotRun
    <2>2. ASSUME NEW c \in Connections, Disconnect(c) PROVE Kept(u)
      BY <1>1, <2>2, DisconnectSpares
    <2>3. ASSUME NEW s \in up,
                 Sweeping(S!Claim(s)) \/ Sweeping(S!SweepStep(s)) \/ SweepFault(s)
          PROVE  Kept(u)
      <3>1. s \in Servers /\ (S!Claim(s) \/ S!SweepStep(s) \/ S!SweepFails(s))
        BY <1>1, <2>3 DEF PresenceInv, Sweeping, SweepFault, Faulty
      <3> QED BY <1>1, <3>1, SweepSpares
    <2>4. CASE UNCHANGED match
      BY <2>4 DEF Kept
    <2>5. CASE Sweeping(S!Reconcile) \/ \E c \in Connections : StreamFault(c)
      BY <2>4, <2>5 DEF Sweeping, S!Reconcile, StreamFault, Faulty, DisconnectionFails
    <2>6. ASSUME NEW s \in up, Crash(s) PROVE Kept(u)
      BY <2>4, <2>6 DEF Crash, Faulty
    <2>7. CASE Tick
      <3>1. UNCHANGED <<stream, sweep>>
        BY <2>7 DEF Tick, Faulty, Passes, registry
      <3> QED BY <1>1, <3>1 DEF Runs
    <2>8. CASE UNCHANGED vars
      BY <2>4, <2>8 DEF vars
    <2> QED BY <1>1, <2>1, <2>2, <2>3, <2>5, <2>6, <2>7, <2>8
            DEF Next, Move, ServerStep, Fault
  <1>2. PresenceInv /\ [Next]_vars =>
            [Runs => \A u \in Users :
                 Attached(u) /\ ~Over(match') =>
                     match'.lease[u] = match.lease[u] /\ match'.conn[u] = match.conn[u]]_vars
    BY <1>1 DEF Kept
  <1> QED BY <1>2, PresenceInvariant, PTL DEF Spec, TakenOnlyWhenLost

-----------------------------------------------------------------------------
(* Clocks and histories.  The record's clocks are compared with the        *)
(* histories that are kept beside it.  A clock never shows more than its   *)
(* history, and every transaction that a history counts as a beginning     *)
(* resets the clock.                                                       *)

\* The clocks stand at zero outside a running match.
Still(m) == ~Running(m) => m.turnAge = 0 /\ m.idle = 0

Nobody(m) == \A u \in Users : m.lease[u] = None

\* What a transaction that leads from m to n does to the clocks.
Resets(m, n) ==
    /\ Still(n)
    /\ n.turnAge \in {m.turnAge, 0} /\ n.idle \in {m.idle, 0}
    /\ n.conn # m.conn => n.idle = 0
    /\ Nobody(m) /\ ~Nobody(n) => n.turnAge = 0

-----------------------------------------------------------------------------
(* Every transaction.                                                      *)

LEMMA ResetsNothing ==
  ASSUME NEW m, Still(m)
  PROVE  Resets(m, m)
  BY DEF Resets

\* In the lobby the clocks stand still whatever is done.
LEMMA OpenResets ==
  ASSUME NEW m, Still(m), Open(m), NEW n,
         n.turnAge = m.turnAge, n.idle = m.idle
  PROVE  Resets(m, n)
  BY DEF Resets, Still, Open, Running

LEMMA ResetsTwice ==
  ASSUME NEW m, NEW n, NEW o, Resets(m, n), Resets(n, o)
  PROVE  Resets(m, o)
  <1>1. /\ Still(o)
        /\ o.turnAge \in {m.turnAge, 0} /\ o.idle \in {m.idle, 0}
    BY DEF Resets
  <1>2. o.conn # m.conn => o.idle = 0
    BY DEF Resets
  <1>3. Nobody(m) /\ ~Nobody(o) => o.turnAge = 0
    BY DEF Resets
  <1> QED BY <1>1, <1>2, <1>3 DEF Resets

LEMMA EnteredResets ==
  ASSUME NEW m \in Records, NEW phase \in {"running", "finished", "abandoned"}
  PROVE  Resets(m, Entered(m, phase))
  <1>1. /\ Entered(m, phase).turnAge = 0 /\ Entered(m, phase).idle = 0
        /\ Entered(m, phase).lease = m.lease
    BY DEF Entered, Records
  <1> QED BY <1>1 DEF Resets, Still, Nobody

LEMMA EndedResets ==
  ASSUME NEW m \in Records, NEW phase \in {"finished", "abandoned"}
  PROVE  /\ Resets(m, Ended(m, phase))
         /\ Ended(m, phase).turnAge = 0 /\ Ended(m, phase).idle = 0
         /\ Ended(m, phase).phase = phase
  <1>1. /\ Ended(m, phase).turnAge = 0 /\ Ended(m, phase).idle = 0
        /\ Ended(m, phase).phase = phase
    BY DEF Ended, Entered, Records
  <1> QED BY <1>1 DEF Resets, Still

LEMMA AdvancedResets ==
  ASSUME NEW m \in Records, Still(m)
  PROVE  Resets(m, Advanced(m))
  <1>1. CASE Advanced(m) = m
    BY <1>1, ResetsNothing
  <1>2. ASSUME NEW k, Open(m), Advanced(m) = [m EXCEPT !.countdown = k]
        PROVE  Resets(m, Advanced(m))
    <2>1. Advanced(m).turnAge = m.turnAge /\ Advanced(m).idle = m.idle
      BY <1>2 DEF Records
    <2> QED BY <1>2, <2>1, OpenResets
  <1>3. CASE Advanced(m) = Started(m)
    BY <1>3, EnteredResets DEF Started
  <1> QED BY <1>1, <1>2, <1>3 DEF Advanced

LEMMA JoinedResets ==
  ASSUME NEW m, Sound(m), Still(m), Open(m), NEW u \in Users, NEW g \in Generations
  PROVE  Resets(m, Joined(m, u, g))
  <1> DEFINE seated == [m EXCEPT !.members = @ \cup {u}, !.conn[u] = "connecting",
                                 !.lease[u] = Lease(g, InitialLease)]
  <1>1. Lease(g, InitialLease) \in Leases
    BY LeaseTyping DEF Spans
  <1>2. seated \in Records /\ seated.turnAge = m.turnAge /\ seated.idle = m.idle
    BY <1>1 DEF Sound, Records
  <1>3. Resets(m, seated)
    BY <1>2, OpenResets
  <1>4. Resets(seated, Advanced(seated))
    BY <1>2, <1>3, AdvancedResets DEF Resets
  <1>5. Resets(m, Advanced(seated))
    BY <1>3, <1>4, ResetsTwice
  <1> QED BY <1>5, AdvancedResets DEF Joined, Sound

LEMMA LeftOpenResets ==
  ASSUME NEW m, Sound(m), Still(m), Open(m), NEW u \in Users, NEW next \in LeftOpen(m, u)
  PROVE  Resets(m, next)
  <1>1. CASE next = Ended(m, "abandoned")
    BY <1>1, EndedResets DEF Sound
  <1>2. ASSUME NEW o \in Successors(m, u),
               next = Advanced([m EXCEPT !.owner = o, !.members = @ \ {u},
                                         !.conn[u] = "none", !.lease[u] = None])
        PROVE  Resets(m, next)
    <2> DEFINE rest == [m EXCEPT !.owner = o, !.members = @ \ {u},
                                 !.conn[u] = "none", !.lease[u] = None]
    <2>1. o \in Users \cup {None}
      BY <1>2 DEF Successors, Sound, Records
    <2>2. rest \in Records /\ rest.turnAge = m.turnAge /\ rest.idle = m.idle
      BY <2>1 DEF Sound, Records
    <2> HIDE DEF rest
    <2>3. Resets(m, rest)
      BY <2>2, OpenResets
    <2>4. Resets(rest, Advanced(rest))
      BY <2>2, <2>3, AdvancedResets DEF Resets
    <2> QED BY <1>2, <2>3, <2>4, ResetsTwice DEF rest
  <1> QED BY <1>1, <1>2 DEF LeftOpen

\* Going offline is an activity; it leaves the turn's clock alone.
LEMMA OfflineResets ==
  ASSUME NEW m, Sound(m), Still(m), Running(m), NEW u \in Users
  PROVE  Resets(m, Offline(m, u))
  <1>1. /\ Offline(m, u).turnAge = m.turnAge /\ Offline(m, u).idle = 0
        /\ Offline(m, u).phase = m.phase
        /\ \A v \in Users : Offline(m, u).lease[v] \in {m.lease[v], None}
    BY DEF Offline, Sound, Records
  <1> QED BY <1>1 DEF Resets, Still, Running, Nobody

LEMMA DeletionResets ==
  ASSUME NEW m, Sound(m), Still(m), NEW u \in Users
  PROVE  Resets(m, [m EXCEPT !.lease[u] = None])
  <1> DEFINE next == [m EXCEPT !.lease[u] = None]
  <1>1. /\ next.turnAge = m.turnAge /\ next.idle = m.idle /\ next.phase = m.phase
        /\ next.conn = m.conn
        /\ \A v \in Users : next.lease[v] \in {m.lease[v], None}
    BY DEF Sound, Records
  <1> HIDE DEF next
  <1>2. Resets(m, next)
    BY <1>1 DEF Resets, Still, Running, Nobody
  <1> QED BY <1>2 DEF next

\* Who comes to a running match in which nobody is live starts its clock.
LEMMA ConnectedResets ==
  ASSUME NEW m, Sound(m), Still(m), NEW u \in m.members, NEW g \in Generations
  PROVE  Resets(m, Connected(m, u, g))
  <1> DEFINE turnAge == IF RestartsClock(m) THEN 0 ELSE m.turnAge
             changed == m.conn[u] # "connected" \/ RestartsClock(m)
             idle == IF Running(m) /\ changed THEN 0 ELSE m.idle
             next == [m EXCEPT !.conn[u] = "connected",
                               !.lease[u] = Lease(g, ConnectedLease),
                               !.turnAge = turnAge, !.idle = idle]
  <1>1. Lease(g, ConnectedLease) \in Leases
    BY LeaseTyping DEF Spans
  <1>2. turnAge \in 0 .. TurnTimeout /\ idle \in 0 .. InactivityTimeout
    BY RecordAssumption, RecordTyping DEF Sound
  <1>3. u \in Users
    BY DEF Sound, Records
  <1>4. /\ turnAge \in {m.turnAge, 0} /\ idle \in {m.idle, 0}
        /\ Running(m) /\ m.conn[u] # "connected" => idle = 0
        /\ Running(m) /\ Nobody(m) => turnAge = 0
    BY DEF RestartsClock, AllOffline, Live, Nobody, Sound, Records
  <1> HIDE DEF turnAge, idle, changed
  <1>5. next \in Records
    BY <1>1, <1>2, <1>3 DEF Sound, Records
  <1>6. /\ next.phase = m.phase /\ next.turnAge = turnAge /\ next.idle = idle
        /\ m.conn[u] = "connected" => next.conn = m.conn
    BY <1>3 DEF Sound, Records
  <1> HIDE DEF next
  <1>7. Resets(m, next)
    BY <1>4, <1>6 DEF Resets, Still, Running
  <1>8. Resets(next, Advanced(next))
    BY <1>5, <1>7, AdvancedResets DEF Resets
  <1>9. Connected(m, u, g) = IF Over(m) THEN m ELSE Advanced(next)
    BY DEF Connected, next, turnAge, idle, changed
  <1> QED BY <1>7, <1>8, <1>9, ResetsNothing, ResetsTwice

LEMMA DisconnectedResets ==
  ASSUME NEW m, Sound(m), Still(m), NEW u \in Users, NEW g, NEW h \in Generations
  PROVE  Resets(m, Disconnected(m, u, g, h))
  <1> DEFINE waiting == [m EXCEPT !.conn[u] = "reconnecting",
                                  !.lease[u] = Lease(h, ReconnectLease)]
  <1>1. CASE Open(m) /\ Disconnected(m, u, g, h) = Advanced(waiting)
    <2>1. Lease(h, ReconnectLease) \in Leases
      BY LeaseTyping DEF Spans
    <2>2. waiting \in Records /\ waiting.turnAge = m.turnAge /\ waiting.idle = m.idle
      BY <2>1 DEF Sound, Records
    <2> HIDE DEF waiting
    <2>3. Resets(m, waiting)
      BY <1>1, <2>2, OpenResets
    <2>4. Resets(waiting, Advanced(waiting))
      BY <2>2, <2>3, AdvancedResets DEF Resets
    <2> QED BY <1>1, <2>3, <2>4, ResetsTwice
  <1>2. CASE Running(m) /\ Disconnected(m, u, g, h) = Offline(m, u)
    BY <1>2, OfflineResets
  <1>3. CASE Disconnected(m, u, g, h) \in {m, [m EXCEPT !.lease[u] = None]}
    BY <1>3, ResetsNothing, DeletionResets
  <1> QED BY <1>1, <1>2, <1>3, RecordTyping DEF Disconnected, Sound

LEMMA ExpiredResets ==
  ASSUME NEW m, Sound(m), Still(m), NEW u \in Users, NEW g, NEW next \in Expired(m, u, g)
  PROVE  Resets(m, next)
  BY ResetsNothing, LeftOpenResets, OfflineResets, DeletionResets DEF Expired

LEMMA RenewedResets ==
  ASSUME NEW m, Sound(m), Still(m), NEW u \in Users, m.lease[u] # None
  PROVE  Resets(m, Renewed(m, u))
  <1>1. /\ Renewed(m, u).turnAge = m.turnAge /\ Renewed(m, u).idle = m.idle
        /\ Renewed(m, u).phase = m.phase /\ Renewed(m, u).conn = m.conn
    BY DEF Renewed, Sound, Records
  <1>2. ~Nobody(m)
    BY DEF Nobody
  <1> QED BY <1>1, <1>2 DEF Resets, Still, Running

\* A command is accepted in a running match.
LEMMA CommandedResets ==
  ASSUME NEW m, Sound(m), Still(m), Running(m), NEW next \in Commanded(m)
  PROVE  Resets(m, next) /\ next.idle = 0
  <1>1. CASE next = Ended(m, "finished")
    BY <1>1, EndedResets DEF Sound
  <1>2. CASE next \in {[m EXCEPT !.idle = 0], [m EXCEPT !.idle = 0, !.turnAge = 0]}
    <2>1. /\ next.idle = 0 /\ next.turnAge \in {m.turnAge, 0} /\ next.phase = m.phase
          /\ next.lease = m.lease
      BY <1>2 DEF Sound, Records
    <2> QED BY <2>1 DEF Resets, Still, Running, Nobody
  <1> QED BY <1>1, <1>2 DEF Commanded

LEMMA TimedOutResets ==
  ASSUME NEW m, Sound(m), Still(m), NEW next \in TimedOut(m)
  PROVE  Resets(m, next)
  <1>1. CASE next = m
    BY <1>1, ResetsNothing
  <1>2. CASE next \in {Ended(m, "abandoned"), Ended(m, "finished")}
    BY <1>2, EndedResets DEF Sound
  <1>3. CASE Running(m) /\ next = [m EXCEPT !.turnAge = 0]
    <2>1. /\ next.idle = m.idle /\ next.turnAge = 0 /\ next.phase = m.phase
          /\ next.conn = m.conn
      BY <1>3 DEF Sound, Records
    <2> QED BY <1>3, <2>1 DEF Resets, Still, Running
  <1> QED BY <1>1, <1>2, <1>3 DEF TimedOut

LEMMA LeftResets ==
  ASSUME NEW m, Sound(m), Still(m), NEW u \in Users, NEW next \in Left(m, u)
  PROVE  Resets(m, next)
  BY LeftOpenResets, OfflineResets, ResetsNothing DEF Left

LEMMA ResignedResets ==
  ASSUME NEW m, Sound(m), Still(m), Running(m), NEW u \in Users,
         NEW next \in ResignedRunning(m, u)
  PROVE  Resets(m, next)
  <1> DEFINE away == Offline(m, u)
             resigned == [away EXCEPT !.resigned = @ \cup {u}]
  <1>1. Sound(away) /\ Running(away) /\ Resets(m, away)
    BY OfflineIsSound, OfflineResets
  <1> HIDE DEF away
  <1>2. /\ resigned \in Records /\ resigned.phase = away.phase
        /\ resigned.turnAge = away.turnAge /\ resigned.idle = away.idle
        /\ resigned.conn = away.conn /\ resigned.lease = away.lease
    BY <1>1 DEF Sound, Records
  <1> HIDE DEF resigned
  <1>3. Resets(m, resigned)
    BY <1>1, <1>2 DEF Resets, Still, Running, Nobody
  <1>4. CASE next = [m EXCEPT !.lease[u] = None]
    BY <1>4, DeletionResets
  <1>5. CASE next = resigned
    BY <1>3, <1>5
  <1>6. CASE next \in {Ended(resigned, "abandoned"), Ended(resigned, "finished")}
    BY <1>2, <1>3, <1>6, EndedResets, ResetsTwice
  <1> QED BY <1>4, <1>5, <1>6 DEF ResignedRunning, resigned, away
-----------------------------------------------------------------------------
(* Every move.                                                             *)

MatchResets == Resets(match, match')

LEMMA CallResets ==
  ASSUME NEW outcomes, Call(outcomes), \A next \in outcomes : Resets(match, next)
  PROVE  MatchResets
  BY DEF Call, MatchResets

LEMMA PlayerResets ==
  ASSUME PresenceInv, Still(match), PlayerStep
  PROVE  MatchResets
  <1> USE DEF PresenceInv
  <1>0. match \in Records
    BY DEF Sound
  <1>1. ASSUME NEW u \in Users, Join(u)  PROVE MatchResets
    <2>1. PICK g \in Fresh(u) : Call({Joined(match, u, g)})
      BY <1>1 DEF Join
    <2>2. Resets(match, Joined(match, u, g))
      BY <1>1, <2>1, FreshTyping, JoinedResets DEF Join, MayJoin
    <2> QED BY <2>1, <2>2, CallResets
  <1>2. ASSUME NEW u \in Users, Leave(u)  PROVE MatchResets
    BY <1>2, LeftResets, CallResets DEF Leave
  <1>3. ASSUME NEW u \in Users, Resign(u)  PROVE MatchResets
    <2>1. CASE Call({Ended(match, "abandoned")})
      <3>1. Resets(match, Ended(match, "abandoned"))
        BY <1>0, EndedResets
      <3> QED BY <2>1, <3>1, CallResets
    <2>2. CASE Running(match) /\ Call(ResignedRunning(match, u))
      BY <1>3, <2>2, ResignedResets, CallResets
    <2> QED BY <1>3, <2>1, <2>2 DEF Resign
  <1>4. ASSUME NEW u \in Users, StartMatch(u)  PROVE MatchResets
    <2>1. Resets(match, Started(match))
      BY <1>0, EnteredResets DEF Started
    <2> QED BY <1>4, <2>1, CallResets DEF StartMatch
  <1>5. ASSUME NEW u \in Users, LoadMatch(u)  PROVE MatchResets
    BY <1>0, <1>5, AdvancedResets, CallResets DEF LoadMatch
  <1>6. CASE RetireStaleLobby
    <2>1. Resets(match, Ended(match, "abandoned"))
      BY <1>0, EndedResets
    <2> QED BY <1>6, <2>1, CallResets DEF RetireStaleLobby
  <1>7. ASSUME NEW c \in Connections, NEW s \in up, Registry(Connect(c, s))
        PROVE  MatchResets
    BY <1>7, ConnectedResets DEF Registry, Connect, Generations, MatchResets
  <1>8. ASSUME NEW c \in Connections,
               Registry(Close(c)) \/ Registry(MessageRejected(c))
        PROVE  MatchResets
    <2>1. match' = match
      BY <1>8 DEF Registry, Close, MessageRejected, Released
    <2> QED BY <2>1, ResetsNothing DEF MatchResets
  <1>9. ASSUME NEW c \in Connections, Registry(Message(c))
        PROVE  MatchResets
    <2> DEFINE u == UserOf[c]
               renewed == Renewed(match, u)
    <2>1. u \in Users /\ match.lease[u] # None
      BY <1>9, RegistryAssumption DEF Registry, Message, Holds
    <2>2. Sound(renewed) /\ renewed.phase = match.phase /\ Resets(match, renewed)
      BY <2>1, RenewedIsSound, RenewedResets
    <2>3. match' = renewed \/ (Running(match) /\ match' \in Commanded(renewed))
      BY <1>9 DEF Registry, Message
    <2> HIDE DEF renewed
    <2>4. Running(match) /\ match' \in Commanded(renewed) => Resets(renewed, match')
      BY <2>2, CommandedResets DEF Resets, Running
    <2> QED BY <2>2, <2>3, <2>4, ResetsTwice DEF MatchResets
  <1> QED BY <1>1, <1>2, <1>3, <1>4, <1>5, <1>6, <1>7, <1>8, <1>9 DEF PlayerStep

\* What a sweep of a server does to the match, whether it fails or not.
LEMMA SweepOutcomes ==
  ASSUME PresenceInv, NEW s \in Servers, S!Claim(s) \/ S!SweepStep(s) \/ S!SweepFails(s)
  PROVE  \/ match' = match
         \/ \E u \in Users : \E g : sweep'[s].stage = "expiring" /\ match' \in Expired(match, u, g)
         \/ match' \in TimedOut(match)
  <1>1. CASE S!Expire(s)
    <2>1. PICK candidate \in sweep[s].listed :
              /\ match' \in Expired(match, candidate.user, candidate.gen)
              /\ S!Unlisted(s, candidate)
      BY <1>1, SameRecord DEF S!Expire
    <2>2. candidate.user \in Users
      BY DEF PresenceInv, S!ScheduleTypeOK, S!Candidates
    <2>3. sweep'[s].stage = "expiring"
      BY <2>1 DEF S!Unlisted, S!Stage, PresenceInv, S!ScheduleTypeOK
    <2> QED BY <2>1, <2>2, <2>3
  <1> QED BY <1>1, SameRecord
          DEF S!Claim, S!SweepStep, S!SweepFails, S!BeginSweep, S!EndSweep,
              S!BeginningFails, S!ExpiryFails, S!EndingFails

LEMMA SweepResets ==
  ASSUME PresenceInv, Still(match), NEW s \in Servers,
         S!Claim(s) \/ S!SweepStep(s) \/ S!SweepFails(s)
  PROVE  MatchResets
  BY SweepOutcomes, ResetsNothing, ExpiredResets, TimedOutResets DEF MatchResets, PresenceInv

LEMMA MoveResets ==
  ASSUME PresenceInv, Still(match), Move
  PROVE  MatchResets
  <1>1. CASE PlayerStep
    BY <1>1, PlayerResets
  <1>2. ASSUME NEW c \in Connections, Disconnect(c) PROVE MatchResets
    <2>1. PICK h \in Fresh(UserOf[c]) : Registry(ParticipantDisconnected(c, h))
      BY <1>2 DEF Disconnect
    <2>2. UserOf[c] \in Users /\ h \in Generations
      BY <2>1, FreshTyping, RegistryAssumption
    <2> QED BY <2>1, <2>2, DisconnectedResets, ResetsNothing
            DEF Registry, ParticipantDisconnected, PresenceInv, MatchResets
  <1>3. ASSUME NEW s \in up,
               Sweeping(S!Claim(s)) \/ Sweeping(S!SweepStep(s)) \/ SweepFault(s)
        PROVE  MatchResets
    <2>1. s \in Servers /\ (S!Claim(s) \/ S!SweepStep(s) \/ S!SweepFails(s))
      BY <1>3 DEF PresenceInv, Sweeping, SweepFault, Faulty
    <2> QED BY <2>1, SweepResets
  <1>4. CASE \/ Sweeping(S!Reconcile)
             \/ \E c \in Connections : StreamFault(c)
             \/ \E s \in up : Crash(s)
    <2>1. match' = match
      BY <1>4 DEF Sweeping, S!Reconcile, StreamFault, DisconnectionFails, Crash, Faulty
    <2> QED BY <2>1, ResetsNothing DEF MatchResets
  <1> QED BY <1>1, <1>2, <1>3, <1>4 DEF Move, ServerStep, Fault

-----------------------------------------------------------------------------
(* The clocks and the histories.                                           *)

Timed ==
    /\ attended \in 0 .. TurnTimeout /\ quiet \in 0 .. InactivityTimeout
    /\ Still(match)
    /\ ~Deserted => match.turnAge <= attended
    /\ match.idle <= quiet

HistoryInv == PresenceInv /\ Timed

LEMMA MoveKeepsTime ==
  ASSUME PresenceInv, PresenceInv', Timed, Move,
         attended' = IF ~Running(match') \/ Deserted' \/ TurnBegins THEN 0 ELSE attended,
         quiet' = IF ~Running(match') \/ Active THEN 0 ELSE quiet
  PROVE  Timed'
  <1>1. /\ Still(match')
        /\ match'.turnAge \in {match.turnAge, 0} /\ match'.idle \in {match.idle, 0}
        /\ match'.conn # match.conn => match'.idle = 0
        /\ Deserted /\ ~Deserted' => match'.turnAge = 0
    BY MoveResets DEF MatchResets, Resets, Nobody, Deserted, Timed
  <1>2. /\ match.turnAge \in Nat /\ match.idle \in Nat
        /\ match'.turnAge \in 0 .. TurnTimeout /\ match'.idle \in 0 .. InactivityTimeout
        /\ TurnTimeout \in Nat /\ InactivityTimeout \in Nat
    BY RecordTyping, RecordAssumption DEF PresenceInv, Sound
  <1>3. ASSUME NEW c \in Connections, Accepted(c)
        PROVE  match'.idle = 0
    <2> DEFINE u == UserOf[c]
               renewed == Renewed(match, u)
    <2>1. u \in Users /\ match.lease[u] # None
      BY <1>3, RegistryAssumption DEF Accepted
    <2>2. Sound(renewed) /\ Running(renewed) /\ Still(renewed)
      BY <1>3, <2>1, RenewedIsSound DEF Accepted, Running, Still, PresenceInv
    <2> HIDE DEF renewed
    <2> QED BY <1>3, <2>2, CommandedResets DEF Accepted, renewed
  <1>4. match'.idle <= quiet'
    BY <1>1, <1>2, <1>3 DEF Active, Still, Timed
  <1>5. ~Deserted' => match'.turnAge <= attended'
    BY <1>1, <1>2 DEF TurnBegins, Still, Timed
  <1>6. attended' \in 0 .. TurnTimeout /\ quiet' \in 0 .. InactivityTimeout
    BY <1>2 DEF Timed
  <1> QED BY <1>1, <1>4, <1>5, <1>6 DEF Timed, Still, Running

LEMMA TickKeepsTime ==
  ASSUME PresenceInv, Timed, Tick,
         attended' = IF Running(match) /\ ~Deserted THEN Up(attended, TurnTimeout) ELSE 0,
         quiet' = IF Running(match) THEN Up(quiet, InactivityTimeout) ELSE 0
  PROVE  Timed'
  <1>1. match' = Later(match)
    BY DEF Tick, Faulty, Passes
  <1>2. /\ match'.turnAge = IF Running(match) THEN Up(match.turnAge, TurnTimeout) ELSE match.turnAge
        /\ match'.idle = IF Running(match) THEN Up(match.idle, InactivityTimeout) ELSE match.idle
        /\ match'.phase = match.phase
    BY <1>1 DEF Later, PresenceInv, Sound, Records
  <1>3. Deserted' <=> Deserted
    <2>1. ASSUME NEW u \in Users, match.lease[u] # None
          PROVE  match'.lease[u] # None
      <3>1. match.lease[u] \in Leases
        BY <2>1 DEF PresenceInv, Sound, Records
      <3>2. match'.lease[u] = [match.lease[u] EXCEPT !.left = Down(@)]
        BY <1>1, <2>1 DEF Later, PresenceInv, Sound, Records
      <3>3. Down(match.lease[u].left) \in 0 .. MaxLease
        BY <3>1, SpansAreNumbers DEF Leases, Down
      <3>4. match'.lease[u] \in Leases
        BY <3>1, <3>2, <3>3 DEF Leases
      <3> QED BY <3>4, RecordAssumption
    <2>2. ASSUME NEW u \in Users, match.lease[u] = None
          PROVE  match'.lease[u] = None
      BY <1>1, <2>2 DEF Later, PresenceInv, Sound, Records
    <2> QED BY <2>1, <2>2 DEF Deserted
  <1>4. /\ match.turnAge \in 0 .. TurnTimeout /\ match.idle \in 0 .. InactivityTimeout
        /\ TurnTimeout \in Nat /\ InactivityTimeout \in Nat
    BY RecordTyping, RecordAssumption DEF PresenceInv, Sound
  <1>5. CASE Running(match)
    BY <1>2, <1>3, <1>4, <1>5 DEF Timed, Still, Running, Up
  <1>6. CASE ~Running(match)
    BY <1>2, <1>4, <1>6 DEF Timed, Still, Running
  <1> QED BY <1>5, <1>6

\* The inductive invariant: that of the system, and no clock shows more than
\* has passed in its history.
THEOREM HistoryInvariant == HistorySpec => []HistoryInv
  <1>1. HistoryInit => HistoryInv
    <2> SUFFICES ASSUME HistoryInit PROVE HistoryInv
      OBVIOUS
    <2>1. PresenceInv
      BY InitiallySound DEF HistoryInit
    <2>2. match.turnAge = 0 /\ match.idle = 0
      BY DEF HistoryInit, Init, Created
    <2> QED BY <2>1, <2>2, RecordAssumption DEF HistoryInit, HistoryInv, Timed, Still
  <1>2. HistoryInv /\ [HistoryNext]_allvars => HistoryInv'
    <2> SUFFICES ASSUME HistoryInv, [HistoryNext]_allvars PROVE HistoryInv'
      OBVIOUS
    <2>1. PresenceInv'
      BY NextKeeps DEF HistoryInv, HistoryNext, allvars, Next
    <2>2. CASE UNCHANGED allvars
      BY <2>1, <2>2 DEF HistoryInv, Timed, Still, Running, Deserted, allvars, vars
    <2>3. CASE HistoryNext
      BY <2>1, <2>3, MoveKeepsTime, TickKeepsTime DEF HistoryInv, HistoryNext
    <2> QED BY <2>1, <2>2, <2>3
  <1> QED BY <1>1, <1>2, PTL DEF HistorySpec

-----------------------------------------------------------------------------
(* What a sweep ends, and when.                                            *)

\* Who comes to the end of a sweep with a changed match has found it timed out.
LEMMA EndsByTimeout ==
  ASSUME PresenceInv, [HistoryNext]_allvars, SweepsTurn, match' # match
  PROVE  match' \in TimedOut(match)
  <1>1. PICK s \in Servers : sweep[s].stage = "expiring" /\ sweep'[s] = S!Idle
    BY DEF SweepsTurn
  <1>2. sweep' # sweep /\ sweep'[s].stage = "idle"
    BY <1>1 DEF S!Idle
  <1>3. ASSUME NEW t \in Servers, S!Claim(t) \/ S!SweepStep(t) \/ S!SweepFails(t)
        PROVE  match' \in TimedOut(match)
    <2>1. CASE t = s
      BY <1>2, <1>3, <2>1, SweepOutcomes
    <2>2. CASE t # s
      <3>1. \A stage, listed : S!Stage(t, stage, listed) => sweep'[s] = sweep[s]
        BY <2>2 DEF S!Stage, PresenceInv, S!ScheduleTypeOK
      <3>2. sweep'[s] = sweep[s]
        BY <1>3, <3>1
           DEF S!Claim, S!SweepStep, S!SweepFails, S!BeginSweep, S!Expire, S!EndSweep,
               S!BeginningFails, S!ExpiryFails, S!EndingFails, S!Unlisted
      <3> QED BY <1>1, <1>2, <3>2
    <2> QED BY <2>1, <2>2
  <1>4. ASSUME NEW t \in up,
               Sweeping(S!Claim(t)) \/ Sweeping(S!SweepStep(t)) \/ SweepFault(t)
        PROVE  match' \in TimedOut(match)
    <2>1. t \in Servers /\ (S!Claim(t) \/ S!SweepStep(t) \/ S!SweepFails(t))
      BY <1>4 DEF PresenceInv, Sweeping, SweepFault, Faulty
    <2> QED BY <1>3, <2>1
  <1>5. ~ UNCHANGED allvars
    BY DEF allvars, vars
  <1>6. ~ PlayerStep
    BY <1>2 DEF PlayerStep, Join, Leave, Resign, StartMatch, LoadMatch, RetireStaleLobby,
                Call, Registry
  <1>7. ~ \E c \in Connections : Disconnect(c) \/ StreamFault(c)
    BY <1>2 DEF Disconnect, Registry, StreamFault, Faulty
  <1>8. ~ (Sweeping(S!Reconcile) \/ \E t \in up : Crash(t))
    BY DEF Sweeping, S!Reconcile, Crash, Faulty
  <1>9. ~ Tick
    BY <1>2 DEF Tick, Faulty, Passes
  <1> QED BY <1>4, <1>5, <1>6, <1>7, <1>8, <1>9
          DEF HistoryNext, Move, ServerStep, Fault

\* For any number of players and servers and any timeout: a sweep ends a turn
\* only when its time has run with somebody holding a lease.
\* (match_command_service_timeout.dart, match_participant_connection_policy.dart)
THEOREM TurnsWereAttended == HistorySpec => TurnsAreAttended
  <1>1. ASSUME HistoryInv, [HistoryNext]_allvars,
               SweepsTurn, match' # match, match'.phase # "abandoned"
        PROVE  attended >= TurnTimeout
    <2>1. match' \in TimedOut(match) /\ match \in Records
      BY <1>1, EndsByTimeout DEF HistoryInv, PresenceInv, Sound
    <2>2. match' # Ended(match, "abandoned")
      BY <1>1, <2>1, EndedResets
    <2>3. TurnIsOver(match)
      BY <1>1, <2>1, <2>2 DEF TimedOut
    <2>4. ~Deserted
      BY <2>1, <2>3 DEF TurnIsOver, AllOffline, Live, Deserted, Records
    <2>5. match.turnAge >= TurnTimeout /\ match.turnAge <= attended
      BY <1>1, <2>3, <2>4 DEF TurnIsOver, HistoryInv, Timed
    <2> QED BY <1>1, <2>1, <2>5, RecordTyping, RecordAssumption DEF HistoryInv, Timed
  <1>2. HistoryInv /\ [HistoryNext]_allvars =>
            [SweepsTurn /\ match' # match /\ match'.phase # "abandoned" =>
                 attended >= TurnTimeout]_allvars
    BY <1>1
  <1> QED BY <1>2, HistoryInvariant, PTL DEF HistorySpec, TurnsAreAttended

\* For any number of players and servers and any timeout: a sweep abandons a
\* running match only when nobody has come or gone and no command was accepted
\* for the whole timeout.
\* (match_activity_tracker.dart, match_command_service_timeout.dart)
THEOREM AbandonedWereIdle == HistorySpec => AbandonedOnlyIdle
  <1>1. ASSUME HistoryInv, [HistoryNext]_allvars,
               SweepsTurn, match' # match, match'.phase = "abandoned"
        PROVE  quiet >= InactivityTimeout
    <2>1. match' \in TimedOut(match) /\ match \in Records
      BY <1>1, EndsByTimeout DEF HistoryInv, PresenceInv, Sound
    <2>2. match' # Ended(match, "finished")
      BY <1>1, <2>1, EndedResets
    <2>3. Running(match) => match' # [match EXCEPT !.turnAge = 0]
      BY <1>1, <2>1 DEF Running, Records
    <2>4. match.idle >= InactivityTimeout
      BY <1>1, <2>1, <2>2, <2>3 DEF TimedOut
    <2>5. match.idle <= quiet
      BY <1>1 DEF HistoryInv, Timed
    <2> QED BY <1>1, <2>1, <2>4, <2>5, RecordTyping, RecordAssumption DEF HistoryInv, Timed
  <1>2. HistoryInv /\ [HistoryNext]_allvars =>
            [SweepsTurn /\ match' # match /\ match'.phase = "abandoned" =>
                 quiet >= InactivityTimeout]_allvars
    BY <1>1
  <1> QED BY <1>2, HistoryInvariant, PTL DEF HistorySpec, AbandonedOnlyIdle
=============================================================================
