---------------------------- MODULE StreamProofs ----------------------------
(***************************************************************************)
(* For any number of streams, commands and events: the match has every     *)
(* command once, what the client is told is true, and without sweeps its   *)
(* screen loses nothing.                                                   *)
(*                                                                         *)
(* None of the properties is inductive.  Four invariants, each resting on  *)
(* the one before, say what they leave out:                                *)
(*                                                                         *)
(*   StreamInv   whatever is under way, waits for an answer or may be sent *)
(*               again is a wire, and the log has no tick of "me" twice    *)
(*               among its commands;                                       *)
(*   TruthInv    every message under way, in the queue and at the client   *)
(*               says what the log says, and a tick belongs to one command *)
(*               wherever it is;                                           *)
(*   CalmInv     without sweeps a job is delivered before the next, a      *)
(*               connecting stream keeps up with the log, and every event  *)
(*               brings its state;                                         *)
(*   Screened    if results are shown before what comes after them, states *)
(*               reach the screen in their order, and every event of the   *)
(*               others is on the screen or on its way there.              *)
(***************************************************************************)
EXTENDS StreamProperties, SequenceTheorems, FiniteSetTheorems, TLAPS

Entries == [actor : {"me", "peer"}, tick : 0 .. MaxTick + MaxLog,
            command : Commands \cup {None}]

\* What the client may send, and has sent, are wires.
Wired ==
    /\ up \in [Connections -> Seq(Wires)]
    /\ order.stage = "pending" => order.wire \in Wires
    /\ retry \in Wires \cup {None}
    /\ nextTick \in Nat \ {0}

\* A command of "me" at place k of a log.
Ordered(entries, k) == entries[k].actor = "me" /\ entries[k].command # None

\* No tick belongs to two commands of "me".
Distinct(entries) ==
    \A i, j \in 1 .. Len(entries) :
        /\ Ordered(entries, i) /\ Ordered(entries, j)
        /\ entries[i].tick = entries[j].tick
        => i = j

Logged == log \in Seq(Entries) /\ Now <= MaxLog /\ Distinct(log)

StreamInv == Wired /\ Logged

-----------------------------------------------------------------------------
(* The log.                                                                *)

LEMMA TicksAreNumbers ==
  \A wire \in Wires :
     wire.tick \in 1 .. MaxTick /\ wire.tick \in Nat /\ wire.command \in Commands
  BY ChannelAssumption DEF Wires, Ticks

\* A log stays distinct when its new entry is no command of "me", or one
\* whose tick no other has.
LEMMA DistinctAppend ==
  ASSUME NEW entries \in Seq(Entries), Distinct(entries), NEW e \in Entries,
         \/ e.actor # "me" \/ e.command = None
         \/ \A k \in 1 .. Len(entries) : Ordered(entries, k) => entries[k].tick # e.tick
  PROVE  Append(entries, e) \in Seq(Entries) /\ Distinct(Append(entries, e))
  <1> DEFINE longer == Append(entries, e)
             n == Len(entries)
  <1>1. /\ longer \in Seq(Entries) /\ Len(longer) = n + 1 /\ n \in Nat
        /\ \A i \in 1 .. n : longer[i] = entries[i]
        /\ longer[n + 1] = e
    BY AppendProperties
  <1>2. ASSUME NEW i \in 1 .. n + 1, NEW j \in 1 .. n + 1,
               Ordered(longer, i), Ordered(longer, j), longer[i].tick = longer[j].tick
        PROVE  i = j
    <2>1. CASE i \in 1 .. n /\ j \in 1 .. n
      <3>1. Ordered(entries, i) /\ Ordered(entries, j) /\ entries[i].tick = entries[j].tick
        BY <1>1, <1>2, <2>1 DEF Ordered
      <3> QED BY <3>1, <2>1 DEF Distinct
    <2>2. CASE i = n + 1 /\ j \in 1 .. n
      BY <1>1, <1>2, <2>2 DEF Ordered
    <2>3. CASE i \in 1 .. n /\ j = n + 1
      BY <1>1, <1>2, <2>3 DEF Ordered
    <2>4. CASE i = n + 1 /\ j = n + 1
      BY <2>4
    <2> QED BY <1>1, <2>1, <2>2, <2>3, <2>4
  <1> HIDE DEF longer
  <1>3. Distinct(longer)
    BY <1>1, <1>2 DEF Distinct
  <1> QED BY <1>1, <1>3 DEF longer

-----------------------------------------------------------------------------
(* The server's steps.                                                     *)

LEMMA InputKeeps ==
  ASSUME StreamInv, NEW c \in Connections, HandleInput(c), UNCHANGED client
  PROVE  StreamInv'
  <1> DEFINE wire == Head(up[c])
  <1>1. up[c] \in Seq(Wires) /\ up[c] # <<>> /\ up' = [up EXCEPT ![c] = Tail(@)]
    BY DEF HandleInput, StreamInv, Wired
  <1>2. wire \in Wires /\ Tail(up[c]) \in Seq(Wires)
    BY <1>1, HeadTailProperties
  <1>3. Wired'
    BY <1>1, <1>2 DEF StreamInv, Wired, client
  <1>4. CASE Accept(c, wire)
    <2>1. /\ Duplicates(wire) = {} /\ log' = Append(log, Entry("me", wire.tick, wire.command))
          /\ Len(log) < MaxLog
      BY <1>4 DEF Accept, Now
    <2>2. Entry("me", wire.tick, wire.command) \in Entries
      BY <1>2, TicksAreNumbers, ChannelAssumption DEF Entry, Entries
    <2>3. \A k \in 1 .. Len(log) : Ordered(log, k) => log[k].tick # wire.tick
      BY <2>1 DEF Duplicates, Now, Ordered
    <2>4. Entry("me", wire.tick, wire.command).tick = wire.tick
      BY DEF Entry
    <2>5. log' \in Seq(Entries) /\ Distinct(log') /\ Len(log') <= MaxLog
      BY <2>1, <2>2, <2>3, <2>4, DistinctAppend, AppendProperties, ChannelAssumption
         DEF StreamInv, Logged
    <2> QED BY <1>3, <2>5 DEF StreamInv, Logged, Now
  <1>5. CASE UNCHANGED log
    BY <1>3, <1>5 DEF StreamInv, Logged, Now
  <1>6. Accept(c, wire) \/ UNCHANGED log
    BY DEF HandleInput, RejectPresence, Renew, Repeat, Reject, Abort
  <1> QED BY <1>4, <1>5, <1>6

\* What others, and the sweep of turns, add to the log is no command of "me".
LEMMA ForeignEntryKeeps ==
  ASSUME StreamInv, UNCHANGED <<up, client>>,
         NEW actor \in {"me", "peer"}, NEW tick \in 0 .. MaxTick + MaxLog,
         Now < MaxLog, log' = Append(log, Entry(actor, tick, None))
  PROVE  StreamInv'
  <1>1. Entry(actor, tick, None) \in Entries /\ Entry(actor, tick, None).command = None
    BY DEF Entry, Entries
  <1>2. log' \in Seq(Entries) /\ Distinct(log') /\ Len(log') <= MaxLog
    BY <1>1, DistinctAppend, AppendProperties, ChannelAssumption DEF StreamInv, Logged, Now
  <1>3. Wired'
    BY DEF StreamInv, Wired, client
  <1> QED BY <1>2, <1>3 DEF StreamInv, Logged, Now

\* A step that drops messages on their way, if anything, and leaves the log.
LEMMA DroppingKeeps ==
  ASSUME StreamInv, UNCHANGED <<log, client>>,
         \/ UNCHANGED up
         \/ \E c \in Connections : up' = [up EXCEPT ![c] = <<>>]
         \/ up' = [c \in Connections |-> <<>>]
  PROVE  StreamInv'
  <1>0. <<>> \in Seq(Wires) /\ up \in [Connections -> Seq(Wires)]
    BY DEF StreamInv, Wired
  <1>1. up' \in [Connections -> Seq(Wires)]
    <2>1. CASE UNCHANGED up
      BY <1>0, <2>1
    <2>2. ASSUME NEW c \in Connections, up' = [up EXCEPT ![c] = <<>>]
          PROVE  up' \in [Connections -> Seq(Wires)]
      BY <1>0, <2>2
    <2>3. CASE up' = [c \in Connections |-> <<>>]
      BY <1>0, <2>3
    <2> QED BY <2>1, <2>2, <2>3
  <1> QED BY <1>1 DEF StreamInv, Wired, Logged, Now, client

LEMMA HubKeeps ==
  ASSUME StreamInv, HubStep
  PROVE  StreamInv'
  <1>0. UNCHANGED client /\ Len(log) \in Nat
    BY DEF HubStep, StreamInv, Logged
  <1>1. ASSUME NEW c \in Connections, HandleInput(c) PROVE StreamInv'
    BY <1>0, <1>1, InputKeeps
  <1>2. ASSUME NEW c \in Connections,
               \/ Connect(c) \/ ListEvents(c) \/ Subscribe(c)
               \/ Disconnect(c) \/ ParticipantDisconnected(c)
        PROVE  StreamInv'
    <2>1. UNCHANGED log /\ (UNCHANGED up \/ up' = [up EXCEPT ![c] = <<>>])
      BY <1>2 DEF Connect, ListEvents, Subscribe, Disconnect, ParticipantDisconnected, channels
    <2> QED BY <1>0, <2>1, DroppingKeeps
  <1>3. CASE Deliver \/ DeliverSweep \/ PeerPresence \/ SweepLease \/ Restart
    <2>1. UNCHANGED log /\ (UNCHANGED up \/ up' = [c \in Connections |-> <<>>])
      BY <1>3 DEF Deliver, DeliverSweep, PeerPresence, SweepLease, Restart, channels
    <2> QED BY <1>0, <2>1, DroppingKeeps
  <1>4. CASE PeerCommand
    <2>1. log' = Append(log, Entry("peer", 0, None)) /\ UNCHANGED up /\ Now < MaxLog
      BY <1>4 DEF PeerCommand, channels
    <2>2. 0 \in 0 .. MaxTick + MaxLog
      BY ChannelAssumption
    <2> QED BY <1>0, <2>1, <2>2, ForeignEntryKeeps
  <1>5. CASE SweepTurn
    <2>1. UNCHANGED up /\ Now < MaxLog /\ \E actor \in {"me", "peer"} :
                              log' = Append(log, Entry(actor, Now + 1, None))
      BY <1>5 DEF SweepTurn, channels
    <2>2. Now + 1 \in 0 .. MaxTick + MaxLog
      BY <1>0, <2>1, ChannelAssumption DEF Now
    <2> QED BY <1>0, <2>1, <2>2, ForeignEntryKeeps
  <1> QED BY <1>1, <1>2, <1>3, <1>4, <1>5 DEF HubStep

-----------------------------------------------------------------------------
(* The client's steps.                                                     *)

LEMMA SendKeeps ==
  ASSUME StreamInv, NEW command \in Commands, Send(command), UNCHANGED log
  PROVE  StreamInv'
  <1> DEFINE wire == WireFor(command)
  <1>1. wire \in Wires
    <2>1. CASE IsRetry(command)
      BY <2>1 DEF WireFor, IsRetry, StreamInv, Wired
    <2>2. CASE ~IsRetry(command)
      BY <2>2, ChannelAssumption DEF WireFor, Send, StreamInv, Wired, Wires, Ticks
    <2> QED BY <2>1, <2>2
  <1>2. nextTick' \in Nat \ {0}
    BY DEF Send, StreamInv, Wired
  <1>3. CASE link \in Connections
    <2>1. /\ up' = [up EXCEPT ![link] = Append(@, wire)] /\ order' = Pending(wire)
          /\ retry' \in Wires \cup {None}
      BY <1>3 DEF Send, StreamInv, Wired
    <2>2. Append(up[link], wire) \in Seq(Wires)
      BY <1>1, <1>3, AppendProperties DEF StreamInv, Wired
    <2>3. up' \in [Connections -> Seq(Wires)]
      BY <2>1, <2>2, <1>3 DEF StreamInv, Wired
    <2>4. order'.wire \in Wires
      BY <1>1, <2>1 DEF Pending
    <2> QED BY <1>2, <2>1, <2>3, <2>4 DEF StreamInv, Wired, Logged, Now
  <1>4. CASE link \notin Connections
    <2>1. retry' = wire /\ UNCHANGED <<up, order>>
      BY <1>4 DEF Send
    <2> QED BY <1>1, <1>2, <2>1 DEF StreamInv, Wired, Logged, Now
  <1> QED BY <1>3, <1>4

\* A command that is given up may be sent again, an answered one may not.
LEMMA WaitingKeeps ==
  ASSUME StreamInv, UNCHANGED <<log, up, nextTick>>,
         \/ GivenUp \/ UNCHANGED <<order, retry>>
         \/ UNCHANGED retry /\ order' = Idle
         \/ retry' = None /\ order'.stage = "answered"
  PROVE  StreamInv'
  <1>1. retry' \in Wires \cup {None}
    BY DEF GivenUp, StreamInv, Wired
  <1>2. order'.stage = "pending" => order'.wire \in Wires
    BY DEF GivenUp, Idle, StreamInv, Wired
  <1> QED BY <1>1, <1>2 DEF StreamInv, Wired, Logged, Now

LEMMA ClientKeeps ==
  ASSUME StreamInv, ClientStep
  PROVE  StreamInv'
  <1>0. UNCHANGED log
    BY DEF ClientStep, hub
  <1>1. ASSUME NEW command \in Commands, Send(command) PROVE StreamInv'
    BY <1>0, <1>1, SendKeeps
  <1>2. CASE AckTimeout \/ ConnectionLost \/ ForgetEcho \/ Apply \/ Publish
    <2>1. /\ UNCHANGED <<up, nextTick>>
          /\ \/ GivenUp \/ UNCHANGED <<order, retry>>
             \/ UNCHANGED retry /\ order' = Idle
      BY <1>2 DEF AckTimeout, ConnectionLost, ForgetEcho, Apply, Publish, channels
    <2> QED BY <1>0, <2>1, WaitingKeeps
  <1>3. CASE HandleMessage
    <2>1. UNCHANGED <<up, nextTick>>
      BY <1>3 DEF HandleMessage
    <2>2. PICK message : \/ HandleAck(message) \/ HandleEvent(message)
                         \/ HandleState(message) \/ HandleFailure(message)
      BY <1>3 DEF HandleMessage
    <2>3. \/ GivenUp \/ UNCHANGED <<order, retry>>
          \/ retry' = None /\ order'.stage = "answered"
      BY <2>2 DEF HandleAck, HandleEvent, HandleState, HandleFailure
    <2> QED BY <1>0, <2>1, <2>3, WaitingKeeps
  <1>4. ASSUME NEW event, Load(event, Now) PROVE StreamInv'
    <2>1. UNCHANGED <<up, nextTick, order, retry>>
      BY <1>4 DEF Load, channels
    <2> QED BY <1>0, <2>1, WaitingKeeps
  <1> QED BY <1>1, <1>2, <1>3, <1>4 DEF ClientStep

-----------------------------------------------------------------------------
(* A command is in the match once.                                         *)

LEMMA InitIsWired == Init => StreamInv
  <1> SUFFICES ASSUME Init PROVE StreamInv
    OBVIOUS
  <1>1. log = [k \in 1 .. Started |-> Entry("peer", 0, None)]
    BY DEF Init
  <1>2. Started \in Nat /\ \A k \in 1 .. Started : Entry("peer", 0, None) \in Entries
    BY StartAssumption, ChannelAssumption DEF Entry, Entries
  <1>3. log \in Seq(Entries) /\ Len(log) = Started
    BY <1>1, <1>2
  <1>4. \A k \in 1 .. Started : log[k].command = None
    BY <1>1 DEF Entry
  <1>5. Distinct(log)
    BY <1>3, <1>4 DEF Distinct, Ordered
  <1>6. Wired
    BY DEF Init, Wired, Idle
  <1> QED BY <1>3, <1>5, <1>6, StartAssumption DEF StreamInv, Logged, Now

LEMMA NextKeeps == StreamInv /\ [Next]_vars => StreamInv'
  <1> SUFFICES ASSUME StreamInv, [Next]_vars PROVE StreamInv'
    OBVIOUS
  <1>1. ASSUME NEW c \in Connections, Reconnect(c) PROVE StreamInv'
    BY <1>1, DroppingKeeps DEF Reconnect
  <1>2. CASE UNCHANGED vars
    BY <1>2, DroppingKeeps DEF vars, channels, hub
  <1> QED BY <1>1, <1>2, HubKeeps, ClientKeeps DEF Next

\* What may be sent is a wire, and the log has no tick of "me" twice among
\* its commands (_handleCommand looks a command up before it is reduced).
THEOREM StreamInvariant == Spec => []StreamInv
  BY InitIsWired, NextKeeps, PTL DEF Spec

LEMMA DistinctOnce == StreamInv => AppliedOnce
  <1> SUFFICES ASSUME StreamInv, NEW wire \in Wires
               PROVE  Cardinality({k \in 1 .. Now : Mine(k, wire)}) <= 1
    BY DEF AppliedOnce
  <1> DEFINE places == {k \in 1 .. Now : Mine(k, wire)}
  <1>1. \A i, j \in places : i = j
    <2>1. wire.command # None
      BY TicksAreNumbers, ChannelAssumption
    <2>2. \A k \in places : Ordered(log, k) /\ log[k].tick = wire.tick
      BY <2>1 DEF Mine, Entry, Ordered
    <2> QED BY <2>2 DEF StreamInv, Logged, Distinct, Now
  <1>2. CASE places = {}
    BY <1>2, FS_EmptySet
  <1>3. CASE places # {}
    <2>1. PICK k : k \in places
      BY <1>3
    <2>2. places = {k}
      BY <1>1, <2>1
    <2> QED BY <2>2, FS_Singleton
  <1> QED BY <1>2, <1>3

\* However often a command is sent again, on whichever stream, through
\* losses and restarts, the match has it once.
THEOREM CommandsApplyOnce == Spec => []AppliedOnce
  BY StreamInvariant, DistinctOnce, PTL

-----------------------------------------------------------------------------
(* What is under way tells the truth about the log.                        *)

\* An answer names a command of "me" under its tick, an event the entry it
\* was made for.
AnswerIn(entries, m) ==
    \E k \in 1 .. m.offset : Ordered(entries, k) /\ entries[k].tick = m.tick
EventIn(entries, m) ==
    /\ m.offset \in 1 .. Len(entries)
    /\ m.tick = IF entries[m.offset].actor = "me" THEN entries[m.offset].tick ELSE 0

Says(entries, m) ==
    /\ m.offset <= Len(entries)
    /\ m.kind \in {"ack", "state"} => m.snapshot \in m.offset .. Len(entries)
    /\ m.kind = "event" => /\ m.snapshot \in (m.offset .. Len(entries)) \cup {None}
                           /\ EventIn(entries, m)
    /\ m.kind = "ack" /\ m.accepted => AnswerIn(entries, m)

Truthful(entries) == {m \in ServerMessage : Says(entries, m)}

Notices(entries) ==
    {n \in [caller : Connections \cup {None}, reply : Truthful(entries) \cup {None},
            cast : Truthful(entries) \cup {None}] :
        n.caller # None => n.reply \in Truthful(entries)}

Spoken ==
    /\ down \in Seq(Truthful(log))
    /\ job \in Notices(log) \cup {None}
    /\ swept \in Truthful(log) \cup {None}

\* The server's streams, at a log of n events.
StreamAt(n) ==
    [phase : {"closed", "queued", "connected", "listed", "subscribed", "left"},
     after : 0 .. n, base : 0 .. n, newest : 0 .. n]

Posted ==
    /\ streams \in [Connections -> StreamAt(Now)]
    /\ leased \in BOOLEAN
    /\ link \in Connections \cup {"none", "over"}
    /\ \A c \in Connections : Len(up[c]) <= MaxQueue

\* The log has a wire's command at place k.
Names(entries, k, wire) ==
    Ordered(entries, k) /\ entries[k].tick = wire.tick /\ entries[k].command = wire.command

\* An answered order, and a snapshot for the screen, at a log.
Answered(entries) ==
    {o \in [stage : {"answered"}, wire : Wires,
            result : [accepted : BOOLEAN, offset : 0 .. Len(entries)]] :
        o.result.accepted => \E k \in 1 .. o.result.offset : Names(entries, k, o.wire)}
Pictures(n) == {p \in [snapshot : 0 .. n, event : 0 .. n] : p.event <= p.snapshot}

Shown ==
    /\ offset \in 0 .. Now
    /\ order \in {Idle} \cup {Pending(wire) : wire \in Wires} \cup Answered(log)
    /\ nextTick \in 1 .. MaxTick + 1
    /\ echo \subseteq Ticks
    /\ inbox \in Seq(Pictures(Now))
    /\ loading \subseteq 0 .. Now

\* The wires that may still be handled, answered or repeated, and those that
\* have been carried out.
Used ==
    {wire \in Wires :
        \/ \E c \in Connections : \E i \in 1 .. Len(up[c]) : up[c][i] = wire
        \/ order.stage = "pending" /\ order.wire = wire
        \/ retry # None /\ retry = wire
        \/ \E k \in 1 .. Now : Names(log, k, wire)}

\* A tick is drawn once, and for one command.
OneUse ==
    /\ \A v, w \in Used : v.tick = w.tick => v = w
    /\ \A w \in Used : w.tick < nextTick

TruthInv == StreamInv /\ Spoken /\ Posted /\ Shown /\ OneUse

-----------------------------------------------------------------------------
(* The log only grows.                                                     *)

Grown(longer, entries) ==
    /\ Len(entries) <= Len(longer)
    /\ \A k \in 1 .. Len(entries) : longer[k] = entries[k]

LEMMA AppendGrows ==
  ASSUME NEW entries \in Seq(Entries), NEW e
  PROVE  /\ Grown(Append(entries, e), entries)
         /\ Len(Append(entries, e)) = Len(entries) + 1
         /\ Append(entries, e)[Len(entries) + 1] = e
         /\ e \in Entries => Append(entries, e) \in Seq(Entries)
  <1>1. entries \in Seq(Entries \cup {e})
    BY SeqMonotonic
  <1> QED BY <1>1, AppendProperties DEF Grown

\* An entry of the log is made within its bounds.
LEMMA AppendsEntry ==
  ASSUME StreamInv, Now < MaxLog,
         NEW actor \in {"me", "peer"}, NEW tick \in 0 .. MaxTick + MaxLog,
         NEW command \in Commands \cup {None},
         log' = Append(log, Entry(actor, tick, command))
  PROVE  /\ log' \in Seq(Entries) /\ Len(log') <= MaxLog
         /\ Grown(log', log) /\ Len(log') = Now + 1
         /\ log'[Now + 1] = Entry(actor, tick, command)
  <1>1. Entry(actor, tick, command) \in Entries
    BY DEF Entry, Entries
  <1> QED BY <1>1, AppendGrows, ChannelAssumption DEF StreamInv, Logged, Now

LEMMA LogGrows ==
  ASSUME StreamInv, [Next]_vars
  PROVE  Grown(log', log) /\ Len(log) \in Nat
  <1>1. UNCHANGED log \/ \E e : log' = Append(log, e)
    <2>1. ASSUME HubStep PROVE UNCHANGED log \/ \E e : log' = Append(log, e)
      <3>1. ASSUME NEW c \in Connections, HandleInput(c)
            PROVE  UNCHANGED log \/ \E e : log' = Append(log, e)
        BY <3>1 DEF HandleInput, RejectPresence, Renew, Repeat, Accept, Reject, Abort
      <3>2. ASSUME NEW c \in Connections,
                   \/ Connect(c) \/ ListEvents(c) \/ Subscribe(c)
                   \/ Disconnect(c) \/ ParticipantDisconnected(c)
            PROVE  UNCHANGED log
        BY <3>2 DEF Connect, ListEvents, Subscribe, Disconnect, ParticipantDisconnected
      <3>3. ASSUME Deliver \/ DeliverSweep \/ PeerPresence \/ SweepLease \/ Restart
            PROVE  UNCHANGED log
        BY <3>3 DEF Deliver, DeliverSweep, PeerPresence, SweepLease, Restart
      <3>4. ASSUME PeerCommand \/ SweepTurn PROVE \E e : log' = Append(log, e)
        BY <3>4 DEF PeerCommand, SweepTurn
      <3> QED BY <2>1, <3>1, <3>2, <3>3, <3>4 DEF HubStep
    <2>2. ASSUME ClientStep PROVE UNCHANGED log
      BY <2>2 DEF ClientStep, hub
    <2>3. ASSUME NEW c \in Connections, Reconnect(c) PROVE UNCHANGED log
      BY <2>3 DEF Reconnect
    <2>4. CASE UNCHANGED vars
      BY <2>4 DEF vars, hub
    <2> QED BY <2>1, <2>2, <2>3, <2>4 DEF Next
  <1>2. log \in Seq(Entries) /\ Len(log) \in Nat
    BY DEF StreamInv, Logged
  <1>3. ASSUME NEW e, log' = Append(log, e) PROVE Grown(log', log)
    BY <1>2, <1>3, AppendGrows
  <1>4. CASE UNCHANGED log
    BY <1>2, <1>4 DEF Grown
  <1> QED BY <1>1, <1>2, <1>3, <1>4

LEMMA TruthGrows ==
  ASSUME NEW entries \in Seq(Entries), NEW longer \in Seq(Entries), Grown(longer, entries)
  PROVE  /\ Truthful(entries) \subseteq Truthful(longer)
         /\ Notices(entries) \subseteq Notices(longer)
         /\ StreamAt(Len(entries)) \subseteq StreamAt(Len(longer))
         /\ Answered(entries) \subseteq Answered(longer)
         /\ Pictures(Len(entries)) \subseteq Pictures(Len(longer))
  <1>0. /\ Len(entries) \in Nat /\ Len(longer) \in Nat /\ Len(entries) <= Len(longer)
        /\ \A k \in 1 .. Len(entries) : longer[k] = entries[k]
        /\ 0 .. Len(entries) \subseteq 0 .. Len(longer)
    BY DEF Grown
  <1>1. ASSUME NEW m \in Truthful(entries) PROVE m \in Truthful(longer)
    <2>0. m \in ServerMessage /\ Says(entries, m) /\ m.offset \in Nat
      BY <1>1, ChannelAssumption DEF Truthful, ServerMessage, Offsets
    <2>1. EventIn(entries, m) => EventIn(longer, m)
      BY <1>0, <2>0 DEF EventIn
    <2>2. m.offset <= Len(entries)
      BY <2>0 DEF Says
    <2>3. AnswerIn(entries, m) => AnswerIn(longer, m)
      BY <1>0, <2>0, <2>2 DEF AnswerIn, Ordered
    <2>4. Says(longer, m)
      BY <1>0, <2>0, <2>1, <2>2, <2>3 DEF Says
    <2> QED BY <2>0, <2>4 DEF Truthful
  <1>2. ASSUME NEW n \in Notices(entries) PROVE n \in Notices(longer)
    BY <1>1, <1>2 DEF Notices
  <1>3. ASSUME NEW s \in StreamAt(Len(entries)) PROVE s \in StreamAt(Len(longer))
    BY <1>0, <1>3 DEF StreamAt
  <1>4. ASSUME NEW o \in Answered(entries) PROVE o \in Answered(longer)
    <2>1. /\ o \in [stage : {"answered"}, wire : Wires,
                    result : [accepted : BOOLEAN, offset : 0 .. Len(longer)]]
          /\ o.result.offset \in 0 .. Len(entries)
      BY <1>0, <1>4 DEF Answered
    <2>2. ASSUME NEW k \in 1 .. o.result.offset, Names(entries, k, o.wire)
          PROVE  Names(longer, k, o.wire)
      BY <1>0, <2>1, <2>2 DEF Names, Ordered
    <2> QED BY <1>4, <2>1, <2>2 DEF Answered
  <1>5. ASSUME NEW p \in Pictures(Len(entries)) PROVE p \in Pictures(Len(longer))
    BY <1>0, <1>5 DEF Pictures
  <1> QED BY <1>1, <1>2, <1>3, <1>4, <1>5

-----------------------------------------------------------------------------
(* What the server says.                                                   *)

LEMMA NowIsOffset == StreamInv => Now \in Offsets /\ Now = Len(log) /\ Now \in Nat
  BY ChannelAssumption DEF StreamInv, Logged, Now, Offsets

LEMMA AckIsTrue ==
  ASSUME NEW entries \in Seq(Entries), Len(entries) <= MaxLog,
         NEW tick \in Ticks, NEW accepted \in BOOLEAN, NEW k \in 0 .. Len(entries),
         accepted => \E i \in 1 .. k : Ordered(entries, i) /\ entries[i].tick = tick
  PROVE  Ack(tick, accepted, k, Len(entries)) \in Truthful(entries)
  <1> DEFINE m == Ack(tick, accepted, k, Len(entries))
  <1>1. /\ m.kind = "ack" /\ m.tick = tick /\ m.accepted = accepted
        /\ m.offset = k /\ m.snapshot = Len(entries)
    BY DEF Ack
  <1>2. m \in ServerMessage
    BY ChannelAssumption DEF Ack, ServerMessage, Ticks, Offsets
  <1> HIDE DEF m
  <1>3. Says(entries, m)
    BY <1>1 DEF Says, AnswerIn
  <1> QED BY <1>2, <1>3 DEF Truthful, m

LEMMA RefusalIsTrue ==
  ASSUME NEW entries \in Seq(Entries), Len(entries) <= MaxLog, NEW tick \in Ticks
  PROVE  Ack(tick, FALSE, Len(entries), Len(entries)) \in Truthful(entries)
  <1>1. Len(entries) \in 0 .. Len(entries) /\ FALSE \in BOOLEAN
    OBVIOUS
  <1> QED BY <1>1, AckIsTrue

LEMMA EventIsTrue ==
  ASSUME NEW entries \in Seq(Entries), Len(entries) <= MaxLog,
         NEW k \in 1 .. Len(entries), NEW snapshot \in {k, None},
         NEW tick, tick = IF entries[k].actor = "me" THEN entries[k].tick ELSE 0
  PROVE  Event(tick, k, snapshot) \in Truthful(entries)
  <1> DEFINE m == Event(tick, k, snapshot)
  <1>1. /\ m.kind = "event" /\ m.tick = tick /\ m.offset = k /\ m.snapshot = snapshot
    BY DEF Event
  <1>2. entries[k] \in Entries
    OBVIOUS
  <1>3. tick \in 0 .. MaxTick + MaxLog
    BY <1>2, ChannelAssumption DEF Entries
  <1>4. m \in ServerMessage
    BY <1>3, ChannelAssumption DEF Event, ServerMessage, Offsets
  <1> HIDE DEF m
  <1>5. Says(entries, m)
    BY <1>1 DEF Says, EventIn
  <1> QED BY <1>4, <1>5 DEF Truthful, m

LEMMA StateIsTrue ==
  ASSUME NEW entries \in Seq(Entries), Len(entries) <= MaxLog, NEW k \in 0 .. Len(entries)
  PROVE  State(k) \in Truthful(entries)
  <1> DEFINE m == State(k)
  <1>1. m.kind = "state" /\ m.offset = k /\ m.snapshot = k
    BY DEF State
  <1>2. m \in ServerMessage
    BY ChannelAssumption DEF State, ServerMessage, Offsets
  <1> HIDE DEF m
  <1>3. Says(entries, m)
    BY <1>1 DEF Says
  <1> QED BY <1>2, <1>3 DEF Truthful, m

LEMMA FailureIsTrue ==
  ASSUME NEW entries \in Seq(Entries)
  PROVE  Failure(TRUE) \in Truthful(entries) /\ Failure(FALSE) \in Truthful(entries)
  <1>1. ASSUME NEW terminal \in {TRUE, FALSE} PROVE Failure(terminal) \in Truthful(entries)
    <2> DEFINE m == Failure(terminal)
    <2>1. m.kind \in {"failure", "not_match_player"} /\ m.offset = 0
      BY DEF Failure
    <2>2. m \in ServerMessage
      BY ChannelAssumption DEF Failure, ServerMessage, Offsets
    <2> HIDE DEF m
    <2>3. Says(entries, m)
      BY <2>1 DEF Says
    <2> QED BY <2>2, <2>3 DEF Truthful, m
  <1> QED BY <1>1

LEMMA NoticeIsTrue ==
  ASSUME NEW entries, NEW caller \in Connections \cup {None},
         NEW reply, NEW cast \in Truthful(entries) \cup {None},
         reply \in Truthful(entries) \/ (caller = None /\ reply = None)
  PROVE  Notice(caller, reply, cast) \in Notices(entries)
  BY DEF Notice, Notices

LEMMA OneIsSeq ==
  ASSUME NEW S, NEW m \in S
  PROVE  <<m>> \in Seq(S) /\ <<>> \in Seq(S)
  OBVIOUS

LEMMA BacklogIsTrue ==
  ASSUME TruthInv, NEW c \in Connections
  PROVE  Initial(c) \in Seq(Truthful(log))
  <1> DEFINE stream == streams[c]
             from == Larger(stream.after, stream.base)
             n == stream.newest - from
             Mark(k) == IF log[k].actor = "me" THEN log[k].tick ELSE 0
             M(i) == Event(Mark(from + i), from + i, None)
  <1>0. log \in Seq(Entries) /\ Now = Len(log) /\ Now <= MaxLog
    BY NowIsOffset DEF TruthInv, StreamInv, Logged
  <1>1. stream.after \in 0 .. Now /\ stream.base \in 0 .. Now /\ stream.newest \in 0 .. Now
    BY DEF TruthInv, Posted, StreamAt
  <1>2. Now \in Nat /\ from \in 0 .. Now /\ n \in Int
    BY <1>1, NowIsOffset DEF TruthInv, Larger
  <1>3. ASSUME NEW i \in 1 .. n PROVE M(i) \in Truthful(log)
    <2>1. from + i \in 1 .. Now
      BY <1>1, <1>2
    <2> QED BY <1>0, <2>1, EventIsTrue
  <1>4. Backlog(c) = [i \in 1 .. n |-> M(i)]
    BY DEF Backlog
  <1>5. Backlog(c) \in Seq(Truthful(log))
    <2>1. CASE n < 0
      <3>1. Backlog(c) = <<>>
        BY <1>2, <1>4, <2>1
      <3> QED BY <3>1
    <2>2. CASE n \in Nat
      <3> HIDE DEF M, n
      <3> QED BY <1>3, <1>4, <2>2, IsASeq
    <2> QED BY <1>2, <2>1, <2>2
  <1>6. <<State(stream.base)>> \in Seq(Truthful(log))
    BY <1>0, <1>1, StateIsTrue, OneIsSeq
  <1> QED BY <1>5, <1>6, ConcatProperties DEF Initial

\* What is put on the client's stream by a job.
LEMMA NotifiedIsTrue ==
  ASSUME NEW notice \in Notices(log)
  PROVE  Notified(notice) \in Seq(Truthful(log))
  <1>1. notice.caller # None => notice.reply \in Truthful(log)
    BY DEF Notices
  <1>2. notice.cast # None => notice.cast \in Truthful(log)
    BY DEF Notices
  <1> QED BY <1>1, <1>2, OneIsSeq DEF Notified, OnLink

\* The job that a command leaves behind, and what the stream is told at once.
LEMMA InputSpeaks ==
  ASSUME TruthInv, NEW c \in Connections, HandleInput(c), UNCHANGED client
  PROVE  Spoken'
  <1> DEFINE wire == Head(up[c])
  <1>0. /\ StreamInv /\ wire \in Wires
        /\ log \in Seq(Entries) /\ Now = Len(log) /\ Now \in Nat /\ Now <= MaxLog
    <2>1. up[c] \in Seq(Wires) /\ up[c] # <<>>
      BY DEF HandleInput, TruthInv, StreamInv, Wired
    <2> QED BY <2>1, HeadTailProperties, NowIsOffset DEF TruthInv, StreamInv, Logged
  <1>1. wire.tick \in Ticks /\ wire.command # None
    BY <1>0, TicksAreNumbers, ChannelAssumption DEF Ticks
  <1> HIDE DEF wire
  <1>2. swept' = swept
    BY DEF HandleInput
  <1>3. CASE RejectPresence(c)
    <2>1. UNCHANGED <<log, job>> /\ down' \in {down, Append(down, Failure(TRUE))}
      BY <1>3 DEF RejectPresence
    <2>2. down' \in Seq(Truthful(log))
      <3>1. Failure(TRUE) \in Truthful(log) /\ down \in Seq(Truthful(log))
        BY <1>0, FailureIsTrue DEF TruthInv, Spoken
      <3>2. Append(down, Failure(TRUE)) \in Seq(Truthful(log))
        BY <3>1, AppendProperties
      <3> QED BY <2>1, <3>1, <3>2
    <2> QED BY <1>2, <2>1, <2>2 DEF TruthInv, Spoken
  <1>4. CASE Abort(c)
    <2>1. UNCHANGED <<log, job>> /\ down' \in {down, Append(down, Failure(FALSE))}
      BY <1>4 DEF Abort
    <2>2. down' \in Seq(Truthful(log))
      <3>1. Failure(FALSE) \in Truthful(log) /\ down \in Seq(Truthful(log))
        BY <1>0, FailureIsTrue DEF TruthInv, Spoken
      <3>2. Append(down, Failure(FALSE)) \in Seq(Truthful(log))
        BY <3>1, AppendProperties
      <3> QED BY <2>1, <3>1, <3>2
    <2> QED BY <1>2, <2>1, <2>2 DEF TruthInv, Spoken
  <1>5. CASE Repeat(c, wire)
    <2>1. UNCHANGED <<log, down>>
      BY <1>5 DEF Repeat
    <2>2. PICK k \in Duplicates(wire) :
             IF log[k].command = wire.command THEN Answer(c, wire, TRUE, k, Now, None)
             ELSE Answer(c, wire, FALSE, Now, Now, None)
      BY <1>5 DEF Repeat
    <2>3. k \in 1 .. Now /\ Ordered(log, k) /\ log[k].tick = wire.tick
      BY DEF Duplicates, Ordered
    <2>4. Ack(wire.tick, TRUE, k, Now) \in Truthful(log)
      <3>1. k \in 0 .. Now /\ k \in 1 .. k
        BY <1>0, <2>3
      <3> QED BY <1>0, <1>1, <2>3, <3>1, AckIsTrue
    <2>5. Ack(wire.tick, FALSE, Now, Now) \in Truthful(log)
      BY <1>0, <1>1, RefusalIsTrue
    <2>6. job' \in Notices(log)
      BY <1>0, <2>2, <2>4, <2>5, NoticeIsTrue DEF Answer
    <2> QED BY <1>2, <2>1, <2>6 DEF TruthInv, Spoken
  <1>6. CASE Reject(c, wire)
    <2>1. UNCHANGED <<log, down>> /\ Answer(c, wire, FALSE, Now, Now, None)
      BY <1>6 DEF Reject
    <2>2. Ack(wire.tick, FALSE, Now, Now) \in Truthful(log)
      BY <1>0, <1>1, RefusalIsTrue
    <2>3. job' \in Notices(log)
      BY <1>0, <2>1, <2>2, NoticeIsTrue DEF Answer
    <2> QED BY <1>2, <2>1, <2>3 DEF TruthInv, Spoken
  <1>7. CASE Accept(c, wire)
    <2> DEFINE e == Entry("me", wire.tick, wire.command)
    <2>1. /\ UNCHANGED down /\ log' = Append(log, e)
          /\ Answer(c, wire, TRUE, Now + 1, Now + 1, NewEvent(wire.tick))
      BY <1>7 DEF Accept
    <2>2. /\ log' \in Seq(Entries) /\ Len(log') <= MaxLog
          /\ Grown(log', log) /\ Len(log') = Now + 1 /\ log'[Now + 1] = e
      <3>1. /\ wire.tick \in 0 .. MaxTick + MaxLog /\ wire.command \in Commands \cup {None}
            /\ "me" \in {"me", "peer"} /\ Now < MaxLog
        BY <1>0, <1>7, TicksAreNumbers, ChannelAssumption DEF Accept
      <3> QED BY <1>0, <2>1, <3>1, AppendsEntry
    <2>3. e.actor = "me" /\ e.tick = wire.tick /\ Ordered(log', Now + 1)
      BY <1>1, <2>2 DEF Ordered, Entry
    <2> HIDE DEF e
    <2>4. Ack(wire.tick, TRUE, Now + 1, Now + 1) \in Truthful(log')
      <3>1. \E i \in 1 .. Now + 1 : Ordered(log', i) /\ log'[i].tick = wire.tick
        BY <1>0, <2>2, <2>3
      <3>2. Now + 1 \in 0 .. Len(log') /\ TRUE \in BOOLEAN
        BY <1>0, <2>2
      <3> QED BY <1>1, <2>2, <3>1, <3>2, AckIsTrue
    <2>5. Event(wire.tick, Now + 1, Now + 1) \in Truthful(log')
      BY <1>0, <2>2, <2>3, EventIsTrue
    <2>6. job' = Notice(c, Ack(wire.tick, TRUE, Now + 1, Now + 1),
                        Event(wire.tick, Now + 1, Now + 1))
      BY <2>1 DEF Answer, NewEvent
    <2>7. job' \in Notices(log')
      BY <2>4, <2>5, <2>6, NoticeIsTrue
    <2>8. Truthful(log) \subseteq Truthful(log')
      BY <1>0, <2>2, TruthGrows
    <2>9. down' \in Seq(Truthful(log')) /\ swept' \in Truthful(log') \cup {None}
      BY <1>2, <2>1, <2>8, SeqMonotonic DEF TruthInv, Spoken
    <2> QED BY <2>7, <2>9 DEF Spoken
  <1> QED BY <1>3, <1>4, <1>5, <1>6, <1>7 DEF HandleInput, Renew, wire

\* An event of another's, and of the sweep of turns, is told as it is logged.
LEMMA ForeignEventIsTrue ==
  ASSUME TruthInv, Now < MaxLog,
         NEW actor \in {"me", "peer"}, NEW tick \in 0 .. MaxTick + MaxLog,
         log' = Append(log, Entry(actor, tick, None))
  PROVE  /\ NewEvent(IF actor = "me" THEN tick ELSE 0) \in Truthful(log')
         /\ Truthful(log) \subseteq Truthful(log') /\ Notices(log) \subseteq Notices(log')
  <1> DEFINE e == Entry(actor, tick, None)
  <1>0. /\ StreamInv /\ log \in Seq(Entries) /\ Now = Len(log) /\ Now \in Nat
    BY NowIsOffset DEF TruthInv, StreamInv, Logged
  <1>1. /\ log' \in Seq(Entries) /\ Len(log') <= MaxLog
        /\ Grown(log', log) /\ Len(log') = Now + 1 /\ log'[Now + 1] = e
    BY <1>0, AppendsEntry
  <1>2. e.actor = actor /\ e.tick = tick
    BY DEF Entry
  <1> HIDE DEF e
  <1> DEFINE mark == IF actor = "me" THEN tick ELSE 0
  <1>3. Event(mark, Now + 1, Now + 1) \in Truthful(log')
    <2>1. Now + 1 \in 1 .. Len(log') /\ Now + 1 \in {Now + 1, None}
      BY <1>0, <1>1
    <2>2. mark = IF log'[Now + 1].actor = "me" THEN log'[Now + 1].tick ELSE 0
      BY <1>1, <1>2
    <2> HIDE DEF mark
    <2> QED BY <1>1, <2>1, <2>2, EventIsTrue
  <1> QED BY <1>0, <1>1, <1>3, TruthGrows DEF NewEvent

LEMMA HubSpeaks ==
  ASSUME TruthInv, HubStep
  PROVE  Spoken'
  <1>0. /\ StreamInv /\ UNCHANGED client
        /\ log \in Seq(Entries) /\ Now = Len(log) /\ Now \in Nat /\ Now <= MaxLog
        /\ down \in Seq(Truthful(log)) /\ job \in Notices(log) \cup {None}
        /\ swept \in Truthful(log) \cup {None} /\ Spoken
    BY NowIsOffset DEF TruthInv, StreamInv, Logged, HubStep, Spoken
  <1>1. ASSUME NEW c \in Connections, HandleInput(c) PROVE Spoken'
    BY <1>0, <1>1, InputSpeaks
  <1>2. ASSUME NEW c \in Connections, Connect(c) \/ ListEvents(c) \/ ParticipantDisconnected(c)
        PROVE  Spoken'
    BY <1>0, <1>2 DEF Connect, ListEvents, ParticipantDisconnected, channels, Spoken
  <1>3. ASSUME NEW c \in Connections, Subscribe(c) PROVE Spoken'
    <2>1. UNCHANGED <<log, job, swept>> /\ down' \in {down, down \o Initial(c)}
      BY <1>3 DEF Subscribe, Sent
    <2>2. down \o Initial(c) \in Seq(Truthful(log))
      BY <1>0, BacklogIsTrue, ConcatProperties
    <2> QED BY <1>0, <2>1, <2>2 DEF Spoken
  <1>4. ASSUME NEW c \in Connections, Disconnect(c) PROVE Spoken'
    <2>1. UNCHANGED <<log, down, swept>> /\ job' \in {job, [job EXCEPT !.caller = None]}
      BY <1>4 DEF Disconnect
    <2>2. job # None => [job EXCEPT !.caller = None] \in Notices(log)
      BY <1>0 DEF Notices
    <2>3. job' \in Notices(log) \cup {None}
      BY <1>0, <1>4, <2>2 DEF Disconnect
    <2> QED BY <1>0, <2>1, <2>3 DEF Spoken
  <1>5. CASE Deliver
    <2>1. UNCHANGED <<log, swept>> /\ job' = None /\ down' = down \o Notified(job) /\ job # None
      BY <1>5 DEF Deliver, Sent
    <2>2. down \o Notified(job) \in Seq(Truthful(log))
      BY <1>0, <2>1, NotifiedIsTrue, ConcatProperties
    <2> QED BY <1>0, <2>1, <2>2 DEF Spoken
  <1>6. CASE DeliverSweep
    <2>1. UNCHANGED <<log, job>> /\ swept' = None /\ down' = down \o OnLink(swept) /\ swept # None
      BY <1>6 DEF DeliverSweep, Sent
    <2>2. OnLink(swept) \in Seq(Truthful(log))
      BY <1>0, <2>1, OneIsSeq DEF OnLink
    <2>3. down \o OnLink(swept) \in Seq(Truthful(log))
      BY <1>0, <2>2, ConcatProperties
    <2> QED BY <1>0, <2>1, <2>3 DEF Spoken
  <1>7. CASE PeerPresence \/ SweepLease
    <2>1. /\ UNCHANGED <<log, down>>
          /\ \/ UNCHANGED swept /\ job' = Notice(None, None, State(Now))
             \/ UNCHANGED job /\ swept' = State(Now)
      BY <1>7 DEF PeerPresence, SweepLease, channels
    <2>2. State(Now) \in Truthful(log)
      <3>1. Now \in 0 .. Len(log)
        BY <1>0
      <3> QED BY <1>0, <3>1, StateIsTrue
    <2>3. Notice(None, None, State(Now)) \in Notices(log)
      BY <2>2, NoticeIsTrue
    <2> QED BY <1>0, <2>1, <2>2, <2>3 DEF Spoken
  <1>8. CASE Restart
    BY <1>0, <1>8 DEF Restart, Spoken
  <1>9. CASE PeerCommand
    <2>1. /\ log' = Append(log, Entry("peer", 0, None)) /\ Now < MaxLog
          /\ UNCHANGED <<down, swept>> /\ job' = Notice(None, None, NewEvent(0))
      BY <1>9 DEF PeerCommand, channels
    <2>2. 0 \in 0 .. MaxTick + MaxLog /\ "peer" \in {"me", "peer"} /\ "peer" # "me"
      BY ChannelAssumption
    <2>3. NewEvent(0) \in Truthful(log') /\ Truthful(log) \subseteq Truthful(log')
      BY <2>1, <2>2, ForeignEventIsTrue
    <2>4. job' \in Notices(log')
      BY <2>1, <2>3, NoticeIsTrue
    <2> QED BY <1>0, <2>1, <2>3, <2>4, SeqMonotonic DEF Spoken
  <1>10. CASE SweepTurn
    <2>1. PICK actor \in {"me", "peer"} :
             /\ log' = Append(log, Entry(actor, Now + 1, None))
             /\ swept' = NewEvent(IF actor = "me" THEN Now + 1 ELSE 0)
      BY <1>10 DEF SweepTurn
    <2>2. Now < MaxLog /\ UNCHANGED <<down, job>>
      BY <1>10 DEF SweepTurn, channels
    <2>3. Now + 1 \in 0 .. MaxTick + MaxLog
      BY <1>0, <2>2, ChannelAssumption
    <2>4. /\ swept' \in Truthful(log') /\ Truthful(log) \subseteq Truthful(log')
          /\ Notices(log) \subseteq Notices(log')
      BY <2>1, <2>2, <2>3, ForeignEventIsTrue
    <2> QED BY <1>0, <2>2, <2>4, SeqMonotonic DEF Spoken
  <1> QED BY <1>1, <1>2, <1>3, <1>4, <1>5, <1>6, <1>7, <1>8, <1>9, <1>10 DEF HubStep

LEMMA ClientHears ==
  ASSUME TruthInv, ClientStep
  PROVE  Spoken'
  <1>0. UNCHANGED hub /\ Spoken
    BY DEF ClientStep, TruthInv
  <1>1. ASSUME NEW command \in Commands, Send(command) PROVE UNCHANGED down
    BY <1>1 DEF Send
  <1>2. ASSUME AckTimeout \/ ForgetEcho \/ Apply \/ Publish PROVE UNCHANGED down
    BY <1>2 DEF AckTimeout, ForgetEcho, Apply, Publish, channels
  <1>3. ASSUME NEW event, Load(event, Now) PROVE UNCHANGED down
    BY <1>3 DEF Load, channels
  <1>4. CASE HandleMessage \/ ConnectionLost
    <2>1. down' = <<>> \/ (down # <<>> /\ down' = Tail(down))
      BY <1>4 DEF HandleMessage, ConnectionLost
    <2>2. down' \in Seq(Truthful(log))
      <3>1. down \in Seq(Truthful(log)) /\ <<>> \in Seq(Truthful(log))
        BY <1>0 DEF Spoken
      <3>2. down # <<>> => Tail(down) \in Seq(Truthful(log))
        BY <3>1, HeadTailProperties
      <3> QED BY <2>1, <3>1, <3>2
    <2> QED BY <1>0, <2>2 DEF Spoken, hub
  <1>5. CASE UNCHANGED down
    BY <1>0, <1>5 DEF Spoken, hub
  <1> QED BY <1>1, <1>2, <1>3, <1>4, <1>5 DEF ClientStep

-----------------------------------------------------------------------------
(* The streams.                                                            *)

LEMMA ClosedIsStream ==
  ASSUME NEW n \in Nat, NEW c \in Connections
  PROVE  /\ Closed \in StreamAt(n) /\ Left(c) \in StreamAt(n)
         /\ [Closed EXCEPT !.phase = "subscribed"] \in StreamAt(n)
         /\ \A k \in 0 .. n : [Closed EXCEPT !.phase = "queued", !.after = k] \in StreamAt(n)
  <1>1. 0 \in 0 .. n
    OBVIOUS
  <1>2. Closed \in StreamAt(n)
    BY <1>1 DEF Closed, StreamAt
  <1>3. [Closed EXCEPT !.phase = "left"] \in StreamAt(n)
    BY <1>2 DEF StreamAt
  <1>4. [Closed EXCEPT !.phase = "subscribed"] \in StreamAt(n)
    BY <1>2 DEF StreamAt
  <1>5. ASSUME NEW k \in 0 .. n
        PROVE  [Closed EXCEPT !.phase = "queued", !.after = k] \in StreamAt(n)
    BY <1>2 DEF StreamAt
  <1> QED BY <1>2, <1>3, <1>4, <1>5 DEF Left

\* The server's streams keep their type; nothing in them is ahead of the log.
LEMMA StreamsKeep ==
  ASSUME TruthInv, [Next]_vars
  PROVE  streams' \in [Connections -> StreamAt(Now)]
  <1>0. /\ streams \in [Connections -> StreamAt(Now)] /\ Now \in Nat /\ Now \in 0 .. Now
        /\ offset \in 0 .. Now
    BY NowIsOffset DEF TruthInv, Posted, Shown
  <1>1. ASSUME NEW c \in Connections, HandleInput(c)
        PROVE  streams' \in {streams, [streams EXCEPT ![c] = Left(c)]}
    BY <1>1 DEF HandleInput, RejectPresence, Renew, Repeat, Accept, Reject, Abort
  <1>2. ASSUME NEW c \in Connections, Disconnect(c)
        PROVE  streams' = [streams EXCEPT ![c] = Left(c)]
    BY <1>2 DEF Disconnect
  <1>3. ASSUME NEW c \in Connections, streams' \in {streams, [streams EXCEPT ![c] = Left(c)]}
        PROVE  streams' \in [Connections -> StreamAt(Now)]
    BY <1>0, <1>3, ClosedIsStream
  <1>4. ASSUME NEW c \in Connections, Connect(c)
        PROVE  streams' \in [Connections -> StreamAt(Now)]
    <2>1. streams' = [streams EXCEPT ![c] = [@ EXCEPT !.phase = "connected", !.base = Now]]
      BY <1>0, <1>4 DEF Connect
    <2>2. [streams[c] EXCEPT !.phase = "connected", !.base = Now] \in StreamAt(Now)
      BY <1>0 DEF StreamAt
    <2> QED BY <1>0, <2>1, <2>2
  <1>5. ASSUME NEW c \in Connections, ListEvents(c)
        PROVE  streams' \in [Connections -> StreamAt(Now)]
    <2>1. streams' = [streams EXCEPT ![c] = [@ EXCEPT !.phase = "listed", !.newest = Now]]
      BY <1>0, <1>5 DEF ListEvents
    <2>2. [streams[c] EXCEPT !.phase = "listed", !.newest = Now] \in StreamAt(Now)
      BY <1>0 DEF StreamAt
    <2> QED BY <1>0, <2>1, <2>2
  <1>6. ASSUME NEW c \in Connections, Subscribe(c) \/ ParticipantDisconnected(c)
        PROVE  streams' \in [Connections -> StreamAt(Now)]
    <2>1. streams' \in {[streams EXCEPT ![c] = [Closed EXCEPT !.phase = "subscribed"]],
                        [streams EXCEPT ![c] = Closed]}
      BY <1>6 DEF Subscribe, ParticipantDisconnected
    <2> QED BY <1>0, <2>1, ClosedIsStream
  <1>7. ASSUME NEW c \in Connections, Reconnect(c)
        PROVE  streams' \in [Connections -> StreamAt(Now)]
    <2>1. streams' = [streams EXCEPT ![c] = [Closed EXCEPT !.phase = "queued", !.after = offset]]
      BY <1>7 DEF Reconnect
    <2> QED BY <1>0, <2>1, ClosedIsStream
  <1>8. ASSUME Restart PROVE streams' \in [Connections -> StreamAt(Now)]
    BY <1>0, <1>8, ClosedIsStream DEF Restart
  <1>9. ASSUME \/ Deliver \/ DeliverSweep \/ PeerCommand \/ PeerPresence
               \/ SweepTurn \/ SweepLease \/ UNCHANGED hub
        PROVE  streams' = streams
    BY <1>9 DEF Deliver, DeliverSweep, PeerCommand, PeerPresence, SweepTurn, SweepLease, hub
  <1> QED BY <1>0, <1>1, <1>2, <1>3, <1>4, <1>5, <1>6, <1>7, <1>8, <1>9
          DEF Next, HubStep, ClientStep, vars

LEMMA LeaseKeeps ==
  ASSUME leased \in BOOLEAN, [Next]_vars
  PROVE  leased' \in BOOLEAN
  <1>1. ASSUME NEW c \in Connections, ParticipantDisconnected(c) PROVE leased' \in BOOLEAN
    BY <1>1 DEF ParticipantDisconnected
  <1>2. ASSUME NEW c \in Connections,
               \/ HandleInput(c) \/ Connect(c) \/ ListEvents(c) \/ Subscribe(c)
               \/ Disconnect(c) \/ Reconnect(c)
        PROVE  leased' \in {leased, TRUE}
    BY <1>2 DEF HandleInput, Connect, ListEvents, Subscribe, Disconnect, Reconnect
  <1>3. ASSUME \/ Deliver \/ DeliverSweep \/ PeerCommand \/ PeerPresence
               \/ SweepTurn \/ SweepLease \/ Restart \/ UNCHANGED hub
        PROVE  leased' \in {leased, FALSE}
    BY <1>3 DEF Deliver, DeliverSweep, PeerCommand, PeerPresence, SweepTurn, SweepLease,
                Restart, hub
  <1> QED BY <1>1, <1>2, <1>3 DEF Next, HubStep, ClientStep, vars

LEMMA LinkKeeps ==
  ASSUME TruthInv, [Next]_vars
  PROVE  link' \in Connections \cup {"none", "over"}
  <1>0. link \in Connections \cup {"none", "over"}
    BY DEF TruthInv, Posted
  <1>1. ASSUME HubStep PROVE link' = link
    <2>1. ASSUME NEW c \in Connections,
                 \/ HandleInput(c) \/ Connect(c) \/ ListEvents(c) \/ Subscribe(c)
                 \/ Disconnect(c) \/ ParticipantDisconnected(c)
          PROVE  link' = link
      BY <2>1 DEF HandleInput, Connect, ListEvents, Subscribe, Disconnect,
                  ParticipantDisconnected, channels
    <2>2. ASSUME \/ Deliver \/ DeliverSweep \/ PeerCommand \/ PeerPresence
                 \/ SweepTurn \/ SweepLease \/ Restart
          PROVE  link' = link
      BY <2>2 DEF Deliver, DeliverSweep, PeerCommand, PeerPresence, SweepTurn, SweepLease,
                  Restart, channels
    <2> QED BY <1>1, <2>1, <2>2 DEF HubStep
  <1>2. ASSUME ClientStep PROVE link' \in {link, "none", "over"}
    <2>1. ASSUME NEW command \in Commands, Send(command) PROVE link' = link
      BY <2>1 DEF Send
    <2>2. ASSUME HandleMessage PROVE link' \in {link, "none", "over"}
      BY <2>2 DEF HandleMessage, HandleAck, HandleEvent, HandleState, HandleFailure
    <2>3. ASSUME AckTimeout \/ ConnectionLost \/ ForgetEcho \/ Apply \/ Publish
          PROVE  link' \in {link, "none"}
      BY <2>3 DEF AckTimeout, ConnectionLost, ForgetEcho, Apply, Publish, channels
    <2>4. ASSUME NEW event, Load(event, Now) PROVE link' = link
      BY <2>4 DEF Load, channels
    <2> QED BY <1>2, <2>1, <2>2, <2>3, <2>4 DEF ClientStep
  <1>3. ASSUME NEW c \in Connections, Reconnect(c) PROVE link' = c
    BY <1>3 DEF Reconnect
  <1>4. CASE UNCHANGED vars
    BY <1>0, <1>4 DEF vars, channels
  <1> QED BY <1>0, <1>1, <1>2, <1>3, <1>4 DEF Next

\* No stream has more under way to the server than fits.
LEMMA QueuesKeep ==
  ASSUME TruthInv, [Next]_vars
  PROVE  \A d \in Connections : Len(up'[d]) <= MaxQueue
  <1>0. /\ up \in [Connections -> Seq(Wires)] /\ \A d \in Connections : Len(up[d]) <= MaxQueue
        /\ MaxQueue \in Nat \ {0} /\ StreamInv
    BY ChannelAssumption DEF TruthInv, StreamInv, Wired, Posted
  <1>1. ASSUME NEW c \in Connections, HandleInput(c)
        PROVE  \A d \in Connections : Len(up'[d]) <= MaxQueue
    <2>1. up' = [up EXCEPT ![c] = Tail(@)] /\ up[c] # <<>> /\ up[c] \in Seq(Wires)
      BY <1>0, <1>1 DEF HandleInput
    <2>2. Len(Tail(up[c])) <= MaxQueue
      BY <1>0, <2>1, HeadTailProperties
    <2> QED BY <1>0, <2>1, <2>2
  <1>2. ASSUME NEW command \in Commands, Send(command)
        PROVE  \A d \in Connections : Len(up'[d]) <= MaxQueue
    <2>1. CASE link \in Connections
      <3> DEFINE wire == WireFor(command)
      <3>1. up' = [up EXCEPT ![link] = Append(@, wire)] /\ Len(up[link]) < MaxQueue
        BY <1>2, <2>1 DEF Send
      <3> HIDE DEF wire
      <3>2. up[link] \in Seq(Wires \cup {wire})
        BY <1>0, <2>1, SeqMonotonic
      <3>3. Len(Append(up[link], wire)) <= MaxQueue
        BY <1>0, <2>1, <3>1, <3>2, AppendProperties
      <3> QED BY <1>0, <2>1, <3>1, <3>3
    <2>2. CASE link \notin Connections
      BY <1>0, <1>2, <2>2 DEF Send
    <2> QED BY <2>1, <2>2
  <1>3. ASSUME NEW c \in Connections,
               \/ Connect(c) \/ ListEvents(c) \/ Subscribe(c)
               \/ Disconnect(c) \/ ParticipantDisconnected(c) \/ Reconnect(c)
        PROVE  up' \in {up, [up EXCEPT ![c] = <<>>]}
    BY <1>3 DEF Connect, ListEvents, Subscribe, Disconnect, ParticipantDisconnected,
                Reconnect, channels
  <1>4. ASSUME NEW c \in Connections, up' \in {up, [up EXCEPT ![c] = <<>>]}
        PROVE  \A d \in Connections : Len(up'[d]) <= MaxQueue
    BY <1>0, <1>4
  <1>5. ASSUME Restart PROVE \A d \in Connections : Len(up'[d]) <= MaxQueue
    BY <1>0, <1>5 DEF Restart
  <1>6. ASSUME \/ Deliver \/ DeliverSweep \/ PeerCommand \/ PeerPresence
               \/ SweepTurn \/ SweepLease \/ UNCHANGED vars
        PROVE  up' = up
    BY <1>6 DEF Deliver, DeliverSweep, PeerCommand, PeerPresence, SweepTurn, SweepLease,
                vars, channels
  <1>7. ASSUME \/ AckTimeout \/ HandleMessage \/ ConnectionLost
               \/ ForgetEcho \/ Apply \/ Publish \/ \E event \in loading : Load(event, Now)
        PROVE  up' = up
    BY <1>7 DEF AckTimeout, HandleMessage, ConnectionLost, ForgetEcho, Apply, Publish, Load,
                channels
  <1> QED BY <1>0, <1>1, <1>2, <1>3, <1>4, <1>5, <1>6, <1>7 DEF Next, HubStep, ClientStep

-----------------------------------------------------------------------------
(* The client.                                                             *)

\* What the head of the stream says, when the client handles it.
LEMMA HeadIsTrue ==
  ASSUME TruthInv, down # <<>>
  PROVE  Head(down) \in ServerMessage /\ Says(log, Head(down))
  <1>1. Head(down) \in Truthful(log)
    BY HeadTailProperties DEF TruthInv, Spoken
  <1> QED BY <1>1 DEF Truthful

\* An answer that is accepted for the tick the client waits for is an answer
\* to its command: the tick has been used for no other.
LEMMA AnswerIsOwn ==
  ASSUME TruthInv, NEW m, m \in ServerMessage, Says(log, m), m.kind = "ack", Answers(m)
  PROVE  [stage |-> "answered", wire |-> order.wire,
          result |-> [accepted |-> m.accepted,
                      offset |-> IF m.snapshot > m.offset THEN m.snapshot ELSE m.offset]]
            \in Answered(log)
  <1> DEFINE last == IF m.snapshot > m.offset THEN m.snapshot ELSE m.offset
             o == [stage |-> "answered", wire |-> order.wire,
                   result |-> [accepted |-> m.accepted, offset |-> last]]
  <1>0. StreamInv /\ log \in Seq(Entries) /\ Len(log) \in Nat /\ Now = Len(log)
    BY NowIsOffset DEF TruthInv, StreamInv, Logged
  <1>1. /\ order.stage = "pending" /\ order.wire \in Wires /\ order.wire.tick = m.tick
        /\ order.wire \in Used
    BY <1>0 DEF Answers, StreamInv, Wired, Used
  <1>2. /\ m.accepted \in BOOLEAN /\ m.offset \in 0 .. Len(log)
        /\ last \in m.offset .. Len(log) /\ last \in 0 .. Len(log)
    BY <1>0 DEF ServerMessage, Offsets, Says
  <1>3. o \in [stage : {"answered"}, wire : Wires,
               result : [accepted : BOOLEAN, offset : 0 .. Len(log)]]
    BY <1>1, <1>2
  <1>4. ASSUME m.accepted PROVE \E k \in 1 .. last : Names(log, k, order.wire)
    <2>1. PICK k \in 1 .. m.offset : Ordered(log, k) /\ log[k].tick = m.tick
      BY <1>4 DEF Says, AnswerIn
    <2>2. k \in 1 .. Now /\ k \in 1 .. last /\ log[k] \in Entries
      BY <1>0, <1>2
    <2> DEFINE other == [tick |-> order.wire.tick, command |-> log[k].command]
    <2>3. other \in Wires
      BY <1>1, <2>1, <2>2 DEF Wires, Entries, Ordered
    <2>4. Names(log, k, other)
      BY <1>1, <2>1 DEF Names
    <2>5. other \in Used /\ other.tick = order.wire.tick
      BY <2>2, <2>3, <2>4 DEF Used
    <2>6. other = order.wire
      BY <1>1, <2>5 DEF TruthInv, OneUse
    <2> QED BY <2>2, <2>4, <2>6
  <1> HIDE DEF last
  <1>5. o.result.accepted = m.accepted /\ o.result.offset = last /\ o.wire = order.wire
    OBVIOUS
  <1> QED BY <1>3, <1>4, <1>5 DEF Answered, last

LEMMA OrderKeeps ==
  ASSUME TruthInv, ClientStep
  PROVE  order' \in {Idle} \cup {Pending(wire) : wire \in Wires} \cup Answered(log)
  <1>0. order \in {Idle} \cup {Pending(wire) : wire \in Wires} \cup Answered(log)
    BY DEF TruthInv, Shown
  <1>1. ASSUME NEW command \in Commands, Send(command)
        PROVE  order' = order \/ \E wire \in Wires : order' = Pending(wire)
    <2>1. WireFor(command) \in Wires
      BY <1>1, ChannelAssumption DEF TruthInv, StreamInv, Wired, WireFor, IsRetry, Wires, Ticks, Send
    <2> QED BY <1>1, <2>1 DEF Send
  <1>2. ASSUME AckTimeout \/ ConnectionLost \/ ForgetEcho \/ Apply \/ Publish
        PROVE  order' \in {order, Idle}
    BY <1>2 DEF AckTimeout, ConnectionLost, ForgetEcho, Apply, Publish, GivenUp
  <1>3. ASSUME HandleMessage PROVE order' \in {order, Idle} \cup Answered(log)
    <2> DEFINE m == Head(down)
    <2>0. m \in ServerMessage /\ Says(log, m)
      BY <1>3, HeadIsTrue DEF HandleMessage
    <2> HIDE DEF m
    <2>1. CASE HandleAck(m)
      BY <2>0, <2>1, AnswerIsOwn DEF HandleAck
    <2>2. CASE HandleEvent(m) \/ HandleState(m) \/ HandleFailure(m)
      BY <2>2 DEF HandleEvent, HandleState, HandleFailure, GivenUp
    <2> QED BY <1>3, <2>1, <2>2 DEF HandleMessage, m
  <1>4. ASSUME NEW event, Load(event, Now) PROVE order' = order
    BY <1>4 DEF Load
  <1> QED BY <1>0, <1>1, <1>2, <1>3, <1>4 DEF ClientStep

\* What the client puts on its way to the screen, and what it loads first.
LEMMA InboxKeeps ==
  ASSUME TruthInv, ClientStep
  PROVE  inbox' \in Seq(Pictures(Now)) /\ loading' \subseteq 0 .. Now
  <1>0. /\ inbox \in Seq(Pictures(Now)) /\ loading \subseteq 0 .. Now
        /\ Now = Len(log) /\ Now \in Nat /\ Now \in Offsets
    BY NowIsOffset DEF TruthInv, Shown
  <1>1. ASSUME NEW snapshot \in 0 .. Now, NEW event \in 0 .. snapshot, Queued(snapshot, event)
        PROVE  inbox' \in Seq(Pictures(Now))
    <2>1. [snapshot |-> snapshot, event |-> event] \in Pictures(Now)
      BY <1>0, <1>1 DEF Pictures
    <2> QED BY <1>0, <1>1, <2>1, AppendProperties DEF Queued
  <1>2. CASE HandleMessage
    <2> DEFINE m == Head(down)
    <2>0. m \in ServerMessage /\ Says(log, m) /\ m.offset \in 0 .. Now
      BY <1>0, <1>2, HeadIsTrue DEF HandleMessage, Says, ServerMessage, Offsets
    <2> HIDE DEF m
    <2>1. CASE HandleAck(m) \/ HandleFailure(m)
      BY <1>0, <2>1 DEF HandleAck, HandleFailure
    <2>2. CASE HandleEvent(m)
      <3>1. m.snapshot = None \/ m.snapshot \in m.offset .. Now
        BY <1>0, <2>0, <2>2 DEF HandleEvent, Says
      <3>2. CASE UNCHANGED inbox /\ loading' \in {loading, loading \cup {m.offset}}
        BY <1>0, <2>0, <3>2
      <3>3. CASE m.snapshot # None /\ Queued(m.snapshot, m.offset) /\ UNCHANGED loading
        <4>1. m.snapshot \in 0 .. Now /\ m.offset \in 0 .. m.snapshot
          BY <1>0, <2>0, <3>1, <3>3
        <4> QED BY <1>0, <1>1, <3>3, <4>1
      <3> QED BY <2>2, <3>2, <3>3 DEF HandleEvent
    <2>3. CASE HandleState(m)
      <3>1. m.snapshot \in 0 .. Now /\ 0 \in 0 .. m.snapshot
        BY <1>0, <2>0, <2>3 DEF HandleState, Says
      <3> QED BY <1>0, <1>1, <2>3, <3>1 DEF HandleState
    <2> QED BY <1>2, <2>1, <2>2, <2>3 DEF HandleMessage, m
  <1>3. ASSUME NEW event \in loading, Load(event, Now)
        PROVE  inbox' \in Seq(Pictures(Now)) /\ loading' \subseteq 0 .. Now
    <2>1. loading' \subseteq 0 .. Now /\ event \in 0 .. Now /\ Now \in 0 .. Now
      BY <1>0, <1>3 DEF Load
    <2> QED BY <1>0, <1>1, <1>3, <2>1 DEF Load
  <1>4. CASE Apply
    <2>1. inbox # <<>> /\ inbox' = Tail(inbox) /\ UNCHANGED loading
      BY <1>4 DEF Apply
    <2> QED BY <1>0, <2>1, HeadTailProperties
  <1>5. ASSUME NEW command \in Commands, Send(command) PROVE UNCHANGED <<inbox, loading>>
    BY <1>5 DEF Send
  <1>6. ASSUME AckTimeout \/ ConnectionLost \/ ForgetEcho \/ Publish
        PROVE  UNCHANGED <<inbox, loading>>
    BY <1>6 DEF AckTimeout, ConnectionLost, ForgetEcho, Publish
  <1> QED BY <1>0, <1>2, <1>3, <1>4, <1>5, <1>6 DEF ClientStep

\* What is on the screen is a state the match has been in.
LEMMA OffsetKeeps ==
  ASSUME TruthInv, ClientStep
  PROVE  offset' \in 0 .. Now
  <1>0. /\ offset \in 0 .. Now /\ inbox \in Seq(Pictures(Now)) /\ Now = Len(log)
        /\ order \in {Idle} \cup {Pending(wire) : wire \in Wires} \cup Answered(log)
    BY NowIsOffset DEF TruthInv, Shown
  <1>1. CASE Apply
    <2> DEFINE item == Head(inbox)
    <2>1. item.snapshot \in 0 .. Now /\ item.event \in 0 .. Now
      BY <1>0, <1>1, HeadTailProperties DEF Apply, Pictures
    <2>2. offset' = IF Incoming(item) = None THEN offset ELSE Incoming(item)
      BY <1>1 DEF Apply
    <2> HIDE DEF item
    <2>3. Incoming(item) \in (0 .. Now) \cup {None}
      BY <2>1 DEF Incoming
    <2> QED BY <1>0, <2>2, <2>3
  <1>2. CASE Publish
    <2>1. order \in Answered(log)
      BY <1>0, <1>2 DEF Publish, Idle, Pending
    <2> QED BY <1>0, <1>2, <2>1 DEF Publish, Answered
  <1>3. ASSUME NEW command \in Commands, Send(command) PROVE UNCHANGED offset
    BY <1>3 DEF Send
  <1>4. ASSUME AckTimeout \/ ConnectionLost \/ ForgetEcho \/ HandleMessage PROVE UNCHANGED offset
    BY <1>4 DEF AckTimeout, ConnectionLost, ForgetEcho, HandleMessage
  <1>5. ASSUME NEW event, Load(event, Now) PROVE UNCHANGED offset
    BY <1>5 DEF Load
  <1> QED BY <1>0, <1>1, <1>2, <1>3, <1>4, <1>5 DEF ClientStep

LEMMA TicksKeep ==
  ASSUME TruthInv, ClientStep
  PROVE  nextTick' \in 1 .. MaxTick + 1 /\ echo' \subseteq Ticks
  <1>0. /\ nextTick \in 1 .. MaxTick + 1 /\ echo \subseteq Ticks /\ MaxTick \in Nat
        /\ retry \in Wires \cup {None}
    BY ChannelAssumption DEF TruthInv, Shown, StreamInv, Wired
  <1>1. ASSUME NEW command \in Commands, Send(command)
        PROVE  nextTick' \in 1 .. MaxTick + 1 /\ echo' \subseteq Ticks
    <2>1. WireFor(command).tick \in Ticks
      BY <1>0, <1>1, TicksAreNumbers DEF WireFor, IsRetry, Send, Ticks
    <2>2. echo' \subseteq Ticks
      BY <1>0, <1>1, <2>1 DEF Send
    <2>3. nextTick' \in 1 .. MaxTick + 1
      BY <1>0, <1>1 DEF Send, WireFor
    <2> QED BY <2>2, <2>3
  <1>2. ASSUME \/ AckTimeout \/ ConnectionLost \/ HandleMessage \/ Apply \/ Publish
               \/ \E event \in loading : Load(event, Now)
        PROVE  UNCHANGED <<nextTick, echo>>
    BY <1>2 DEF AckTimeout, ConnectionLost, HandleMessage, Apply, Publish, Load
  <1>3. CASE ForgetEcho
    BY <1>0, <1>3 DEF ForgetEcho
  <1> QED BY <1>0, <1>1, <1>2, <1>3 DEF ClientStep

-----------------------------------------------------------------------------
(* Ticks.                                                                  *)

LEMMA UsedParts ==
  ASSUME TruthInv
  PROVE  /\ Used \subseteq Wires
         /\ \A c \in Connections : \A i \in 1 .. Len(up[c]) : up[c][i] \in Used
         /\ order.stage = "pending" => order.wire \in Used
         /\ retry # None => retry \in Used
         /\ \A k \in 1 .. Now : \A wire \in Wires : Names(log, k, wire) => wire \in Used
         /\ nextTick \in Nat /\ \A wire \in Wires : wire.tick \in Nat
  <1>1. /\ up \in [Connections -> Seq(Wires)] /\ (order.stage = "pending" => order.wire \in Wires)
        /\ retry \in Wires \cup {None} /\ nextTick \in Nat
    BY DEF TruthInv, StreamInv, Wired
  <1>2. \A c \in Connections : \A i \in 1 .. Len(up[c]) : up[c][i] \in Wires
    BY <1>1
  <1> QED BY <1>1, <1>2, TicksAreNumbers DEF Used

\* Ticks keep to one command each when every wire that is in use has been in
\* use, or is the one a new tick has been drawn for.
LEMMA OneUseKeeps ==
  ASSUME TruthInv, NEW fresh, fresh \subseteq Wires,
         \A v, w \in fresh : v = w,
         \A w \in fresh : nextTick <= w.tick /\ w.tick < nextTick',
         nextTick' \in Nat, nextTick <= nextTick',
         \A c \in Connections : \A i \in 1 .. Len(up'[c]) : up'[c][i] \in Used \cup fresh,
         order'.stage = "pending" => order'.wire \in Used \cup fresh,
         retry' # None => retry' \in Used \cup fresh,
         \A k \in 1 .. Now' : \A w \in Wires : Names(log', k, w) => w \in Used
  PROVE  OneUse'
  <1>1. Used' \subseteq Used \cup fresh
    BY DEF Used
  <1>2. /\ \A v, w \in Used : v.tick = w.tick => v = w
        /\ \A w \in Used : w.tick < nextTick
    BY DEF TruthInv, OneUse
  <1>3. nextTick \in Nat /\ \A w \in Used \cup fresh : w.tick \in Nat
    BY UsedParts
  <1>4. ASSUME NEW v \in Used \cup fresh, NEW w \in Used \cup fresh, v.tick = w.tick
        PROVE  v = w
    <2>1. v \in Used /\ w \in fresh => v.tick < w.tick
      BY <1>2, <1>3
    <2>2. v \in fresh /\ w \in Used => w.tick < v.tick
      BY <1>2, <1>3
    <2> QED BY <1>2, <1>3, <1>4, <2>1, <2>2
  <1>5. ASSUME NEW w \in Used \cup fresh PROVE w.tick < nextTick'
    BY <1>2, <1>3
  <1> HIDE DEF Used
  <1> QED BY <1>1, <1>4, <1>5 DEF OneUse

\* The log's commands have used their ticks, when nothing of "me" is added.
LEMMA LoggedAreUsed ==
  ASSUME TruthInv,
         \/ UNCHANGED log
         \/ \E actor, tick : log' = Append(log, Entry(actor, tick, None))
         \/ \E wire \in Used : log' = Append(log, Entry("me", wire.tick, wire.command))
  PROVE  \A k \in 1 .. Now' : \A w \in Wires : Names(log', k, w) => w \in Used
  <1>0. log \in Seq(Entries) /\ Now = Len(log) /\ Now \in Nat
    BY NowIsOffset DEF TruthInv, StreamInv, Logged
  <1>1. CASE UNCHANGED log
    BY <1>1, UsedParts DEF Now
  <1>2. ASSUME NEW actor, NEW tick, NEW command, log' = Append(log, Entry(actor, tick, command)),
               \A w \in Wires : Names(log', Now + 1, w) => w \in Used
        PROVE  \A k \in 1 .. Now' : \A w \in Wires : Names(log', k, w) => w \in Used
    <2>1. Grown(log', log) /\ Now' = Now + 1
      BY <1>0, <1>2, AppendGrows DEF Now
    <2>2. ASSUME NEW k \in 1 .. Now, NEW w \in Wires, Names(log', k, w) PROVE w \in Used
      <3>1. log'[k] = log[k]
        BY <1>0, <2>1 DEF Grown
      <3> QED BY <2>2, <3>1, UsedParts DEF Names, Ordered
    <2>3. \A k \in 1 .. Now' : k \in 1 .. Now \/ k = Now + 1
      BY <1>0, <2>1
    <2> QED BY <1>2, <2>2, <2>3
  <1>3. ASSUME NEW actor, NEW tick, log' = Append(log, Entry(actor, tick, None))
        PROVE  \A k \in 1 .. Now' : \A w \in Wires : Names(log', k, w) => w \in Used
    <2>1. log'[Now + 1] = Entry(actor, tick, None)
      BY <1>0, <1>3, AppendGrows
    <2>2. \A w \in Wires : ~Names(log', Now + 1, w)
      BY <2>1 DEF Names, Ordered, Entry
    <2> QED BY <1>2, <1>3, <2>2
  <1>4. ASSUME NEW wire \in Used, log' = Append(log, Entry("me", wire.tick, wire.command))
        PROVE  \A k \in 1 .. Now' : \A w \in Wires : Names(log', k, w) => w \in Used
    <2>1. log'[Now + 1] = Entry("me", wire.tick, wire.command)
      BY <1>0, <1>4, AppendGrows
    <2>2. ASSUME NEW w \in Wires, Names(log', Now + 1, w) PROVE w \in Used
      <3>1. w.tick = wire.tick /\ w.command = wire.command
        BY <2>1, <2>2 DEF Names, Entry
      <3>2. w = wire
        BY <3>1, UsedParts DEF Wires
      <3> QED BY <3>2
    <2> QED BY <1>2, <1>4, <2>2
  <1> QED BY <1>1, <1>3, <1>4

LEMMA SendUsesOnce ==
  ASSUME TruthInv, NEW command \in Commands, Send(command), UNCHANGED log
  PROVE  OneUse'
  <1> DEFINE wire == WireFor(command)
             fresh == IF IsRetry(command) THEN {} ELSE {wire}
  <1>0. /\ up \in [Connections -> Seq(Wires)] /\ nextTick \in Nat \ {0} /\ MaxTick \in Nat
        /\ retry \in Wires \cup {None}
    BY ChannelAssumption DEF TruthInv, StreamInv, Wired
  <1>1. wire \in Wires /\ wire \in Used \cup fresh
    <2>1. CASE IsRetry(command)
      BY <1>0, <2>1, UsedParts DEF WireFor, IsRetry
    <2>2. CASE ~IsRetry(command)
      BY <1>0, <2>2 DEF WireFor, Send, Wires, Ticks
    <2> QED BY <2>1, <2>2
  <1>2. /\ fresh \subseteq Wires /\ \A v, w \in fresh : v = w
        /\ \A w \in fresh : nextTick <= w.tick /\ w.tick < nextTick'
        /\ nextTick' \in Nat /\ nextTick <= nextTick'
    <2>1. CASE IsRetry(command)
      BY <1>0, <2>1 DEF Send
    <2>2. CASE ~IsRetry(command)
      BY <1>0, <1>1, <2>2 DEF Send, WireFor
    <2> QED BY <2>1, <2>2
  <1>3. \A k \in 1 .. Now' : \A w \in Wires : Names(log', k, w) => w \in Used
    BY LoggedAreUsed
  <1>4. CASE link \in Connections
    <2>1. /\ up' = [up EXCEPT ![link] = Append(@, wire)] /\ order' = Pending(wire)
          /\ retry' \in {retry, None}
      BY <1>4 DEF Send
    <2> HIDE DEF wire, fresh
    <2>2. \A c \in Connections : \A i \in 1 .. Len(up'[c]) : up'[c][i] \in Used \cup fresh
      <3>1. ASSUME NEW i \in 1 .. Len(Append(up[link], wire))
            PROVE  Append(up[link], wire)[i] \in Used \cup fresh
        <4>1. /\ Len(Append(up[link], wire)) = Len(up[link]) + 1 /\ Len(up[link]) \in Nat
              /\ \A j \in 1 .. Len(up[link]) : Append(up[link], wire)[j] = up[link][j]
              /\ Append(up[link], wire)[Len(up[link]) + 1] = wire
          BY <1>0, <1>1, <1>4, AppendProperties
        <4>2. i \in 1 .. Len(up[link]) \/ i = Len(up[link]) + 1
          BY <4>1
        <4> QED BY <1>1, <1>4, <4>1, <4>2, UsedParts
      <3>2. up'[link] = Append(up[link], wire) /\ \A c \in Connections \ {link} : up'[c] = up[c]
        BY <1>0, <1>4, <2>1
      <3> QED BY <1>4, <3>1, <3>2, UsedParts
    <2>3. order'.stage = "pending" => order'.wire \in Used \cup fresh
      BY <1>1, <2>1 DEF Pending
    <2>4. retry' # None => retry' \in Used \cup fresh
      BY <2>1, UsedParts
    <2> QED BY <1>2, <1>3, <2>2, <2>3, <2>4, OneUseKeeps
  <1>5. CASE link \notin Connections
    <2>1. UNCHANGED <<up, order>> /\ retry' = wire
      BY <1>5 DEF Send
    <2> HIDE DEF wire, fresh
    <2>2. /\ \A c \in Connections : \A i \in 1 .. Len(up'[c]) : up'[c][i] \in Used \cup fresh
          /\ order'.stage = "pending" => order'.wire \in Used \cup fresh
          /\ retry' # None => retry' \in Used \cup fresh
      BY <1>1, <2>1, UsedParts
    <2> QED BY <1>2, <1>3, <2>2, OneUseKeeps
  <1> QED BY <1>4, <1>5

\* Nothing is sent: what may still be handled, answered or repeated only
\* becomes less, or moves on to the log.
LEMMA UseMovesOn ==
  ASSUME TruthInv, nextTick' = nextTick,
         \/ GivenUp \/ UNCHANGED <<order, retry>>
         \/ UNCHANGED retry /\ order' = Idle
         \/ retry' = None /\ order'.stage = "answered",
         \A c \in Connections : \A i \in 1 .. Len(up'[c]) : up'[c][i] \in Used,
         \/ UNCHANGED log
         \/ \E actor, tick : log' = Append(log, Entry(actor, tick, None))
         \/ \E wire \in Used : log' = Append(log, Entry("me", wire.tick, wire.command))
  PROVE  OneUse'
  <1>1. order'.stage = "pending" => order'.wire \in Used
    BY UsedParts DEF GivenUp, Idle
  <1>2. retry' # None => retry' \in Used
    BY UsedParts DEF GivenUp
  <1>3. \A k \in 1 .. Now' : \A w \in Wires : Names(log', k, w) => w \in Used
    BY LoggedAreUsed
  <1>4. nextTick \in Nat /\ nextTick' \in Nat /\ nextTick <= nextTick'
    BY UsedParts
  <1> DEFINE fresh == {}
  <1>5. /\ fresh \subseteq Wires /\ \A v, w \in fresh : v = w
        /\ \A w \in fresh : nextTick <= w.tick /\ w.tick < nextTick'
        /\ Used \cup fresh = Used
    OBVIOUS
  <1> HIDE DEF fresh
  <1> QED BY <1>1, <1>2, <1>3, <1>4, <1>5, OneUseKeeps

\* A handled command leaves the stream and may move on to the log.
LEMMA InputUses ==
  ASSUME TruthInv, NEW c \in Connections, HandleInput(c), UNCHANGED client
  PROVE  OneUse'
  <1>1. up' = [up EXCEPT ![c] = Tail(@)] /\ up[c] # <<>> /\ up \in [Connections -> Seq(Wires)]
    BY DEF HandleInput, TruthInv, StreamInv, Wired
  <1>2. /\ Head(up[c]) = up[c][1] /\ Len(up[c]) \in Nat \ {0}
        /\ Len(Tail(up[c])) = Len(up[c]) - 1
        /\ \A i \in 1 .. Len(Tail(up[c])) : Tail(up[c])[i] = up[c][i + 1]
    BY <1>1, HeadTailProperties
  <1>3. Head(up[c]) \in Used
    <2>1. 1 \in 1 .. Len(up[c])
      BY <1>2
    <2> QED BY <1>2, <2>1, UsedParts
  <1>4. ASSUME NEW i \in 1 .. Len(Tail(up[c])) PROVE Tail(up[c])[i] \in Used
    <2>1. i + 1 \in 1 .. Len(up[c])
      BY <1>2
    <2> QED BY <1>2, <2>1, UsedParts
  <1>5. \A d \in Connections : \A i \in 1 .. Len(up'[d]) : up'[d][i] \in Used
    <2>1. up'[c] = Tail(up[c]) /\ \A d \in Connections \ {c} : up'[d] = up[d]
      BY <1>1
    <2> QED BY <1>4, <2>1, UsedParts
  <1>6. UNCHANGED log \/ \E wire \in Used : log' = Append(log, Entry("me", wire.tick, wire.command))
    BY <1>3 DEF HandleInput, RejectPresence, Renew, Repeat, Accept, Reject, Abort
  <1> QED BY <1>5, <1>6, UseMovesOn DEF client

\* A step that drops commands on their way, if anything.
LEMMA DroppingUses ==
  ASSUME TruthInv, nextTick' = nextTick,
         \/ GivenUp \/ UNCHANGED <<order, retry>>
         \/ UNCHANGED retry /\ order' = Idle
         \/ retry' = None /\ order'.stage = "answered",
         UNCHANGED log \/ \E actor, tick : log' = Append(log, Entry(actor, tick, None)),
         \/ UNCHANGED up
         \/ \E c \in Connections : up' = [up EXCEPT ![c] = <<>>]
         \/ up' = [c \in Connections |-> <<>>]
  PROVE  OneUse'
  <1>0. up \in [Connections -> Seq(Wires)]
    BY DEF TruthInv, StreamInv, Wired
  <1>1. \A d \in Connections : \A i \in 1 .. Len(up'[d]) : up'[d][i] \in Used
    <2>1. CASE UNCHANGED up
      BY <2>1, UsedParts
    <2>2. ASSUME NEW c \in Connections, up' = [up EXCEPT ![c] = <<>>]
          PROVE  \A d \in Connections : \A i \in 1 .. Len(up'[d]) : up'[d][i] \in Used
      <3>1. up'[c] = <<>> /\ \A d \in Connections \ {c} : up'[d] = up[d]
        BY <1>0, <2>2
      <3>2. \A i \in 1 .. Len(up'[c]) : FALSE
        BY <3>1
      <3> QED BY <3>1, <3>2, UsedParts
    <2>3. CASE up' = [c \in Connections |-> <<>>]
      <3>1. \A d \in Connections : \A i \in 1 .. Len(up'[d]) : FALSE
        BY <2>3
      <3> QED BY <3>1
    <2> QED BY <2>1, <2>2, <2>3
  <1> QED BY <1>1, UseMovesOn

LEMMA UseKeeps ==
  ASSUME TruthInv, [Next]_vars
  PROVE  OneUse'
  <1>1. ASSUME HubStep PROVE OneUse'
    <2>0. UNCHANGED client
      BY <1>1 DEF HubStep
    <2>1. ASSUME NEW c \in Connections, HandleInput(c) PROVE OneUse'
      BY <2>0, <2>1, InputUses
    <2>2. ASSUME NEW c \in Connections,
                 \/ Connect(c) \/ ListEvents(c) \/ Subscribe(c)
                 \/ Disconnect(c) \/ ParticipantDisconnected(c)
          PROVE  OneUse'
      <3>1. UNCHANGED log /\ (UNCHANGED up \/ up' = [up EXCEPT ![c] = <<>>])
        BY <2>2 DEF Connect, ListEvents, Subscribe, Disconnect, ParticipantDisconnected, channels
      <3> QED BY <2>0, <3>1, DroppingUses DEF client
    <2>3. CASE Deliver \/ DeliverSweep \/ PeerPresence \/ SweepLease \/ Restart
      <3>1. UNCHANGED log /\ (UNCHANGED up \/ up' = [c \in Connections |-> <<>>])
        BY <2>3 DEF Deliver, DeliverSweep, PeerPresence, SweepLease, Restart, channels
      <3> QED BY <2>0, <3>1, DroppingUses DEF client
    <2>4. CASE PeerCommand \/ SweepTurn
      <3>1. UNCHANGED up /\ \E actor, tick : log' = Append(log, Entry(actor, tick, None))
        BY <2>4 DEF PeerCommand, SweepTurn, channels
      <3> QED BY <2>0, <3>1, DroppingUses DEF client
    <2> QED BY <1>1, <2>1, <2>2, <2>3, <2>4 DEF HubStep
  <1>2. ASSUME ClientStep PROVE OneUse'
    <2>0. UNCHANGED log
      BY <1>2 DEF ClientStep, hub
    <2>1. ASSUME NEW command \in Commands, Send(command) PROVE OneUse'
      BY <2>0, <2>1, SendUsesOnce
    <2>2. CASE AckTimeout \/ ConnectionLost \/ ForgetEcho \/ Apply \/ Publish
      <3>1. /\ UNCHANGED <<up, nextTick>>
            /\ \/ GivenUp \/ UNCHANGED <<order, retry>>
               \/ UNCHANGED retry /\ order' = Idle
        BY <2>2 DEF AckTimeout, ConnectionLost, ForgetEcho, Apply, Publish, channels
      <3> QED BY <2>0, <3>1, DroppingUses
    <2>3. CASE HandleMessage
      <3>1. UNCHANGED <<up, nextTick>>
        BY <2>3 DEF HandleMessage
      <3>2. \/ GivenUp \/ UNCHANGED <<order, retry>>
            \/ retry' = None /\ order'.stage = "answered"
        BY <2>3 DEF HandleMessage, HandleAck, HandleEvent, HandleState, HandleFailure
      <3> QED BY <2>0, <3>1, <3>2, DroppingUses
    <2>4. ASSUME NEW event, Load(event, Now) PROVE OneUse'
      <3>1. UNCHANGED <<up, nextTick, order, retry>>
        BY <2>4 DEF Load, channels
      <3> QED BY <2>0, <3>1, DroppingUses
    <2> QED BY <1>2, <2>1, <2>2, <2>3, <2>4 DEF ClientStep
  <1>3. ASSUME NEW c \in Connections, Reconnect(c) PROVE OneUse'
    <2>1. UNCHANGED <<log, client>> /\ up' = [up EXCEPT ![c] = <<>>]
      BY <1>3 DEF Reconnect
    <2> QED BY <2>1, DroppingUses DEF client
  <1>4. CASE UNCHANGED vars
    <2>1. UNCHANGED <<log, up, client>>
      BY <1>4 DEF vars, hub, channels
    <2> QED BY <2>1, DroppingUses DEF client
  <1> QED BY <1>1, <1>2, <1>3, <1>4 DEF Next

-----------------------------------------------------------------------------
(* The theorems about what is told.                                        *)

LEMMA ShownKeeps ==
  ASSUME TruthInv, StreamInv', [Next]_vars
  PROVE  Shown'
  <1>0. /\ StreamInv /\ log \in Seq(Entries) /\ log' \in Seq(Entries)
        /\ Grown(log', log) /\ Len(log) \in Nat /\ Len(log') \in Nat
        /\ Now = Len(log) /\ Now' = Len(log') /\ Len(log) <= Len(log')
    BY LogGrows DEF TruthInv, StreamInv, Logged, Now, Grown
  <1>1. 0 .. Now \subseteq 0 .. Now'
    BY <1>0
  <1>2. Answered(log) \subseteq Answered(log') /\ Seq(Pictures(Now)) \subseteq Seq(Pictures(Now'))
    BY <1>0, TruthGrows, SeqMonotonic
  <1>3. CASE ClientStep
    <2>1. UNCHANGED log
      BY <1>3 DEF ClientStep, hub
    <2> QED BY <1>3, <2>1, OrderKeeps, InboxKeeps, OffsetKeeps, TicksKeep DEF Shown, Now
  <1>4. CASE UNCHANGED client
    <2>1. Shown
      BY DEF TruthInv
    <2> QED BY <1>1, <1>2, <1>4, <2>1 DEF Shown, client
  <1>5. ClientStep \/ UNCHANGED client
    BY DEF Next, HubStep, Reconnect, vars
  <1> QED BY <1>3, <1>4, <1>5

LEMMA TruthNext == TruthInv /\ [Next]_vars => TruthInv'
  <1> SUFFICES ASSUME TruthInv, [Next]_vars PROVE TruthInv'
    OBVIOUS
  <1>1. StreamInv'
    BY NextKeeps DEF TruthInv
  <1>2. Spoken'
    <2>1. CASE HubStep
      BY <2>1, HubSpeaks
    <2>2. CASE ClientStep
      BY <2>2, ClientHears
    <2>3. CASE UNCHANGED <<down, job, swept, log>>
      BY <2>3 DEF TruthInv, Spoken
    <2>4. ASSUME NEW c \in Connections, Reconnect(c) PROVE UNCHANGED <<down, job, swept, log>>
      BY <2>4 DEF Reconnect
    <2>5. UNCHANGED vars => UNCHANGED <<down, job, swept, log>>
      BY DEF vars, channels, hub
    <2> QED BY <2>1, <2>2, <2>3, <2>4, <2>5 DEF Next
  <1>3. Posted'
    <2>1. StreamAt(Now) \subseteq StreamAt(Now')
      BY <1>1, LogGrows, TruthGrows DEF TruthInv, StreamInv, Logged, Now
    <2>2. streams' \in [Connections -> StreamAt(Now')]
      BY <2>1, StreamsKeep
    <2> QED BY <2>2, LeaseKeeps, LinkKeeps, QueuesKeep DEF TruthInv, Posted
  <1>4. Shown' /\ OneUse'
    BY <1>1, ShownKeeps, UseKeeps
  <1> QED BY <1>1, <1>2, <1>3, <1>4 DEF TruthInv

LEMMA InitIsTrue == Init => TruthInv
  <1> SUFFICES ASSUME Init PROVE TruthInv
    OBVIOUS
  <1>0. StreamInv /\ Now = Len(log) /\ Now \in Nat
    BY InitIsWired, NowIsOffset
  <1>1. Spoken
    BY DEF Init, Spoken
  <1>2. Posted
    <2>1. \A c \in Connections : Closed \in StreamAt(Now)
      BY <1>0, ClosedIsStream
    <2>2. streams \in [Connections -> StreamAt(Now)]
      BY <2>1 DEF Init
    <2>3. \A c \in Connections : Len(up[c]) <= MaxQueue
      BY ChannelAssumption DEF Init
    <2>4. leased \in BOOLEAN /\ link = "none"
      BY DEF Init
    <2> QED BY <2>2, <2>3, <2>4 DEF Posted
  <1>3. Now = Started
    BY <1>0, StartAssumption DEF Init
  <1>4. Shown
    <2>0. offset = Started /\ nextTick = 1
      BY DEF Init
    <2>1. offset \in 0 .. Now /\ nextTick \in 1 .. MaxTick + 1
      BY <1>0, <1>3, <2>0, ChannelAssumption
    <2>2. inbox \in Seq(Pictures(Now)) /\ order = Idle /\ echo = {} /\ loading = {}
      BY DEF Init
    <2> QED BY <2>1, <2>2 DEF Shown
  <1>5. Used = {}
    <2>1. ASSUME NEW w \in Used PROVE FALSE
      <3>1. \A c \in Connections : \A i \in 1 .. Len(up[c]) : FALSE
        BY DEF Init
      <3>2. order.stage # "pending" /\ retry = None
        BY DEF Init, Idle
      <3>3. PICK k \in 1 .. Now : Names(log, k, w)
        BY <2>1, <3>1, <3>2 DEF Used
      <3>4. log[k].command = None
        BY <1>3, <3>3 DEF Init, Entry
      <3> QED BY <3>3, <3>4 DEF Names, Ordered
    <2> QED BY <2>1
  <1>6. OneUse
    BY <1>5 DEF OneUse
  <1> QED BY <1>0, <1>1, <1>2, <1>4, <1>6 DEF TruthInv

\* What is under way tells the truth: an answer names the command that was
\* accepted under its tick, an event the entry it was made for, and no
\* snapshot is from before what it comes with (match_command_service.dart).
THEOREM TruthInvariant == Spec => []TruthInv
  BY InitIsTrue, TruthNext, PTL DEF Spec

LEMMA TruthTyped == TruthInv => TypeOK
  <1> SUFFICES ASSUME TruthInv PROVE TypeOK
    OBVIOUS
  <1>0. /\ Now = Len(log) /\ Now \in Nat /\ Now <= MaxLog /\ 0 .. Now \subseteq Offsets
        /\ MaxTick \in Nat /\ MaxLog \in Nat
    BY NowIsOffset, ChannelAssumption DEF TruthInv, Offsets, StreamInv, Logged
  <1>1. ChannelsTyped
    <2>1. \A i \in DOMAIN down : down[i] \in ServerMessage
      BY DEF TruthInv, Spoken, Truthful
    <2>2. \A c \in Connections : \A i \in DOMAIN up[c] : up[c][i] \in Wires
      BY DEF TruthInv, StreamInv, Wired
    <2> QED BY <2>1, <2>2 DEF ChannelsTyped, TruthInv, Posted
  <1>2. HubTyped
    <2>1. \A k \in 1 .. Now : log[k] \in Entries
      BY <1>0 DEF TruthInv, StreamInv, Logged
    <2>2. StreamAt(Now) \subseteq
            [phase : {"closed", "queued", "connected", "listed", "subscribed", "left"},
             after : Offsets, base : Offsets, newest : Offsets]
      BY <1>0 DEF StreamAt
    <2>3. swept \in ServerMessage \cup {None}
      BY DEF TruthInv, Spoken, Truthful
    <2> QED BY <1>0, <2>1, <2>2, <2>3 DEF HubTyped, TruthInv, Posted, Entries
  <1>3. ClientTyped
    <2>1. Answered(log) \subseteq [stage : {"answered"}, wire : Wires,
                                    result : [accepted : BOOLEAN, offset : Offsets]]
      BY <1>0 DEF Answered
    <2>2. \A i \in DOMAIN inbox : inbox[i] \in [snapshot : Offsets, event : Offsets]
      <3>1. Pictures(Now) \subseteq [snapshot : Offsets, event : Offsets]
        BY <1>0 DEF Pictures
      <3>2. \A i \in DOMAIN inbox : inbox[i] \in Pictures(Now)
        BY DEF TruthInv, Shown
      <3> QED BY <3>1, <3>2
    <2>3. retry \in Wires \cup {None}
      BY DEF TruthInv, StreamInv, Wired
    <2> QED BY <1>0, <2>1, <2>2, <2>3 DEF ClientTyped, TruthInv, Shown
  <1> QED BY <1>1, <1>2, <1>3 DEF TypeOK

\* Streams, server and client keep their types and their bounds, for any
\* number of streams, commands and events.
THEOREM StreamTypes == Spec => []TypeOK
  BY TruthInvariant, TruthTyped, PTL

LEMMA TruthPictures == TruthInv => EventsBringTheirState
  <1> SUFFICES ASSUME TruthInv, NEW i \in DOMAIN inbox
               PROVE  inbox[i].snapshot >= inbox[i].event
    BY DEF EventsBringTheirState
  <1>1. inbox[i] \in Pictures(Now) /\ Now \in Nat
    BY NowIsOffset DEF TruthInv, Shown
  <1> QED BY <1>1 DEF Pictures

\* No snapshot that is to show an event is from before the event, whether it
\* came with it or was loaded (_acceptedNetworkSnapshotOffset).
THEOREM EventsComeWithTheirState == Spec => []EventsBringTheirState
  BY TruthInvariant, TruthPictures, PTL

LEMMA TruthAnswers == TruthInv => AnswersAreTrue
  <1> SUFFICES ASSUME TruthInv, order.stage = "answered", order.result.accepted
               PROVE  \E k \in 1 .. order.result.offset : Mine(k, order.wire)
    BY DEF AnswersAreTrue
  <1>1. order \in Answered(log)
    BY DEF TruthInv, Shown, Idle, Pending
  <1>2. PICK k \in 1 .. order.result.offset : Names(log, k, order.wire)
    BY <1>1 DEF Answered
  <1>3. log[k] \in Entries
    <2>1. log \in Seq(Entries) /\ Len(log) \in Nat
      BY DEF TruthInv, StreamInv, Logged
    <2>2. order.result.offset \in 0 .. Len(log)
      BY <1>1 DEF Answered
    <2> QED BY <2>1, <2>2
  <1>4. log[k] = Entry("me", order.wire.tick, order.wire.command)
    BY <1>2, <1>3 DEF Names, Ordered, Entry, Entries
  <1> QED BY <1>4 DEF Mine

\* A command the client is told was accepted is in the match and in the state
\* that comes with the answer, though answers may come late, and to a
\* command that has been sent again (_handleAck, _handleCommand).
THEOREM AnswersTellTheTruth == Spec => []AnswersAreTrue
  BY TruthInvariant, TruthAnswers, PTL

-----------------------------------------------------------------------------
(* Without sweeps.                                                         *)

\* A message of a state of the match, not of a failure.
Carries(m) == m.kind \in {"ack", "event", "state"}

\* Messages that bring their state with them.
Snapped == {m \in ServerMessage : m.kind = "event" => m.snapshot # None}

\* What a job delivers is the state of a log of n events.
Fresh(notice, n) ==
    /\ notice.caller # None => Carries(notice.reply) /\ notice.reply.snapshot = n
    /\ notice.cast # None => Carries(notice.cast) /\ notice.cast.snapshot = n

\* Every event of "me" is a command's.
Commanded == \A k \in 1 .. Now : log[k].actor = "me" => log[k].command # None

\* A job is delivered before the match goes on, and every event with its state.
Prompt == down \in Seq(Snapped) /\ (job # None => Fresh(job, Now))

\* The match does not go on while a stream is connecting.
Level ==
    \A c \in Connections :
        /\ streams[c].phase \in {"connected", "listed"} => streams[c].base = Now
        /\ streams[c].phase = "listed" => streams[c].newest = Now

Calm ==
    /\ swept = None /\ loading = {}
    /\ Commanded /\ Prompt /\ Level /\ PresenceFollowsStreams

CalmInv == TruthInv /\ Calm

LEMMA TruthFacts ==
  ASSUME TruthInv
  PROVE  /\ StreamInv /\ log \in Seq(Entries) /\ Now = Len(log) /\ Now \in Nat
         /\ Now \in 0 .. MaxLog /\ Now # None
         /\ streams \in [Connections -> StreamAt(Now)]
         /\ \A c \in Connections : up[c] \in Seq(Wires)
  BY NowIsOffset, ChannelAssumption DEF TruthInv, StreamInv, Logged, Wired, Posted, Offsets

\* No backlog is longer than what the snapshot has.
LEMMA CalmInitial ==
  ASSUME CalmInv, NEW c \in Connections, streams[c].phase = "listed"
  PROVE  Initial(c) = <<State(Now)>>
  <1> DEFINE from == Larger(streams[c].after, streams[c].base)
             n == streams[c].newest - from
  <1>1. /\ streams[c].base = Now /\ streams[c].newest = Now
        /\ streams[c].after \in 0 .. Now /\ Now \in Nat
    BY TruthFacts DEF CalmInv, Calm, Level, StreamAt
  <1>2. n \in Int /\ n <= 0 /\ 1 .. n = {}
    BY <1>1 DEF Larger
  <1> HIDE DEF n
  <1>3. Backlog(c) = <<>>
    BY <1>2 DEF Backlog, n
  <1> QED BY <1>1, <1>3 DEF Initial

LEMMA FreshIsSnapped ==
  ASSUME CalmInv, job # None
  PROVE  Notified(job) \in Seq(Snapped)
  <1>1. job \in Notices(log) /\ Fresh(job, Now) /\ Now # None
    BY TruthFacts DEF CalmInv, Calm, Prompt, TruthInv, Spoken
  <1>2. job.caller # None => job.reply \in Snapped
    BY <1>1 DEF Notices, Truthful, Fresh, Snapped
  <1>3. job.cast # None => job.cast \in Snapped
    BY <1>1 DEF Notices, Truthful, Fresh, Snapped
  <1> QED BY <1>2, <1>3, OneIsSeq DEF Notified, OnLink

\* What a handled command leaves to be delivered is of the state it led to.
LEMMA InputIsFresh ==
  ASSUME CalmInv, NEW c \in Connections, HandleInput(c)
  PROVE  /\ job' # None => Fresh(job', Now')
         /\ Now' = Now \/ Now' = Now + 1
         /\ down' = down \/ down' = Append(down, Failure(FALSE)) \/ down' = Append(down, Failure(TRUE))
         /\ \A d \in Connections : streams[d].phase \notin {"connected", "listed"}
  <1> DEFINE wire == Head(up[c])
  <1>0. /\ log \in Seq(Entries) /\ Now = Len(log) /\ job = None
        /\ \A d \in Connections : streams[d].phase \notin {"connected", "listed"}
    BY TruthFacts DEF CalmInv, HandleInput, QueueIsFree
  <1> HIDE DEF wire
  <1>1. ASSUME NEW accepted, NEW k, NEW n, NEW cast, Answer(c, wire, accepted, k, n, cast),
               cast = None \/ (Carries(cast) /\ cast.snapshot = n)
        PROVE  Fresh(job', n)
    BY <1>1 DEF Answer, Ack, Notice, Fresh, Carries
  <1>2. CASE RejectPresence(c) \/ Abort(c)
    BY <1>0, <1>2 DEF RejectPresence, Abort, Now
  <1>3. CASE Repeat(c, wire) \/ Reject(c, wire)
    <2>1. UNCHANGED <<log, down>> /\ \E accepted, k : Answer(c, wire, accepted, k, Now, None)
      BY <1>3 DEF Repeat, Reject
    <2> QED BY <1>0, <1>1, <2>1 DEF Now
  <1>4. CASE Accept(c, wire)
    <2>1. /\ UNCHANGED down /\ \E e : log' = Append(log, e)
          /\ Answer(c, wire, TRUE, Now + 1, Now + 1, NewEvent(wire.tick))
      BY <1>4 DEF Accept
    <2>2. Now' = Now + 1
      BY <1>0, <2>1, AppendGrows DEF Now
    <2>3. Carries(NewEvent(wire.tick)) /\ NewEvent(wire.tick).snapshot = Now + 1
      BY DEF NewEvent, Event, Carries
    <2> QED BY <1>0, <1>1, <2>1, <2>2, <2>3
  <1> QED BY <1>2, <1>3, <1>4 DEF HandleInput, Renew, wire

LEMMA CalmUnswept ==
  ASSUME CalmInv, ~Sweeping, [Next]_vars
  PROVE  swept' = None /\ loading' = {}
  <1>0. swept = None /\ loading = {}
    BY DEF CalmInv, Calm
  <1>1. CASE HubStep
    <2>1. UNCHANGED loading
      BY <1>1 DEF HubStep, client
    <2>2. ASSUME NEW c \in Connections,
                 \/ HandleInput(c) \/ Connect(c) \/ ListEvents(c) \/ Subscribe(c)
                 \/ Disconnect(c) \/ ParticipantDisconnected(c)
          PROVE  UNCHANGED swept
      BY <2>2 DEF HandleInput, Connect, ListEvents, Subscribe, Disconnect,
                  ParticipantDisconnected
    <2>3. ASSUME Deliver \/ DeliverSweep \/ PeerCommand \/ PeerPresence \/ Restart
          PROVE  swept' \in {swept, None}
      BY <2>3 DEF Deliver, DeliverSweep, PeerCommand, PeerPresence, Restart
    <2>4. ~SweepTurn /\ ~SweepLease
      BY DEF SweepTurn, SweepLease
    <2> QED BY <1>0, <1>1, <2>1, <2>2, <2>3, <2>4 DEF HubStep
  <1>2. CASE ClientStep
    <2>1. UNCHANGED swept
      BY <1>2 DEF ClientStep, hub
    <2>2. CASE HandleMessage
      <3> DEFINE m == Head(down)
      <3>1. m \in Snapped
        BY <2>2, HeadTailProperties DEF HandleMessage, CalmInv, Calm, Prompt
      <3> HIDE DEF m
      <3>2. UNCHANGED loading
        <4>1. CASE HandleEvent(m)
          BY <3>1, <4>1 DEF HandleEvent, Snapped
        <4>2. CASE HandleAck(m) \/ HandleState(m) \/ HandleFailure(m)
          BY <4>2 DEF HandleAck, HandleState, HandleFailure
        <4> QED BY <2>2, <4>1, <4>2 DEF HandleMessage, m
      <3> QED BY <1>0, <2>1, <3>2
    <2>3. ASSUME NEW command \in Commands, Send(command) PROVE UNCHANGED loading
      BY <2>3 DEF Send
    <2>4. ASSUME AckTimeout \/ ConnectionLost \/ ForgetEcho \/ Apply \/ Publish
          PROVE  UNCHANGED loading
      BY <2>4 DEF AckTimeout, ConnectionLost, ForgetEcho, Apply, Publish
    <2> QED BY <1>0, <1>2, <2>1, <2>2, <2>3, <2>4 DEF ClientStep
  <1>3. ASSUME NEW c \in Connections, Reconnect(c) PROVE UNCHANGED <<swept, loading>>
    BY <1>3 DEF Reconnect, client
  <1>4. UNCHANGED vars => UNCHANGED <<swept, loading>>
    BY DEF vars, hub, client
  <1> QED BY <1>0, <1>1, <1>2, <1>3, <1>4 DEF Next

\* How the log grows when no sweep runs: by a job, when no stream connects.
LEMMA CalmLog ==
  ASSUME CalmInv, ~Sweeping, [Next]_vars
  PROVE  \/ UNCHANGED log
         \/ /\ QueueIsFree /\ Now' = Now + 1
            /\ \/ log' = Append(log, Entry("peer", 0, None))
               \/ \E wire \in Wires : log' = Append(log, Entry("me", wire.tick, wire.command))
  <1>0. log \in Seq(Entries) /\ Now = Len(log) /\ \A c \in Connections : up[c] \in Seq(Wires)
    BY TruthFacts DEF CalmInv
  <1>1. ASSUME NEW c \in Connections, HandleInput(c)
        PROVE  \/ UNCHANGED log
               \/ /\ QueueIsFree
                  /\ \E wire \in Wires : log' = Append(log, Entry("me", wire.tick, wire.command))
    <2>1. Head(up[c]) \in Wires /\ QueueIsFree
      BY <1>0, <1>1, HeadTailProperties DEF HandleInput
    <2> QED BY <1>1, <2>1 DEF HandleInput, RejectPresence, Renew, Repeat, Accept, Reject, Abort
  <1>2. ASSUME PeerCommand
        PROVE  QueueIsFree /\ log' = Append(log, Entry("peer", 0, None))
    BY <1>2 DEF PeerCommand
  <1>3. ~SweepTurn /\ ~SweepLease
    BY DEF SweepTurn, SweepLease
  <1>4. ASSUME NEW c \in Connections,
               \/ Connect(c) \/ ListEvents(c) \/ Subscribe(c)
               \/ Disconnect(c) \/ ParticipantDisconnected(c) \/ Reconnect(c)
        PROVE  UNCHANGED log
    BY <1>4 DEF Connect, ListEvents, Subscribe, Disconnect, ParticipantDisconnected, Reconnect
  <1>5. ASSUME \/ Deliver \/ DeliverSweep \/ PeerPresence \/ Restart
               \/ ClientStep \/ UNCHANGED vars
        PROVE  UNCHANGED log
    BY <1>5 DEF Deliver, DeliverSweep, PeerPresence, Restart, ClientStep, hub, vars
  <1>6. \A e : log' = Append(log, e) => Now' = Now + 1
    BY <1>0, AppendGrows DEF Now
  <1> QED BY <1>1, <1>2, <1>3, <1>4, <1>5, <1>6 DEF Next, HubStep

LEMMA CalmCommands ==
  ASSUME CalmInv, ~Sweeping, [Next]_vars
  PROVE  Commanded'
  <1>0. log \in Seq(Entries) /\ Now = Len(log) /\ Now \in Nat /\ Commanded
    BY TruthFacts DEF CalmInv, Calm
  <1>1. CASE UNCHANGED log
    BY <1>0, <1>1 DEF Commanded, Now
  <1>2. ASSUME NEW e, log' = Append(log, e), e.actor = "me" => e.command # None
        PROVE  Commanded'
    <2>1. /\ Grown(log', log) /\ Now' = Now + 1 /\ log'[Now + 1] = e
      BY <1>0, <1>2, AppendGrows DEF Now
    <2>2. \A k \in 1 .. Now' : k = Now + 1 \/ (k \in 1 .. Now /\ log'[k] = log[k])
      BY <1>0, <2>1 DEF Grown
    <2> QED BY <1>0, <1>2, <2>1, <2>2 DEF Commanded
  <1>3. Entry("peer", 0, None).actor # "me"
    BY DEF Entry
  <1>4. \A wire \in Wires : Entry("me", wire.tick, wire.command).command # None
    BY TicksAreNumbers, ChannelAssumption DEF Entry
  <1> QED BY <1>1, <1>2, <1>3, <1>4, CalmLog

LEMMA SnappedAppends ==
  ASSUME CalmInv
  PROVE  /\ down \in Seq(Snapped)
         /\ Append(down, Failure(TRUE)) \in Seq(Snapped)
         /\ Append(down, Failure(FALSE)) \in Seq(Snapped)
         /\ \A k \in 0 .. Now : <<State(k)>> \in Seq(Snapped)
  <1>0. down \in Seq(Snapped) /\ log \in Seq(Entries) /\ Now = Len(log) /\ Len(log) <= MaxLog
    BY TruthFacts DEF CalmInv, Calm, Prompt, TruthInv, StreamInv, Logged
  <1>1. Failure(TRUE) \in Snapped /\ Failure(FALSE) \in Snapped
    <2>1. Failure(TRUE) \in ServerMessage /\ Failure(FALSE) \in ServerMessage
      BY <1>0, FailureIsTrue DEF Truthful
    <2>2. Failure(TRUE).kind # "event" /\ Failure(FALSE).kind # "event"
      BY DEF Failure
    <2> QED BY <2>1, <2>2 DEF Snapped
  <1>2. ASSUME NEW k \in 0 .. Now PROVE State(k) \in Snapped
    <2>1. State(k) \in ServerMessage
      BY <1>0, StateIsTrue DEF Truthful
    <2>2. State(k).kind # "event"
      BY DEF State
    <2> QED BY <2>1, <2>2 DEF Snapped
  <1> QED BY <1>0, <1>1, <1>2, AppendProperties, OneIsSeq

LEMMA CalmPrompt ==
  ASSUME CalmInv, ~Sweeping, [Next]_vars
  PROVE  Prompt'
  <1>0. /\ down \in Seq(Snapped) /\ (job # None => Fresh(job, Now))
        /\ log \in Seq(Entries) /\ Now = Len(log) /\ Now \in Nat /\ swept = None
        /\ job \in Notices(log) \cup {None}
    BY TruthFacts DEF CalmInv, Calm, Prompt, TruthInv, Spoken
  <1>1. ASSUME NEW c \in Connections, HandleInput(c) PROVE Prompt'
    BY <1>1, InputIsFresh, SnappedAppends DEF Prompt
  <1>2. ASSUME NEW c \in Connections, Subscribe(c) PROVE Prompt'
    <2>1. UNCHANGED <<log, job>> /\ down' \in {down, down \o Initial(c)}
      BY <1>2 DEF Subscribe, Sent
    <2>2. Initial(c) \in Seq(Snapped)
      <3>1. Initial(c) = <<State(Now)>> /\ Now \in 0 .. Now
        BY <1>0, <1>2, CalmInitial DEF Subscribe
      <3> QED BY <3>1, SnappedAppends
    <2>3. down \o Initial(c) \in Seq(Snapped)
      BY <1>0, <2>2, ConcatProperties
    <2> QED BY <1>0, <2>1, <2>3 DEF Prompt, Now
  <1>3. ASSUME NEW c \in Connections, Disconnect(c) PROVE Prompt'
    <2>1. UNCHANGED <<log, down>> /\ job' \in {job, [job EXCEPT !.caller = None]}
      BY <1>3 DEF Disconnect
    <2>2. CASE job # None
      <3>1. Fresh([job EXCEPT !.caller = None], Now)
        BY <1>0, <2>2 DEF Fresh, Notices
      <3> QED BY <1>0, <2>1, <2>2, <3>1 DEF Prompt, Now
    <2>3. CASE job = None
      BY <1>0, <1>3, <2>1, <2>3 DEF Prompt, Now, Disconnect
    <2> QED BY <2>2, <2>3
  <1>4. CASE Deliver
    <2>1. UNCHANGED log /\ job # None /\ job' = None /\ down' = down \o Notified(job)
      BY <1>4 DEF Deliver, Sent
    <2>2. down \o Notified(job) \in Seq(Snapped)
      BY <1>0, <2>1, FreshIsSnapped, ConcatProperties
    <2> QED BY <2>1, <2>2 DEF Prompt
  <1>5. CASE PeerCommand
    <2>1. /\ UNCHANGED down /\ log' = Append(log, Entry("peer", 0, None))
          /\ job' = Notice(None, None, NewEvent(0))
      BY <1>5 DEF PeerCommand, channels
    <2>2. Now' = Now + 1
      BY <1>0, <2>1, AppendGrows DEF Now
    <2>3. Fresh(job', Now')
      BY <2>1, <2>2 DEF Notice, NewEvent, Event, Fresh, Carries
    <2> QED BY <1>0, <2>1, <2>3 DEF Prompt
  <1>6. CASE PeerPresence
    <2>1. UNCHANGED <<log, down>> /\ job' = Notice(None, None, State(Now))
      BY <1>6 DEF PeerPresence, channels
    <2>2. Fresh(job', Now)
      BY <2>1 DEF Notice, State, Fresh, Carries
    <2> QED BY <1>0, <2>1, <2>2 DEF Prompt, Now
  <1>7. CASE Restart
    BY <1>0, <1>7 DEF Restart, Prompt
  <1>8. CASE ClientStep
    <2>1. UNCHANGED <<log, job>>
      BY <1>8 DEF ClientStep, hub
    <2>2. ASSUME HandleMessage \/ ConnectionLost PROVE down' = <<>> \/ (down # <<>> /\ down' = Tail(down))
      BY <2>2 DEF HandleMessage, ConnectionLost
    <2>3. ASSUME NEW command \in Commands, Send(command) PROVE UNCHANGED down
      BY <2>3 DEF Send
    <2>4. ASSUME \/ AckTimeout \/ ForgetEcho \/ Apply \/ Publish
                 \/ \E event \in loading : Load(event, Now)
          PROVE  UNCHANGED down
      BY <2>4 DEF AckTimeout, ForgetEcho, Apply, Publish, Load, channels
    <2>5. down # <<>> => Tail(down) \in Seq(Snapped)
      BY <1>0, HeadTailProperties
    <2>6. down' \in Seq(Snapped)
      <3>1. <<>> \in Seq(Snapped)
        OBVIOUS
      <3> QED BY <1>0, <1>8, <2>2, <2>3, <2>4, <2>5, <3>1 DEF ClientStep
    <2> QED BY <1>0, <2>1, <2>6 DEF Prompt, Now
  <1>9. ~SweepTurn /\ ~SweepLease /\ ~DeliverSweep
    BY <1>0 DEF SweepTurn, SweepLease, DeliverSweep
  <1>10. ASSUME NEW c \in Connections,
                \/ Connect(c) \/ ListEvents(c) \/ ParticipantDisconnected(c) \/ Reconnect(c)
         PROVE  UNCHANGED <<log, job, down>>
    BY <1>10 DEF Connect, ListEvents, ParticipantDisconnected, Reconnect, channels
  <1>11. UNCHANGED vars => UNCHANGED <<log, job, down>>
    BY DEF vars, hub, channels
  <1>12. UNCHANGED <<log, job, down>> => Prompt'
    BY <1>0 DEF Prompt, Now
  <1> QED BY <1>1, <1>2, <1>3, <1>4, <1>5, <1>6, <1>7, <1>8, <1>9, <1>10, <1>11, <1>12
          DEF Next, HubStep

\* A step of one stream, and what it does to it.
LEMMA StreamSteps ==
  ASSUME CalmInv, ~Sweeping, [Next]_vars
  PROVE  \/ UNCHANGED streams
         \/ Restart
         \/ \E c \in Connections :
               \/ Connect(c) \/ ListEvents(c) \/ Subscribe(c) \/ ParticipantDisconnected(c)
               \/ Reconnect(c)
               \/ streams' = [streams EXCEPT ![c] = Left(c)]
  <1>1. ASSUME NEW c \in Connections, HandleInput(c)
        PROVE  streams' \in {streams, [streams EXCEPT ![c] = Left(c)]}
    BY <1>1 DEF HandleInput, RejectPresence, Renew, Repeat, Accept, Reject, Abort
  <1>2. ASSUME NEW c \in Connections, Disconnect(c)
        PROVE  streams' = [streams EXCEPT ![c] = Left(c)]
    BY <1>2 DEF Disconnect
  <1>3. ASSUME \/ Deliver \/ DeliverSweep \/ PeerCommand \/ PeerPresence
               \/ SweepTurn \/ SweepLease \/ ClientStep \/ UNCHANGED vars
        PROVE  UNCHANGED streams
    BY <1>3 DEF Deliver, DeliverSweep, PeerCommand, PeerPresence, SweepTurn, SweepLease,
                ClientStep, hub, vars
  <1> QED BY <1>1, <1>2, <1>3 DEF Next, HubStep

LEMMA CalmLevel ==
  ASSUME CalmInv, ~Sweeping, [Next]_vars
  PROVE  Level'
  <1>0. Level /\ streams \in [Connections -> StreamAt(Now)]
    BY TruthFacts DEF CalmInv, Calm
  <1>1. \A c \in Connections : Left(c).phase \notin {"connected", "listed"}
                               /\ Closed.phase \notin {"connected", "listed"}
    BY DEF Left, Closed
  <1>2. CASE UNCHANGED streams
    <2>1. CASE UNCHANGED log
      BY <1>0, <1>2, <2>1 DEF Level, Now
    <2>2. CASE QueueIsFree
      BY <1>2, <2>2 DEF Level, QueueIsFree
    <2> QED BY <2>1, <2>2, CalmLog
  <1>3. CASE Restart
    BY <1>1, <1>3 DEF Restart, Level
  <1>4. ASSUME NEW c \in Connections, streams' = [streams EXCEPT ![c] = Left(c)]
        PROVE  Level'
    <2>1. \A d \in Connections \ {c} : streams'[d] = streams[d]
      BY <1>0, <1>4
    <2>2. streams'[c].phase \notin {"connected", "listed"}
      BY <1>0, <1>1, <1>4
    <2>3. CASE UNCHANGED log
      BY <1>0, <2>1, <2>2, <2>3 DEF Level, Now
    <2>4. CASE QueueIsFree
      BY <2>1, <2>2, <2>4 DEF Level, QueueIsFree
    <2> QED BY <2>3, <2>4, CalmLog
  <1>5. ASSUME NEW c \in Connections, Connect(c) PROVE Level'
    <2>1. streams' = [streams EXCEPT ![c] = [@ EXCEPT !.phase = "connected", !.base = Now]]
      BY <1>0, <1>5 DEF Connect
    <2>2. streams[c] \in StreamAt(Now)
      BY <1>0
    <2>3. streams'[c].phase = "connected" /\ streams'[c].base = Now
      BY <1>0, <2>1, <2>2 DEF StreamAt
    <2>4. UNCHANGED log /\ \A d \in Connections \ {c} : streams'[d] = streams[d]
      BY <1>0, <1>5, <2>1 DEF Connect
    <2> QED BY <1>0, <2>3, <2>4 DEF Level, Now
  <1>6. ASSUME NEW c \in Connections, ListEvents(c) PROVE Level'
    <2>1. streams' = [streams EXCEPT ![c] = [@ EXCEPT !.phase = "listed", !.newest = Now]]
      BY <1>0, <1>6 DEF ListEvents
    <2>2. streams[c] \in StreamAt(Now) /\ streams[c].phase = "connected"
      BY <1>0, <1>6 DEF ListEvents
    <2>3. /\ streams'[c].phase = "listed" /\ streams'[c].newest = Now
          /\ streams'[c].base = streams[c].base
      BY <1>0, <2>1, <2>2 DEF StreamAt
    <2>4. UNCHANGED log /\ \A d \in Connections \ {c} : streams'[d] = streams[d]
      BY <1>0, <1>6, <2>1 DEF ListEvents
    <2> QED BY <1>0, <2>2, <2>3, <2>4 DEF Level, Now
  <1>7. ASSUME NEW c \in Connections, Subscribe(c) \/ ParticipantDisconnected(c) \/ Reconnect(c)
        PROVE  Level'
    <2>1. /\ streams'[c].phase \notin {"connected", "listed"}
          /\ \A d \in Connections \ {c} : streams'[d] = streams[d]
      <3>1. /\ \A d \in Connections \ {c} : streams'[d] = streams[d]
            /\ streams'[c] \in {[Closed EXCEPT !.phase = "subscribed"], Closed,
                                [Closed EXCEPT !.phase = "queued", !.after = offset]}
        BY <1>0, <1>7 DEF Subscribe, ParticipantDisconnected, Reconnect
      <3>2. /\ [Closed EXCEPT !.phase = "subscribed"].phase = "subscribed"
            /\ Closed.phase = "closed"
            /\ [Closed EXCEPT !.phase = "queued", !.after = offset].phase = "queued"
        BY DEF Closed
      <3> QED BY <3>1, <3>2
    <2>2. UNCHANGED log
      BY <1>7 DEF Subscribe, ParticipantDisconnected, Reconnect
    <2> QED BY <1>0, <2>1, <2>2 DEF Level, Now
  <1> QED BY <1>2, <1>3, <1>4, <1>5, <1>6, <1>7, StreamSteps

LEMMA CalmPresence ==
  ASSUME CalmInv, ~Sweeping, [Next]_vars
  PROVE  PresenceFollowsStreams'
  <1>0. /\ \A c \in Connections : Registered(c) => leased
        /\ streams \in [Connections -> StreamAt(Now)]
    BY TruthFacts DEF CalmInv, Calm, PresenceFollowsStreams
  <1>1. \A c \in Connections : /\ Left(c).phase \notin {"connected", "listed", "subscribed"}
                               /\ Closed.phase \notin {"connected", "listed", "subscribed"}
    BY DEF Left, Closed
  <1>2. ASSUME NEW c \in Connections, ParticipantDisconnected(c) PROVE PresenceFollowsStreams'
    <2>1. /\ streams'[c] = Closed /\ \A d \in Connections \ {c} : streams'[d] = streams[d]
          /\ leased' = (leased /\ StillConnected)
      BY <1>0, <1>2 DEF ParticipantDisconnected
    <2>2. ASSUME NEW d \in Connections, Registered(d)' PROVE leased'
      <3>1. d # c /\ Registered(d)
        BY <1>1, <2>1, <2>2 DEF Registered
      <3>2. StillConnected
        BY <3>1 DEF StillConnected
      <3> QED BY <1>0, <2>1, <3>1, <3>2
    <2> QED BY <2>2 DEF PresenceFollowsStreams
  <1>3. ASSUME NEW c \in Connections, Connect(c) PROVE PresenceFollowsStreams'
    BY <1>3 DEF Connect, PresenceFollowsStreams
  <1>4. ASSUME NEW c \in Connections, ListEvents(c) \/ Subscribe(c) \/ Reconnect(c)
        PROVE  PresenceFollowsStreams'
    <2>1. /\ UNCHANGED leased /\ \A d \in Connections \ {c} : streams'[d] = streams[d]
          /\ Registered(c) \/ streams'[c].phase = "queued"
      <3>1. CASE ListEvents(c) \/ Subscribe(c)
        BY <1>0, <3>1 DEF ListEvents, Subscribe, Registered
      <3>2. CASE Reconnect(c)
        <4>1. /\ UNCHANGED leased /\ \A d \in Connections \ {c} : streams'[d] = streams[d]
              /\ streams'[c] = [Closed EXCEPT !.phase = "queued", !.after = offset]
          BY <1>0, <3>2 DEF Reconnect
        <4> QED BY <4>1 DEF Closed
      <3> QED BY <1>4, <3>1, <3>2
    <2> QED BY <1>0, <2>1 DEF PresenceFollowsStreams, Registered
  <1>5. ASSUME NEW c \in Connections, streams' = [streams EXCEPT ![c] = Left(c)], UNCHANGED leased
        PROVE  PresenceFollowsStreams'
    <2>1. streams'[c] = Left(c) /\ \A d \in Connections \ {c} : streams'[d] = streams[d]
      BY <1>0, <1>5
    <2> QED BY <1>0, <1>1, <1>5, <2>1 DEF PresenceFollowsStreams, Registered
  <1>6. CASE Restart
    BY <1>1, <1>6 DEF Restart, PresenceFollowsStreams, Registered
  <1>7. CASE UNCHANGED <<streams, leased>>
    BY <1>0, <1>7 DEF PresenceFollowsStreams, Registered
  <1>8. ASSUME NEW c \in Connections, HandleInput(c)
        PROVE  streams' \in {streams, [streams EXCEPT ![c] = Left(c)]} /\ UNCHANGED leased
    BY <1>8 DEF HandleInput, RejectPresence, Renew, Repeat, Accept, Reject, Abort
  <1>9. ASSUME NEW c \in Connections, Disconnect(c)
        PROVE  streams' = [streams EXCEPT ![c] = Left(c)] /\ UNCHANGED leased
    BY <1>9 DEF Disconnect
  <1>10. ASSUME \/ Deliver \/ DeliverSweep \/ PeerCommand \/ PeerPresence
                \/ ClientStep \/ UNCHANGED vars
         PROVE  UNCHANGED <<streams, leased>>
    BY <1>10 DEF Deliver, DeliverSweep, PeerCommand, PeerPresence, ClientStep, hub, vars
  <1>11. ~SweepTurn /\ ~SweepLease
    BY DEF SweepTurn, SweepLease
  <1> QED BY <1>2, <1>3, <1>4, <1>5, <1>6, <1>7, <1>8, <1>9, <1>10, <1>11 DEF Next, HubStep

LEMMA CalmNext ==
  ASSUME CalmInv, ~Sweeping, [Next]_vars
  PROVE  CalmInv'
  <1>1. TruthInv'
    BY TruthNext DEF CalmInv
  <1> QED BY <1>1, CalmUnswept, CalmCommands, CalmPrompt, CalmLevel, CalmPresence
          DEF CalmInv, Calm

LEMMA InitIsCalm == Init => CalmInv
  <1> SUFFICES ASSUME Init PROVE CalmInv
    OBVIOUS
  <1>1. TruthInv
    BY InitIsTrue
  <1>2. swept = None /\ loading = {} /\ Prompt
    BY DEF Init, Prompt
  <1>3. Commanded
    <2>1. log = [k \in 1 .. Started |-> Entry("peer", 0, None)] /\ Started \in Nat
      BY StartAssumption DEF Init
    <2>2. Now = Started /\ \A k \in 1 .. Started : log[k].actor = "peer"
      BY <1>1, <2>1, TruthFacts DEF Entry
    <2> QED BY <2>2 DEF Commanded
  <1>4. \A c \in Connections : streams[c].phase = "closed"
    BY DEF Init, Closed
  <1>5. Level /\ PresenceFollowsStreams
    BY <1>4 DEF Level, PresenceFollowsStreams, Registered
  <1> QED BY <1>1, <1>2, <1>3, <1>5 DEF CalmInv, Calm

\* While no sweep runs, jobs wait for each other: a stream is connected at
\* the log it was listed at, and every event brings its state.
THEOREM CalmInvariant ==
  ASSUME ~Sweeping
  PROVE  Spec => []CalmInv
  <1>1. CalmInv /\ [Next]_vars => CalmInv'
    BY CalmNext
  <1> QED BY <1>1, InitIsCalm, PTL DEF Spec

\* Closing one of several streams of a player changes nothing: while any is
\* connected the player holds a lease, if no sweep takes it (participantDisconnected).
THEOREM ConnectedIsPresent ==
  ASSUME ~Sweeping
  PROVE  Spec => []PresenceFollowsStreams
  <1>1. CalmInv => PresenceFollowsStreams
    BY DEF CalmInv, Calm
  <1> QED BY <1>1, CalmInvariant, PTL

\* A stream that is subscribed gets every event newer than its snapshot, if
\* no sweep adds one in between (match_connection_registry_connect.dart).
THEOREM BacklogIsComplete ==
  ASSUME ~Sweeping
  PROVE  Spec => NoEventIsMissed
  <1> DEFINE Complete == \A c \in Connections : Subscribe(c) => streams[c].newest = Now
  <1>1. CalmInv /\ [Next]_vars => [Complete]_vars
    <2>1. ASSUME CalmInv, NEW c \in Connections, Subscribe(c) PROVE streams[c].newest = Now
      BY <2>1 DEF Subscribe, CalmInv, Calm, Level
    <2> QED BY <2>1
  <1>2. Spec => [][Complete]_vars
    BY <1>1, CalmInvariant, PTL DEF Spec
  <1> QED BY <1>2 DEF NoEventIsMissed

\* An event the echo guard keeps from the screen is a command's.
LEMMA EchoIsOwn ==
  ASSUME CalmInv, NEW m, m.kind = "event", m = Head(down), HandleMessage,
         inbox' = inbox, loading' = loading
  PROVE  log[m.offset].command # None
  <1>0. /\ m \in Snapped /\ Says(log, m) /\ inbox \in Seq(Pictures(Now)) /\ echo \subseteq Ticks
        /\ Now = Len(log) /\ Commanded
    BY HeadIsTrue, HeadTailProperties, TruthFacts
       DEF HandleMessage, CalmInv, Calm, Prompt, TruthInv, Shown
  <1>1. HandleEvent(m)
    BY DEF HandleMessage, HandleAck, HandleState, HandleFailure
  <1>2. ~Queued(m.snapshot, m.offset)
    <2> DEFINE item == [snapshot |-> m.snapshot, event |-> m.offset]
    <2>1. inbox \in Seq(Pictures(Now) \cup {item})
      BY <1>0, SeqMonotonic
    <2>2. Len(Append(inbox, item)) = Len(inbox) + 1 /\ Len(inbox) \in Nat
      BY <2>1, AppendProperties
    <2> HIDE DEF item
    <2>3. Append(inbox, item) # inbox
      BY <2>2
    <2> QED BY <2>3 DEF Queued, item
  <1>3. IsLocalEcho(m)
    BY <1>0, <1>1, <1>2 DEF HandleEvent, Snapped
  <1>4. m.tick # 0
    BY <1>0, <1>3 DEF IsLocalEcho, Ticks
  <1>5. m.offset \in 1 .. Now /\ log[m.offset].actor = "me"
    BY <1>0, <1>4 DEF Says, EventIn
  <1> QED BY <1>0, <1>5 DEF Commanded

\* The echo guard keeps from the screen only what the client's own commands
\* have caused (_LocalCommandEchoGuard), when no sweep gives events a tick.
THEOREM GuardKeepsOwnOnly ==
  ASSUME ~Sweeping
  PROVE  Spec => EchoesAreOwn
  <1> DEFINE Own == \A message \in {down[i] : i \in DOMAIN down} :
                       (message.kind = "event" /\ HandleMessage /\ message = Head(down)
                           /\ inbox' = inbox /\ loading' = loading)
                       => log[message.offset].command # None
  <1>1. CalmInv /\ [Next]_vars => [Own]_vars
    BY EchoIsOwn
  <1>2. Spec => [][Own]_vars
    BY <1>1, CalmInvariant, PTL DEF Spec
  <1> QED BY <1>2, PTL DEF EchoesAreOwn

-----------------------------------------------------------------------------
(* A screen that waits for its results, without sweeps.                    *)

\* What a screen shows, or is about to, is no newer than state n.
Below(shown, under, waiting, n) ==
    /\ shown <= n
    /\ under.stage = "answered" => under.result.offset <= n
    /\ \A j \in 1 .. Len(waiting) : waiting[j].snapshot <= n

\* States come in order, and behind what has come before.
Lined ==
    \A i \in 1 .. Len(down) : Carries(down[i]) =>
        /\ down[i].snapshot > 0
        /\ Below(offset, order, inbox, down[i].snapshot)
        /\ \A j \in i .. Len(down) : Carries(down[j]) => down[i].snapshot <= down[j].snapshot

\* The match has begun, and every result is newer than the screen.
Forward ==
    /\ Now > 0
    /\ \A j \in 1 .. Len(inbox) : inbox[j].snapshot > 0
    /\ order.stage = "answered" => offset <= order.result.offset

\* A message that brings the screen to state k, whatever the echo guard knows.
Brings(m, k) == m.kind \in {"event", "state"} /\ m.tick = 0 /\ m.snapshot >= k

\* The screen shows event k, or something on its way will make it.
Coming(k) ==
    \/ k <= offset
    \/ \E j \in 1 .. Len(inbox) : inbox[j].snapshot >= k
    \/ \E i \in 1 .. Len(down) : Brings(down[i], k)
    \/ job # None /\ job.caller = None /\ job.cast # None /\ Brings(job.cast, k)

\* Nothing of the others is lost on a stream that is subscribed.
Covered ==
    link \in Connections /\ streams[link].phase = "subscribed" =>
        \A k \in 1 .. Now : log[k].actor = "me" \/ Coming(k)

Screened == CalmInv /\ Lined /\ Forward /\ Covered

LEMMA ScreenFacts ==
  ASSUME CalmInv
  PROVE  /\ Now = Len(log) /\ Now \in Nat /\ log \in Seq(Entries) /\ Below(offset, order, inbox, Now)
         /\ offset \in 0 .. Now /\ inbox \in Seq(Pictures(Now))
         /\ \A j \in 1 .. Len(inbox) : /\ inbox[j].snapshot \in 0 .. Now
                                       /\ inbox[j].event \in 0 .. inbox[j].snapshot
         /\ order.stage = "answered" => order.result.offset \in 0 .. Now
         /\ down \in Seq(Snapped) /\ Len(down) \in Nat /\ Len(inbox) \in Nat
         /\ \A i \in 1 .. Len(down) : Carries(down[i]) => down[i].snapshot \in 0 .. Now
         /\ loading = {} /\ swept = None
  <1>0. /\ Now = Len(log) /\ Now \in Nat /\ log \in Seq(Entries)
        /\ offset \in 0 .. Now /\ inbox \in Seq(Pictures(Now)) /\ loading = {} /\ swept = None
        /\ down \in Seq(Snapped) /\ down \in Seq(Truthful(log))
        /\ order \in {Idle} \cup {Pending(wire) : wire \in Wires} \cup Answered(log)
    BY TruthFacts DEF CalmInv, Calm, Prompt, TruthInv, Shown, Spoken
  <1>1. ASSUME NEW j \in 1 .. Len(inbox)
        PROVE  inbox[j].snapshot \in 0 .. Now /\ inbox[j].event \in 0 .. inbox[j].snapshot
    <2>1. inbox[j] \in Pictures(Now)
      BY <1>0, <1>1
    <2> QED BY <1>0, <2>1 DEF Pictures
  <1>2. order.stage = "answered" => order.result.offset \in 0 .. Now
    <2>1. order.stage = "answered" => order \in Answered(log)
      BY <1>0 DEF Idle, Pending
    <2> QED BY <1>0, <2>1 DEF Answered
  <1>3. ASSUME NEW i \in 1 .. Len(down), Carries(down[i]) PROVE down[i].snapshot \in 0 .. Now
    <2>1. down[i] \in Snapped /\ down[i] \in Truthful(log)
      BY <1>0
    <2>2. down[i].snapshot \in down[i].offset .. Now /\ down[i].offset \in Nat
      BY <1>0, <1>3, <2>1, ChannelAssumption
         DEF Snapped, Truthful, Says, Carries, ServerMessage, Offsets
    <2> QED BY <1>0, <2>2
  <1>4. Below(offset, order, inbox, Now)
    BY <1>0, <1>1, <1>2 DEF Below
  <1> QED BY <1>0, <1>1, <1>2, <1>3, <1>4

-----------------------------------------------------------------------------
(* The order of what is under way.                                         *)

\* What the server adds is of the present state.
LEMMA LinedAppend ==
  ASSUME Screened, UNCHANGED client, NEW m \in Snapped, Carries(m) => m.snapshot = Now,
         down' = Append(down, m)
  PROVE  Lined'
  <1>0. /\ Now \in Nat /\ Below(offset, order, inbox, Now) /\ Now > 0
        /\ down \in Seq(Snapped) /\ Len(down) \in Nat
        /\ \A i \in 1 .. Len(down) : Carries(down[i]) => down[i].snapshot \in 0 .. Now
    BY ScreenFacts DEF Screened, Forward
  <1>1. /\ Len(down') = Len(down) + 1 /\ down'[Len(down) + 1] = m
        /\ \A i \in 1 .. Len(down) : down'[i] = down[i]
    BY <1>0, AppendProperties
  <1>2. offset' = offset /\ order' = order /\ inbox' = inbox
    BY DEF client
  <1>3. ASSUME NEW i \in 1 .. Len(down'), Carries(down'[i])
        PROVE  /\ down'[i].snapshot > 0 /\ Below(offset, order, inbox, down'[i].snapshot)
               /\ \A j \in i .. Len(down') : Carries(down'[j]) =>
                     down'[i].snapshot <= down'[j].snapshot
    <2>1. CASE i = Len(down) + 1
      BY <1>0, <1>1, <1>3, <2>1
    <2>2. CASE i \in 1 .. Len(down)
      <3>1. /\ down[i].snapshot > 0 /\ Below(offset, order, inbox, down[i].snapshot)
            /\ \A j \in i .. Len(down) : Carries(down[j]) => down[i].snapshot <= down[j].snapshot
        BY <1>1, <1>3, <2>2 DEF Screened, Lined
      <3>2. down[i].snapshot <= Now
        BY <1>0, <1>1, <1>3, <2>2
      <3>3. \A j \in i .. Len(down') : j = Len(down) + 1 \/ j \in i .. Len(down)
        BY <1>0, <1>1
      <3>4. \A j \in i .. Len(down) : down'[j] = down[j]
        BY <1>1, <2>2
      <3> QED BY <1>1, <2>2, <3>1, <3>2, <3>3, <3>4
    <2> QED BY <1>0, <1>1, <2>1, <2>2
  <1> QED BY <1>2, <1>3 DEF Lined

\* What the client takes from the stream, and what it does with it.
LEMMA LinedTail ==
  ASSUME Screened, down' = down \/ (down # <<>> /\ down' = Tail(down)),
         \A n \in Nat :
            /\ n > 0 /\ Below(offset, order, inbox, n)
            /\ down' # down /\ Carries(Head(down)) => Head(down).snapshot <= n
            => Below(offset', order', inbox', n)
  PROVE  Lined'
  <1>0. /\ down \in Seq(Snapped) /\ Len(down) \in Nat
        /\ \A i \in 1 .. Len(down) : Carries(down[i]) => down[i].snapshot \in Nat
    BY ScreenFacts DEF Screened
  <1>1. CASE down' = down
    <2>1. ASSUME NEW i \in 1 .. Len(down), Carries(down[i])
          PROVE  /\ down[i].snapshot > 0 /\ Below(offset', order', inbox', down[i].snapshot)
                 /\ \A j \in i .. Len(down) : Carries(down[j]) =>
                       down[i].snapshot <= down[j].snapshot
      BY <1>0, <1>1, <2>1 DEF Screened, Lined
    <2> QED BY <1>1, <2>1 DEF Lined
  <1>2. CASE down # <<>> /\ down' = Tail(down)
    <2>1. /\ Len(down') = Len(down) - 1 /\ Len(down) > 0 /\ Head(down) = down[1]
          /\ \A i \in 1 .. Len(down') : down'[i] = down[i + 1]
      BY <1>0, <1>2, HeadTailProperties
    <2>2. ASSUME NEW i \in 1 .. Len(down'), Carries(down'[i])
          PROVE  /\ down'[i].snapshot > 0 /\ Below(offset', order', inbox', down'[i].snapshot)
                 /\ \A j \in i .. Len(down') : Carries(down'[j]) =>
                       down'[i].snapshot <= down'[j].snapshot
      <3>1. i + 1 \in 1 .. Len(down) /\ down'[i] = down[i + 1] /\ Carries(down[i + 1])
        BY <1>0, <2>1, <2>2
      <3>2. /\ down[i + 1].snapshot > 0 /\ Below(offset, order, inbox, down[i + 1].snapshot)
            /\ \A j \in i + 1 .. Len(down) : Carries(down[j]) =>
                  down[i + 1].snapshot <= down[j].snapshot
        BY <3>1 DEF Screened, Lined
      <3>3. \A j \in i .. Len(down') : j + 1 \in i + 1 .. Len(down) /\ down'[j] = down[j + 1]
        BY <1>0, <2>1, <2>2
      <3>4. Carries(down[1]) => down[1].snapshot <= down[i + 1].snapshot
        <4>1. 1 \in 1 .. Len(down) /\ i + 1 \in 1 .. Len(down)
          BY <1>0, <2>1, <3>1
        <4> QED BY <3>1, <4>1 DEF Screened, Lined
      <3>5. Below(offset', order', inbox', down[i + 1].snapshot)
        BY <1>0, <2>1, <3>1, <3>2, <3>4
      <3> QED BY <3>1, <3>2, <3>3, <3>5
    <2> QED BY <2>2 DEF Lined
  <1> QED BY <1>1, <1>2

\* The server tells one thing at a time, of the present state.
LEMMA HubAdds ==
  ASSUME CalmInv, ~Sweeping, HubStep
  PROVE  \/ down' = down
         \/ \E m \in Snapped : (Carries(m) => m.snapshot = Now) /\ down' = Append(down, m)
  <1>0. /\ down \in Seq(Snapped) /\ swept = None /\ Now \in 0 .. Now
        /\ job # None => Fresh(job, Now)
    BY TruthFacts DEF CalmInv, Calm, Prompt
  <1>1. ASSUME NEW m \in Snapped PROVE down \o <<m>> = Append(down, m)
    BY <1>0, <1>1, AppendIsConcat
  <1>2. ASSUME NEW c \in Connections, HandleInput(c)
        PROVE  \/ down' = down
               \/ \E m \in Snapped : (Carries(m) => m.snapshot = Now) /\ down' = Append(down, m)
    <2>1. ASSUME NEW terminal \in BOOLEAN
          PROVE  Failure(terminal) \in Snapped /\ ~Carries(Failure(terminal))
      <3>1. Failure(terminal) \in Truthful(log)
        BY TruthFacts, FailureIsTrue DEF CalmInv
      <3>2. Failure(terminal).kind \in {"failure", "not_match_player"}
        BY DEF Failure
      <3> QED BY <3>1, <3>2 DEF Truthful, Snapped, Carries
    <2> QED BY <1>2, <2>1, InputIsFresh
  <1>3. ASSUME NEW c \in Connections, Subscribe(c)
        PROVE  down' = down \/ (down' = Append(down, State(Now)) /\ State(Now) \in Snapped)
    <2>1. Initial(c) = <<State(Now)>>
      BY <1>3, CalmInitial DEF Subscribe
    <2>2. State(Now) \in Snapped
      <3>1. State(Now) \in Truthful(log)
        BY <1>0, TruthFacts, StateIsTrue DEF CalmInv, TruthInv, StreamInv, Logged
      <3>2. State(Now).kind = "state"
        BY DEF State
      <3> QED BY <3>1, <3>2 DEF Truthful, Snapped
    <2> QED BY <1>1, <1>3, <2>1, <2>2 DEF Subscribe, Sent
  <1>4. State(Now).snapshot = Now
    BY DEF State
  <1>5. ASSUME Deliver
        PROVE  \/ down' = down
               \/ \E m \in Snapped : (Carries(m) => m.snapshot = Now) /\ down' = Append(down, m)
    <2>1. job # None /\ down' = down \o Notified(job) /\ Notified(job) \in Seq(Snapped)
      BY <1>5, FreshIsSnapped DEF Deliver, Sent
    <2>2. \/ Notified(job) = <<>>
          \/ \E m \in Snapped : m.snapshot = Now /\ Notified(job) = <<m>>
      <3>1. ASSUME NEW m, Notified(job) = <<m>> PROVE m \in Snapped
        BY <2>1, <3>1
      <3> QED BY <1>0, <2>1, <3>1 DEF Notified, OnLink, Fresh
    <2>3. down \o <<>> = down
      BY <1>0, ConcatEmptySeq
    <2> QED BY <1>1, <2>1, <2>2, <2>3
  <1>6. ASSUME NEW c \in Connections,
               Connect(c) \/ ListEvents(c) \/ Disconnect(c) \/ ParticipantDisconnected(c)
        PROVE  down' = down
    BY <1>6 DEF Connect, ListEvents, Disconnect, ParticipantDisconnected, channels
  <1>7. ASSUME PeerCommand \/ PeerPresence \/ Restart PROVE down' = down
    BY <1>7 DEF PeerCommand, PeerPresence, Restart, channels
  <1>8. ~SweepTurn /\ ~SweepLease /\ ~DeliverSweep
    BY <1>0 DEF SweepTurn, SweepLease, DeliverSweep
  <1> QED BY <1>2, <1>3, <1>4, <1>5, <1>6, <1>7, <1>8 DEF HubStep

-----------------------------------------------------------------------------
(* What the client does with it.                                           *)

\* A snapshot is shown if it is newer than the screen.
LEMMA AppliedMoves ==
  ASSUME Screened, Apply
  PROVE  /\ 1 \in 1 .. Len(inbox) /\ Len(inbox') = Len(inbox) - 1
         /\ \A j \in 1 .. Len(inbox') : j + 1 \in 1 .. Len(inbox) /\ inbox'[j] = inbox[j + 1]
         /\ \/ offset' = inbox[1].snapshot
            \/ offset' = offset /\ inbox[1].snapshot <= offset
         /\ offset' >= offset /\ offset' \in Nat
  <1>0. /\ inbox \in Seq(Pictures(Now)) /\ inbox # <<>> /\ inbox' = Tail(inbox)
        /\ Len(inbox) \in Nat /\ offset \in Nat
    BY ScreenFacts DEF Apply, Screened
  <1>1. /\ Len(inbox) > 0 /\ Head(inbox) = inbox[1] /\ Len(inbox') = Len(inbox) - 1
        /\ \A j \in 1 .. Len(inbox') : inbox'[j] = inbox[j + 1]
    BY <1>0, HeadTailProperties
  <1>2. inbox[1].snapshot \in Nat /\ inbox[1].snapshot > 0
        /\ inbox[1].event <= inbox[1].snapshot /\ inbox[1].event \in Nat
    <2>1. 1 \in 1 .. Len(inbox)
      BY <1>0, <1>1
    <2> QED BY <2>1, ScreenFacts DEF Screened, Forward
  <1>3. offset' = IF Incoming(inbox[1]) = None THEN offset ELSE Incoming(inbox[1])
    BY <1>1 DEF Apply
  <1>4. Incoming(inbox[1]) = IF inbox[1].snapshot <= offset THEN None ELSE inbox[1].snapshot
    BY <1>0, <1>2 DEF Incoming
  <1>5. inbox[1].snapshot # None
    <2>1. 1 \in 1 .. Len(inbox)
      BY <1>0, <1>1
    <2>2. inbox[1].snapshot \in 0 .. Now
      BY <2>1, ScreenFacts DEF Screened
    <2>3. inbox[1].snapshot \in 0 .. MaxLog
      BY <2>2, TruthFacts, ChannelAssumption DEF Screened, CalmInv
    <2> QED BY <2>3, ChannelAssumption
  <1> QED BY <1>0, <1>1, <1>2, <1>3, <1>4, <1>5

\* What a message that is handled has to say of the screen.
LEMMA HeadCarried ==
  ASSUME Screened, HandleMessage, Carries(Head(down))
  PROVE  /\ Head(down) \in Snapped /\ Head(down).snapshot \in Nat /\ Head(down).snapshot > 0
         /\ Head(down).snapshot <= Now
         /\ Head(down).offset \in Nat /\ Head(down).offset <= Head(down).snapshot
         /\ Below(offset, order, inbox, Head(down).snapshot)
  <1> DEFINE m == Head(down)
  <1>1. /\ down # <<>> /\ down \in Seq(Snapped) /\ down \in Seq(Truthful(log))
        /\ Now \in Nat /\ Now = Len(log)
    BY TruthFacts, ScreenFacts DEF HandleMessage, Screened, CalmInv, TruthInv, Spoken
  <1>2. m = down[1] /\ 1 \in 1 .. Len(down)
    BY <1>1, HeadTailProperties
  <1>3. m \in Snapped /\ m \in Truthful(log)
    BY <1>1, <1>2
  <1>4. m.snapshot \in 0 .. Now /\ m.snapshot > 0 /\ Below(offset, order, inbox, m.snapshot)
    BY <1>2, ScreenFacts DEF Screened, Lined
  <1>5. m.snapshot # None
    BY <1>4, TruthFacts, ChannelAssumption DEF Screened, CalmInv, TruthInv, StreamInv, Logged
  <1> HIDE DEF m
  <1>6. m.offset \in Nat /\ m.offset <= m.snapshot
    <2>1. Carries(m) /\ Says(log, m) /\ m.offset \in Offsets
      BY <1>3 DEF m, Truthful, ServerMessage
    <2>2. m.offset \in Nat
      BY <2>1, ChannelAssumption DEF Offsets
    <2>3. m.snapshot \in m.offset .. Len(log)
      BY <1>5, <2>1 DEF Carries, Says
    <2> QED BY <1>1, <2>2, <2>3
  <1> QED BY <1>1, <1>3, <1>4, <1>6 DEF m

\* What the client does with a message: an answer is kept for the screen, a
\* state is queued for it, and nothing else comes there.
LEMMA MessageMoves ==
  ASSUME Screened, HandleMessage
  PROVE  /\ offset' = offset
         /\ \/ order' = order /\ inbox' = inbox
            \/ order'.stage # "answered" /\ inbox' = inbox
            \/ /\ Carries(Head(down)) /\ inbox' = inbox
               /\ order'.stage = "answered" /\ order'.result.offset = Head(down).snapshot
            \/ /\ Carries(Head(down)) /\ order' = order
               /\ inbox' \in Seq(Pictures(Now))
               /\ Len(inbox') = Len(inbox) + 1
               /\ \A j \in 1 .. Len(inbox) : inbox'[j] = inbox[j]
               /\ inbox'[Len(inbox) + 1].snapshot = Head(down).snapshot
         /\ down # <<>> /\ down' \in {Tail(down), <<>>}
         /\ link' = link \/ link' \in {"none", "over"}
         /\ link' = link => down' = Tail(down)
  <1> DEFINE m == Head(down)
  <1>0. /\ inbox \in Seq(Pictures(Now)) /\ Len(inbox) \in Nat /\ loading = {}
        /\ down \in Seq(Snapped)
    BY ScreenFacts DEF Screened
  <1>1. m \in Snapped
    BY <1>0, HeadTailProperties DEF HandleMessage
  <1>2. /\ offset' = offset /\ down # <<>> /\ down' \in {Tail(down), <<>>}
        /\ link' = link => down' = Tail(down)
        /\ HandleAck(m) \/ HandleEvent(m) \/ HandleState(m) \/ HandleFailure(m)
    BY DEF HandleMessage
  <1>3. Carries(m) => /\ m.snapshot \in Nat /\ m.snapshot <= Now
                      /\ m.offset \in Nat /\ m.offset <= m.snapshot
    BY HeadCarried
  <1>3a. Now \in Nat
    BY ScreenFacts DEF Screened
  <1> HIDE DEF m
  <1>4. ASSUME NEW k \in 0 .. Now, Carries(m), k <= m.snapshot, Queued(m.snapshot, k)
        PROVE  /\ inbox' \in Seq(Pictures(Now)) /\ Len(inbox') = Len(inbox) + 1
               /\ \A j \in 1 .. Len(inbox) : inbox'[j] = inbox[j]
               /\ inbox'[Len(inbox) + 1].snapshot = m.snapshot
    <2> DEFINE item == [snapshot |-> m.snapshot, event |-> k]
    <2>1. item \in Pictures(Now) /\ item.snapshot = m.snapshot
      BY <1>3, <1>4 DEF Pictures
    <2>2. inbox' = Append(inbox, item)
      BY <1>4 DEF Queued
    <2> HIDE DEF item
    <2> QED BY <1>0, <2>1, <2>2, AppendProperties
  <1>5. CASE HandleAck(m)
    <2>1. Carries(m) /\ inbox' = inbox /\ link' = link
      BY <1>5 DEF HandleAck, Carries
    <2>2. \/ order' = order
          \/ /\ order'.stage = "answered"
             /\ order'.result.offset = IF m.snapshot > m.offset THEN m.snapshot ELSE m.offset
      BY <1>5 DEF HandleAck
    <2>3. (IF m.snapshot > m.offset THEN m.snapshot ELSE m.offset) = m.snapshot
      BY <1>3, <2>1
    <2> QED BY <1>2, <2>1, <2>2, <2>3 DEF m
  <1>6. CASE HandleEvent(m)
    <2>1. Carries(m) /\ order' = order /\ link' = link /\ m.snapshot # None
      BY <1>1, <1>6 DEF HandleEvent, Carries, Snapped
    <2>2. inbox' = inbox \/ Queued(m.snapshot, m.offset)
      BY <1>6, <2>1 DEF HandleEvent
    <2>3. m.offset \in 0 .. Now /\ m.offset <= m.snapshot
      BY <1>3, <1>3a, <2>1
    <2> QED BY <1>2, <1>4, <2>1, <2>2, <2>3 DEF m
  <1>7. CASE HandleState(m)
    <2>1. Carries(m) /\ order' = order /\ link' = link /\ Queued(m.snapshot, 0)
      BY <1>7 DEF HandleState, Carries
    <2>2. 0 \in 0 .. Now /\ 0 <= m.snapshot
      BY <1>3, <1>3a, <2>1
    <2> QED BY <1>2, <1>4, <2>1, <2>2 DEF m
  <1>8. CASE HandleFailure(m)
    <2>1. inbox' = inbox /\ link' \in {"none", "over"} /\ GivenUp
      BY <1>8 DEF HandleFailure
    <2>2. order' = order \/ order'.stage # "answered"
      BY <2>1 DEF GivenUp, Idle
    <2> QED BY <1>2, <2>1, <2>2
  <1> QED BY <1>2, <1>5, <1>6, <1>7, <1>8

\* The other steps of the client leave what is shown and waits to be shown.
LEMMA ClientMoves ==
  ASSUME Screened, ClientStep
  PROVE  \/ Apply \/ Publish \/ HandleMessage
         \/ /\ offset' = offset /\ inbox' = inbox
            /\ order' = order \/ order'.stage # "answered"
            /\ (link' = link /\ down' = down) \/ (link' = "none" /\ down' = <<>>)
  <1>0. loading = {}
    BY ScreenFacts DEF Screened
  <1>1. ASSUME NEW command \in Commands, Send(command)
        PROVE  /\ offset' = offset /\ inbox' = inbox /\ link' = link /\ down' = down
               /\ order' = order \/ order'.stage # "answered"
    BY <1>1 DEF Send, Pending
  <1>2. ASSUME AckTimeout \/ ForgetEcho
        PROVE  /\ offset' = offset /\ inbox' = inbox /\ link' = link /\ down' = down
               /\ order' = order \/ order'.stage # "answered"
    BY <1>2 DEF AckTimeout, ForgetEcho, GivenUp, Idle, channels
  <1>3. ASSUME ConnectionLost
        PROVE  /\ offset' = offset /\ inbox' = inbox /\ link' = "none" /\ down' = <<>>
               /\ order' = order \/ order'.stage # "answered"
    BY <1>3 DEF ConnectionLost, GivenUp, Idle
  <1> QED BY <1>0, <1>1, <1>2, <1>3 DEF ClientStep

LEMMA PublishMoves ==
  ASSUME Screened, Publish
  PROVE  /\ offset' = order.result.offset /\ offset' >= offset /\ offset' \in Nat
         /\ order'.stage # "answered" /\ inbox' = inbox /\ down' = down /\ link' = link
  <1>1. order.stage = "answered"
    BY DEF Publish
  <1>2. offset' = order.result.offset /\ order' = Idle /\ inbox' = inbox /\ UNCHANGED channels
    BY DEF Publish
  <1> QED BY <1>1, <1>2, ScreenFacts DEF Screened, Forward, Idle, channels

LEMMA LinedKeeps ==
  ASSUME Screened, ~Sweeping, [Next]_vars
  PROVE  Lined'
  <1>0. CalmInv
    BY DEF Screened
  <1>1. CASE HubStep
    <2>1. CASE down' = down
      <3>1. offset' = offset /\ order' = order /\ inbox' = inbox
        BY <1>1 DEF HubStep, client
      <3> QED BY <2>1, <3>1 DEF Screened, Lined
    <2> QED BY <1>0, <1>1, <2>1, HubAdds, LinedAppend DEF HubStep
  <1>2. CASE HandleMessage
    <2>1. CASE down' = <<>>
      BY <2>1 DEF Lined
    <2>2. CASE down' = Tail(down)
      <3>1. down # <<>> /\ down' # down
        <4>1. down \in Seq(Snapped) /\ down # <<>>
          BY <1>2, ScreenFacts, MessageMoves DEF Screened
        <4>2. Len(Tail(down)) = Len(down) - 1 /\ Len(down) \in Nat
          BY <4>1, HeadTailProperties
        <4>3. Len(Tail(down)) # Len(down)
          BY <4>2
        <4> QED BY <2>2, <4>1, <4>3
      <3>2. ASSUME NEW n \in Nat, Below(offset, order, inbox, n),
                   Carries(Head(down)) => Head(down).snapshot <= n
            PROVE  Below(offset', order', inbox', n)
        <4>0. Len(inbox) \in Nat
          BY ScreenFacts DEF Screened
        <4>1. offset' = offset
          BY <1>2, MessageMoves
        <4>2. order'.stage = "answered" => order'.result.offset <= n
          BY <1>2, <3>2, MessageMoves DEF Below
        <4>3. ASSUME NEW j \in 1 .. Len(inbox') PROVE inbox'[j].snapshot <= n
          <5>1. CASE inbox' = inbox
            BY <3>2, <5>1 DEF Below
          <5>2. CASE /\ Carries(Head(down)) /\ Len(inbox') = Len(inbox) + 1
                     /\ \A i \in 1 .. Len(inbox) : inbox'[i] = inbox[i]
                     /\ inbox'[Len(inbox) + 1].snapshot = Head(down).snapshot
            <6>1. j = Len(inbox) + 1 \/ j \in 1 .. Len(inbox)
              BY <4>0, <4>3, <5>2
            <6> QED BY <3>2, <5>2, <6>1 DEF Below
          <5> QED BY <1>2, <5>1, <5>2, MessageMoves
        <4> QED BY <3>2, <4>1, <4>2, <4>3 DEF Below
      <3> QED BY <2>2, <3>1, <3>2, LinedTail
    <2> QED BY <1>2, <2>1, <2>2, MessageMoves
  <1>3. CASE Apply
    <2>1. down' = down /\ order' = order
      BY <1>3 DEF Apply, channels
    <2>2. ASSUME NEW n \in Nat, Below(offset, order, inbox, n)
          PROVE  Below(offset', order', inbox', n)
      BY <1>3, <2>1, <2>2, AppliedMoves DEF Below
    <2> QED BY <2>1, <2>2, LinedTail
  <1>4. CASE Publish
    <2>1. ASSUME NEW n \in Nat, Below(offset, order, inbox, n)
          PROVE  Below(offset', order', inbox', n)
      BY <1>4, <2>1, PublishMoves DEF Below, Publish
    <2> QED BY <1>4, <2>1, PublishMoves, LinedTail
  <1>5. CASE /\ offset' = offset /\ inbox' = inbox
             /\ order' = order \/ order'.stage # "answered"
             /\ down' = down
    <2>1. ASSUME NEW n \in Nat, Below(offset, order, inbox, n)
          PROVE  Below(offset', order', inbox', n)
      BY <1>5, <2>1 DEF Below
    <2> QED BY <1>5, <2>1, LinedTail
  <1>6. CASE down' = <<>>
    BY <1>6 DEF Lined
  <1>7. (\E c \in Connections : Reconnect(c)) \/ UNCHANGED vars
        => offset' = offset /\ inbox' = inbox /\ order' = order /\ down' = down
    BY DEF Reconnect, vars, client, channels
  <1> QED BY <1>1, <1>2, <1>3, <1>4, <1>5, <1>6, <1>7, ClientMoves DEF Next

LEMMA ForwardKeeps ==
  ASSUME Screened, ~Lagging, [Next]_vars
  PROVE  Forward'
  <1>0. /\ Forward /\ Now \in Nat /\ Len(inbox) \in Nat
        /\ \A j \in 1 .. Len(inbox) : inbox[j].snapshot > 0
    BY ScreenFacts DEF Screened, Forward
  <1>1. Now' > 0
    <2>1. Len(log) <= Len(log') /\ log' \in Seq(Entries)
      BY TruthNext, LogGrows DEF Screened, CalmInv, TruthInv, StreamInv, Logged, Grown
    <2> QED BY <1>0, <2>1 DEF Now, Forward
  <1>2. CASE HandleMessage
    <2>0. Carries(Head(down)) => /\ Head(down).snapshot > 0
                                 /\ Below(offset, order, inbox, Head(down).snapshot)
      BY <1>2, HeadCarried
    <2>1. ASSUME NEW j \in 1 .. Len(inbox') PROVE inbox'[j].snapshot > 0
      <3>1. CASE inbox' = inbox
        BY <1>0, <3>1
      <3>2. CASE /\ Carries(Head(down)) /\ Len(inbox') = Len(inbox) + 1
                 /\ \A i \in 1 .. Len(inbox) : inbox'[i] = inbox[i]
                 /\ inbox'[Len(inbox) + 1].snapshot = Head(down).snapshot
        <4>1. j = Len(inbox) + 1 \/ j \in 1 .. Len(inbox)
          BY <1>0, <2>1, <3>2
        <4> QED BY <1>0, <2>0, <3>2, <4>1
      <3> QED BY <1>2, <3>1, <3>2, MessageMoves
    <2>2. order'.stage = "answered" => offset' <= order'.result.offset
      BY <1>0, <1>2, <2>0, MessageMoves DEF Forward, Below
    <2> QED BY <1>1, <2>1, <2>2 DEF Forward
  <1>3. CASE Apply
    <2>1. order.stage # "answered" /\ order' = order
      BY <1>3 DEF Apply, Ready
    <2>2. \A j \in 1 .. Len(inbox') : inbox'[j].snapshot > 0
      BY <1>0, <1>3, AppliedMoves
    <2> QED BY <1>1, <2>1, <2>2 DEF Forward
  <1>4. CASE Publish
    BY <1>0, <1>1, <1>4, PublishMoves DEF Forward
  <1>5. CASE /\ offset' = offset /\ inbox' = inbox
             /\ order' = order \/ order'.stage # "answered"
    BY <1>0, <1>1, <1>5 DEF Forward
  <1>6. HubStep \/ (\E c \in Connections : Reconnect(c)) \/ UNCHANGED vars
        => offset' = offset /\ inbox' = inbox /\ order' = order
    BY DEF HubStep, Reconnect, vars, client
  <1> QED BY <1>2, <1>3, <1>4, <1>5, <1>6, ClientMoves DEF Next

-----------------------------------------------------------------------------
(* Nothing is lost.                                                        *)

Listening == link \in Connections /\ streams[link].phase = "subscribed"

\* What is added to a stream leaves what was on its way.
LEMMA StillComing ==
  ASSUME Screened, UNCHANGED client, job' = job \/ job = None,
         down' = down \/ (\E m \in Snapped : down' = Append(down, m)),
         NEW k, Coming(k)
  PROVE  Coming(k)'
  <1>0. down \in Seq(Snapped) /\ Len(down) \in Nat /\ offset' = offset /\ inbox' = inbox
    BY ScreenFacts DEF Screened, client
  <1>1. \A i \in 1 .. Len(down) : i \in 1 .. Len(down') /\ down'[i] = down[i]
    <2>1. CASE down' = down
      BY <2>1
    <2>2. ASSUME NEW m \in Snapped, down' = Append(down, m)
          PROVE  \A i \in 1 .. Len(down) : i \in 1 .. Len(down') /\ down'[i] = down[i]
      BY <1>0, <2>2, AppendProperties
    <2> QED BY <2>1, <2>2
  <1>2. CASE \E i \in 1 .. Len(down) : Brings(down[i], k)
    BY <1>1, <1>2 DEF Coming
  <1>3. CASE k <= offset \/ \E j \in 1 .. Len(inbox) : inbox[j].snapshot >= k
    BY <1>0, <1>3 DEF Coming
  <1>4. CASE job # None /\ job.caller = None /\ job.cast # None /\ Brings(job.cast, k)
    BY <1>4 DEF Coming
  <1> QED BY <1>2, <1>3, <1>4 DEF Coming

\* A message that has just been added brings what it shows.
LEMMA NowComing ==
  ASSUME Screened, NEW m \in Snapped, down' = Append(down, m), NEW k, Brings(m, k)
  PROVE  Coming(k)'
  <1>0. down \in Seq(Snapped) /\ Len(down) \in Nat
    BY ScreenFacts DEF Screened
  <1>1. Len(down') = Len(down) + 1 /\ down'[Len(down) + 1] = m
    BY <1>0, AppendProperties
  <1>2. Len(down) + 1 \in 1 .. Len(down')
    BY <1>0, <1>1
  <1> QED BY <1>1, <1>2 DEF Coming

\* The server's steps on a stream that goes on listening.
LEMMA CoveredStays ==
  ASSUME Screened, UNCHANGED client, UNCHANGED log, Listening' => Listening,
         job' = job \/ job = None,
         down' = down \/ (\E m \in Snapped : down' = Append(down, m))
  PROVE  Covered'
  <1>1. ASSUME Listening', NEW k \in 1 .. Now' PROVE log'[k].actor = "me" \/ Coming(k)'
    <2>1. log[k].actor = "me" \/ Coming(k)
      BY <1>1 DEF Screened, Covered, Listening, Now
    <2> QED BY <2>1, StillComing
  <1> QED BY <1>1 DEF Covered, Listening

LEMMA InputCovers ==
  ASSUME Screened, NEW c \in Connections, HandleInput(c), UNCHANGED client, HubStep, ~Sweeping
  PROVE  Covered'
  <1>0. /\ CalmInv /\ log \in Seq(Entries) /\ Now = Len(log) /\ Now \in Nat
        /\ streams \in [Connections -> StreamAt(Now)]
    BY TruthFacts DEF Screened, CalmInv
  <1>1. job = None /\ link' = link
    BY DEF HandleInput, QueueIsFree
  <1>2. down' = down \/ \E m \in Snapped : down' = Append(down, m)
    BY <1>0, HubAdds
  <1>3. Listening' => Listening
    <2>1. streams' \in {streams, [streams EXCEPT ![c] = Left(c)]}
      BY DEF HandleInput, RejectPresence, Renew, Repeat, Accept, Reject, Abort
    <2>2. Left(c).phase # "subscribed"
      BY DEF Left, Closed
    <2> QED BY <1>0, <1>1, <2>1, <2>2 DEF Listening
  <1>4. CASE UNCHANGED log
    BY <1>1, <1>2, <1>3, <1>4, CoveredStays
  <1>5. ASSUME NEW e, log' = Append(log, e), e.actor = "me" PROVE Covered'
    <2>1. Len(log') = Now + 1 /\ log'[Now + 1] = e /\ \A k \in 1 .. Now : log'[k] = log[k]
      BY <1>0, <1>5, AppendGrows DEF Grown
    <2>2. ASSUME Listening', NEW k \in 1 .. Now' PROVE log'[k].actor = "me" \/ Coming(k)'
      <3>1. k = Now + 1 \/ k \in 1 .. Now
        BY <1>0, <2>1, <2>2 DEF Now
      <3>2. CASE k \in 1 .. Now
        <4>1. log[k].actor = "me" \/ Coming(k)
          BY <1>3, <2>2, <3>2 DEF Screened, Covered, Listening
        <4> QED BY <1>1, <1>2, <2>1, <3>2, <4>1, StillComing
      <3> QED BY <1>5, <2>1, <3>1, <3>2
    <2> QED BY <2>2 DEF Covered, Listening
  <1>6. UNCHANGED log \/ \E e : log' = Append(log, e) /\ e.actor = "me"
    <2>1. \A tick, command : Entry("me", tick, command).actor = "me"
      BY DEF Entry
    <2> QED BY <2>1 DEF HandleInput, RejectPresence, Renew, Repeat, Accept, Reject, Abort
  <1> QED BY <1>4, <1>5, <1>6

LEMMA SubscribeCovers ==
  ASSUME Screened, NEW c \in Connections, Subscribe(c), UNCHANGED client
  PROVE  Covered'
  <1>0. /\ CalmInv /\ log \in Seq(Entries) /\ Now = Len(log) /\ Now \in Nat /\ Now <= MaxLog
        /\ streams \in [Connections -> StreamAt(Now)] /\ down \in Seq(Snapped)
    BY TruthFacts, ScreenFacts DEF Screened, CalmInv, TruthInv, StreamInv, Logged
  <1>1. UNCHANGED <<log, job, link>>
    BY DEF Subscribe
  <1>2. CASE c = link
    <2>1. down' = down \o <<State(Now)>>
      BY <1>0, <1>2, CalmInitial DEF Subscribe, Sent
    <2>2. State(Now) \in Snapped /\ State(Now).kind = "state" /\ State(Now).tick = 0
          /\ State(Now).snapshot = Now
      <3>1. State(Now).kind = "state" /\ State(Now).tick = 0 /\ State(Now).snapshot = Now
        BY DEF State
      <3>2. Now \in 0 .. Len(log)
        BY <1>0
      <3>3. State(Now) \in Truthful(log)
        BY <1>0, <3>2, StateIsTrue
      <3> QED BY <3>1, <3>3 DEF Truthful, Snapped
    <2>3. down' = Append(down, State(Now))
      BY <1>0, <2>1, <2>2, AppendIsConcat
    <2>4. ASSUME NEW k \in 1 .. Now' PROVE Coming(k)'
      <3>1. Brings(State(Now), k)
        BY <1>0, <1>1, <2>2, <2>4 DEF Brings, Now
      <3> QED BY <2>2, <2>3, <3>1, NowComing
    <2> QED BY <2>4 DEF Covered
  <1>3. CASE c # link
    <2>1. down' = down /\ (link \in Connections => streams'[link] = streams[link])
      BY <1>0, <1>3 DEF Subscribe
    <2> QED BY <1>1, <2>1, CoveredStays DEF Listening
  <1> QED BY <1>2, <1>3

LEMMA PeerCovers ==
  ASSUME Screened, PeerCommand, UNCHANGED client
  PROVE  Covered'
  <1>0. log \in Seq(Entries) /\ Now = Len(log) /\ Now \in Nat
    BY ScreenFacts DEF Screened
  <1>1. /\ UNCHANGED <<link, down, streams>> /\ job = None
        /\ log' = Append(log, Entry("peer", 0, None)) /\ job' = Notice(None, None, NewEvent(0))
    BY DEF PeerCommand, channels, QueueIsFree
  <1>2. Len(log') = Now + 1 /\ \A k \in 1 .. Now : log'[k] = log[k]
    BY <1>0, <1>1, AppendGrows DEF Grown
  <1>3. ASSUME Listening', NEW k \in 1 .. Now' PROVE log'[k].actor = "me" \/ Coming(k)'
    <2>1. k = Now + 1 \/ k \in 1 .. Now
      BY <1>0, <1>2, <1>3 DEF Now
    <2>2. CASE k \in 1 .. Now
      <3>1. log[k].actor = "me" \/ Coming(k)
        BY <1>1, <1>3, <2>2 DEF Screened, Covered, Listening
      <3> QED BY <1>1, <1>2, <2>2, <3>1, StillComing
    <2>3. CASE k = Now + 1
      <3>1. /\ job'.caller = None /\ job'.cast = NewEvent(0)
            /\ NewEvent(0).kind = "event" /\ NewEvent(0).tick = 0
            /\ NewEvent(0).snapshot = Now + 1
        BY <1>1 DEF Notice, NewEvent, Event
      <3>2. Brings(NewEvent(0), k)
        BY <1>0, <2>3, <3>1 DEF Brings
      <3>3. job' # None /\ job'.cast # None
        <4>1. NewEvent(0) \in ServerMessage
          <5>1. /\ Now < MaxLog /\ "peer" \in {"me", "peer"} /\ 0 \in 0 .. MaxTick + MaxLog
                /\ TruthInv
            BY ChannelAssumption DEF PeerCommand, Screened, CalmInv
          <5>2. NewEvent(IF "peer" = "me" THEN 0 ELSE 0) \in Truthful(log')
            BY <1>1, <5>1, ForeignEventIsTrue
          <5> QED BY <5>2 DEF Truthful
        <4>2. job' \in [caller : {None} \cup Connections, reply : {None} \cup ServerMessage,
                        cast : {None} \cup ServerMessage]
          BY <1>1, <4>1 DEF Notice
        <4> QED BY <3>1, <4>1, <4>2, HubAssumption
      <3> QED BY <3>1, <3>2, <3>3 DEF Coming
    <2> QED BY <2>1, <2>2, <2>3
  <1> QED BY <1>3 DEF Covered, Listening

LEMMA DeliverCovers ==
  ASSUME Screened, Deliver, UNCHANGED client, HubStep, ~Sweeping
  PROVE  Covered'
  <1>0. CalmInv /\ Now = Len(log) /\ Now \in Nat /\ down \in Seq(Snapped)
    BY ScreenFacts DEF Screened
  <1>1. UNCHANGED <<link, log, streams>> /\ down' = down \o Notified(job) /\ job # None
    BY DEF Deliver, Sent
  <1>2. ASSUME Listening', NEW k \in 1 .. Now' PROVE log'[k].actor = "me" \/ Coming(k)'
    <2>1. Listening /\ (log[k].actor = "me" \/ Coming(k))
      BY <1>1, <1>2 DEF Screened, Covered, Listening, Now
    <2>2. CASE job.caller = None /\ job.cast # None /\ Brings(job.cast, k)
      <3>1. Notified(job) = <<job.cast>>
        BY <2>1, <2>2 DEF Notified, OnLink, Listening
      <3>2. job.cast \in Snapped
        <4>1. <<job.cast>> \in Seq(Snapped)
          BY <1>0, <1>1, <3>1, FreshIsSnapped
        <4> QED BY <4>1
      <3>3. down' = Append(down, job.cast)
        BY <1>0, <1>1, <3>1, <3>2, AppendIsConcat
      <3> QED BY <2>2, <3>2, <3>3, NowComing
    <2>3. CASE ~(job.caller = None /\ job.cast # None /\ Brings(job.cast, k))
      <3>1. CASE Coming(k)
        <4>1. \/ k <= offset
              \/ \E j \in 1 .. Len(inbox) : inbox[j].snapshot >= k
              \/ \E i \in 1 .. Len(down) : Brings(down[i], k)
          BY <2>3, <3>1 DEF Coming
        <4>2. \A i \in 1 .. Len(down) : i \in 1 .. Len(down') /\ down'[i] = down[i]
          <5>1. CASE down' = down
            BY <5>1
          <5>2. ASSUME NEW m \in Snapped, down' = Append(down, m)
                PROVE  \A i \in 1 .. Len(down) : i \in 1 .. Len(down') /\ down'[i] = down[i]
            BY <1>0, <5>2, AppendProperties
          <5> QED BY <1>0, <5>1, <5>2, HubAdds
        <4>3. offset' = offset /\ inbox' = inbox
          BY DEF client
        <4>4. CASE \E i \in 1 .. Len(down) : Brings(down[i], k)
          BY <4>2, <4>4 DEF Coming
        <4>5. CASE k <= offset \/ \E j \in 1 .. Len(inbox) : inbox[j].snapshot >= k
          BY <4>3, <4>5 DEF Coming
        <4> QED BY <4>1, <4>4, <4>5
      <3> QED BY <1>1, <2>1, <3>1
    <2> QED BY <2>2, <2>3
  <1> QED BY <1>2 DEF Covered, Listening

\* A stream that is left takes no answer with it that others wait for.
LEMMA DisconnectCovers ==
  ASSUME Screened, NEW c \in Connections, Disconnect(c), UNCHANGED client
  PROVE  Covered'
  <1>0. /\ Now = Len(log) /\ streams \in [Connections -> StreamAt(Now)]
        /\ job \in Notices(log) \cup {None}
    BY TruthFacts DEF Screened, CalmInv, TruthInv, Spoken
  <1>1. /\ UNCHANGED <<link, down, log>> /\ c # link
        /\ link \in Connections => streams'[link] = streams[link]
    BY <1>0 DEF Disconnect
  <1>2. ASSUME Listening', NEW k \in 1 .. Now' PROVE log'[k].actor = "me" \/ Coming(k)'
    <2>1. Listening /\ (log[k].actor = "me" \/ Coming(k))
      BY <1>1, <1>2 DEF Screened, Covered, Listening, Now
    <2>2. offset' = offset /\ inbox' = inbox
      BY DEF client
    <2>3. job # None /\ job.caller = None => job' = job
      <3>1. None \notin Connections
        BY ChannelAssumption
      <3> QED BY <3>1 DEF Disconnect
    <2>4. Coming(k) => Coming(k)'
      BY <1>1, <2>2, <2>3 DEF Coming
    <2> QED BY <1>1, <2>1, <2>4
  <1> QED BY <1>2 DEF Covered, Listening

\* What the client does with what is on its way.
LEMMA MessageCovers ==
  ASSUME Screened, HandleMessage, UNCHANGED hub
  PROVE  Covered'
  <1> DEFINE m == Head(down)
  <1>0. /\ down \in Seq(Snapped) /\ down # <<>> /\ Len(down) \in Nat /\ Len(inbox) \in Nat
        /\ echo \subseteq Ticks /\ loading = {}
    BY ScreenFacts DEF Screened, HandleMessage, CalmInv, TruthInv, Shown
  <1>1. /\ m = down[1] /\ Len(Tail(down)) = Len(down) - 1 /\ m \in Snapped
        /\ \A i \in 1 .. Len(Tail(down)) : Tail(down)[i] = down[i + 1]
    BY <1>0, HeadTailProperties
  <1>2. ASSUME Listening', NEW k \in 1 .. Now' PROVE log'[k].actor = "me" \/ Coming(k)'
    <2>1. link' = link /\ down' = Tail(down) /\ offset' = offset /\ Listening
      <3>1. link' \in Connections
        BY <1>2 DEF Listening
      <3>2. link' = link
        BY <3>1, MessageMoves, ChannelAssumption
      <3> QED BY <1>2, <3>2, MessageMoves DEF Listening, hub
    <2>2. log[k].actor = "me" \/ Coming(k)
      BY <1>2, <2>1 DEF Screened, Covered, Listening, Now, hub
    <2>3. UNCHANGED <<log, job>>
      BY DEF hub
    <2>4. \A j \in 1 .. Len(inbox) : j \in 1 .. Len(inbox') /\ inbox'[j] = inbox[j]
      BY <1>0, MessageMoves
    <2>5. ASSUME Brings(m, k) PROVE Coming(k)'
      <3>1. (~IsLocalEcho(m) /\ m.snapshot # None) \/ m.kind = "state"
        BY <1>0, <1>1, <2>5 DEF Brings, IsLocalEcho, Ticks, Snapped
      <3>2. Queued(m.snapshot, m.offset) \/ Queued(m.snapshot, 0)
        BY <2>5, <3>1 DEF Brings, HandleMessage, HandleAck, HandleEvent, HandleState, HandleFailure
      <3>3. inbox' # inbox
        <4>1. ASSUME NEW e, inbox' = Append(inbox, [snapshot |-> m.snapshot, event |-> e])
              PROVE  Len(inbox') = Len(inbox) + 1
          <5>1. inbox \in Seq(Pictures(Now))
            BY ScreenFacts DEF Screened
          <5> DEFINE item == [snapshot |-> m.snapshot, event |-> e]
          <5>2. inbox \in Seq(Pictures(Now) \cup {item})
            BY <5>1, SeqMonotonic
          <5> HIDE DEF item
          <5>3. Len(Append(inbox, item)) = Len(inbox) + 1
            BY <5>2, AppendProperties
          <5> QED BY <4>1, <5>3 DEF item
        <4> QED BY <1>0, <3>2, <4>1 DEF Queued
      <3>4. Len(inbox) + 1 \in 1 .. Len(inbox') /\ inbox'[Len(inbox) + 1].snapshot = m.snapshot
        BY <1>0, <3>3, MessageMoves
      <3>5. inbox'[Len(inbox) + 1].snapshot >= k
        BY <2>5, <3>4 DEF Brings
      <3> QED BY <3>4, <3>5 DEF Coming
    <2>6. CASE \E i \in 1 .. Len(down) : Brings(down[i], k)
      <3>1. PICK i \in 1 .. Len(down) : Brings(down[i], k)
        BY <2>6
      <3>2. CASE i = 1
        BY <1>1, <2>5, <3>1, <3>2
      <3>3. CASE i # 1
        <4>1. i - 1 \in 1 .. Len(down') /\ down'[i - 1] = down[i]
          BY <1>0, <1>1, <2>1, <3>3
        <4> QED BY <3>1, <4>1 DEF Coming
      <3> QED BY <3>2, <3>3
    <2>7. CASE \/ k <= offset
               \/ job # None /\ job.caller = None /\ job.cast # None /\ Brings(job.cast, k)
      BY <2>1, <2>3, <2>7 DEF Coming
    <2>8. CASE \E j \in 1 .. Len(inbox) : inbox[j].snapshot >= k
      BY <2>4, <2>8 DEF Coming
    <2> QED BY <2>2, <2>3, <2>6, <2>7, <2>8 DEF Coming
  <1> QED BY <1>2 DEF Covered, Listening

LEMMA ScreenCovers ==
  ASSUME Screened, Apply \/ Publish, UNCHANGED hub
  PROVE  Covered'
  <1>0. UNCHANGED <<link, down, log, job, streams>> /\ offset \in Nat /\ Len(inbox) \in Nat
    BY ScreenFacts DEF Apply, Publish, channels, hub, Screened
  <1>1. /\ offset' >= offset /\ offset' \in Nat
        /\ \A j \in 1 .. Len(inbox) : inbox[j].snapshot \in Nat
        /\ \A j \in 1 .. Len(inbox) :
              \/ inbox[j].snapshot <= offset'
              \/ \E i \in 1 .. Len(inbox') : inbox'[i] = inbox[j]
    <2>1. \A j \in 1 .. Len(inbox) : inbox[j].snapshot \in Nat
      BY ScreenFacts DEF Screened
    <2>2. CASE Apply
      <3>1. /\ Len(inbox') = Len(inbox) - 1
            /\ \A j \in 1 .. Len(inbox') : inbox'[j] = inbox[j + 1]
            /\ offset' >= offset /\ offset' \in Nat
            /\ inbox[1].snapshot <= offset'
        BY <1>0, <2>1, <2>2, AppliedMoves
      <3>2. ASSUME NEW j \in 1 .. Len(inbox), j # 1
            PROVE  j - 1 \in 1 .. Len(inbox') /\ inbox'[j - 1] = inbox[j]
        BY <1>0, <3>1, <3>2
      <3> QED BY <2>1, <3>1, <3>2
    <2>3. CASE Publish
      BY <2>1, <2>3, PublishMoves
    <2> QED BY <2>2, <2>3
  <1>2. ASSUME Listening', NEW k \in 1 .. Now' PROVE log'[k].actor = "me" \/ Coming(k)'
    <2>1. log[k].actor = "me" \/ Coming(k)
      BY <1>0, <1>2 DEF Screened, Covered, Listening, Now
    <2>2. CASE k <= offset
      <3>1. k <= offset'
        BY <1>0, <1>1, <1>2, <2>2
      <3> QED BY <3>1 DEF Coming
    <2>3. CASE \E j \in 1 .. Len(inbox) : inbox[j].snapshot >= k
      <3>1. PICK j \in 1 .. Len(inbox) : inbox[j].snapshot >= k
        BY <2>3
      <3>2. CASE inbox[j].snapshot <= offset'
        <4>1. k <= offset'
          BY <1>1, <1>2, <3>1, <3>2
        <4> QED BY <4>1 DEF Coming
      <3>3. CASE \E i \in 1 .. Len(inbox') : inbox'[i] = inbox[j]
        BY <3>1, <3>3 DEF Coming
      <3> QED BY <1>1, <3>2, <3>3
    <2>4. CASE \/ \E i \in 1 .. Len(down) : Brings(down[i], k)
               \/ job # None /\ job.caller = None /\ job.cast # None /\ Brings(job.cast, k)
      BY <1>0, <2>4 DEF Coming
    <2> QED BY <1>0, <2>1, <2>2, <2>3, <2>4 DEF Coming
  <1> QED BY <1>2 DEF Covered, Listening

LEMMA CoveredKeeps ==
  ASSUME Screened, ~Sweeping, [Next]_vars
  PROVE  Covered'
  <1>0. /\ Covered /\ swept = None /\ loading = {} /\ streams \in [Connections -> StreamAt(Now)]
    BY TruthFacts, ScreenFacts DEF Screened, CalmInv
  <1>1. CASE HubStep
    <2>0. UNCHANGED client
      BY <1>1 DEF HubStep
    <2>1. ASSUME NEW c \in Connections,
                 HandleInput(c) \/ Subscribe(c) \/ Disconnect(c)
          PROVE  Covered'
      BY <1>1, <2>0, <2>1, InputCovers, SubscribeCovers, DisconnectCovers
    <2>2. CASE Deliver \/ PeerCommand
      BY <1>1, <2>0, <2>2, DeliverCovers, PeerCovers
    <2>3. ASSUME NEW c \in Connections, Connect(c) \/ ListEvents(c) \/ ParticipantDisconnected(c)
          PROVE  Covered'
      <3>1. /\ UNCHANGED <<link, down, log, job>>
            /\ \A d \in Connections \ {c} : streams'[d] = streams[d]
            /\ streams'[c].phase # "subscribed"
        <4>1. UNCHANGED <<link, down, log, job>>
          BY <2>3 DEF Connect, ListEvents, ParticipantDisconnected, channels
        <4>2. \A d \in Connections \ {c} : streams'[d] = streams[d]
          BY <1>0, <2>3 DEF Connect, ListEvents, ParticipantDisconnected
        <4>3. streams'[c].phase \in {"connected", "listed", "closed"}
          <5>1. streams[c] \in StreamAt(Now)
            BY <1>0
          <5>2. CASE Connect(c)
            BY <1>0, <5>1, <5>2 DEF Connect, StreamAt
          <5>3. CASE ListEvents(c)
            BY <1>0, <5>1, <5>3 DEF ListEvents, StreamAt
          <5>4. CASE ParticipantDisconnected(c)
            BY <1>0, <5>4 DEF ParticipantDisconnected, Closed
          <5> QED BY <2>3, <5>2, <5>3, <5>4
        <4> QED BY <4>1, <4>2, <4>3
      <3> QED BY <2>0, <3>1, CoveredStays DEF Listening
    <2>4. CASE PeerPresence
      <3>1. UNCHANGED <<link, down, log, streams>> /\ job = None
        BY <2>4 DEF PeerPresence, channels, QueueIsFree
      <3> QED BY <2>0, <3>1, CoveredStays DEF Listening
    <2>5. CASE Restart
      <3>1. ~Listening'
        BY <2>5 DEF Restart, Listening, Closed
      <3> QED BY <3>1 DEF Covered, Listening
    <2>6. ~SweepTurn /\ ~SweepLease /\ ~DeliverSweep
      BY <1>0 DEF SweepTurn, SweepLease, DeliverSweep
    <2> QED BY <1>1, <2>1, <2>2, <2>3, <2>4, <2>5, <2>6 DEF HubStep
  <1>2. CASE ClientStep
    <2>0. UNCHANGED hub
      BY <1>2 DEF ClientStep
    <2>1. CASE HandleMessage \/ Apply \/ Publish
      BY <2>0, <2>1, MessageCovers, ScreenCovers
    <2>2. CASE offset' = offset /\ inbox' = inbox /\ link' = link /\ down' = down
      BY <1>0, <2>0, <2>2 DEF Covered, Coming, Now, hub
    <2>3. CASE link' = "none"
      <3>1. link' \notin Connections
        BY <2>3, ChannelAssumption
      <3> QED BY <3>1 DEF Covered
    <2> QED BY <1>2, <2>1, <2>2, <2>3, ClientMoves
  <1>3. ASSUME NEW c \in Connections, Reconnect(c) PROVE Covered'
    <2>1. link' = c /\ streams'[c].phase = "queued"
      BY <1>0, <1>3 DEF Reconnect, Closed
    <2> QED BY <2>1 DEF Covered
  <1>4. CASE UNCHANGED vars
    BY <1>0, <1>4 DEF Covered, Coming, Now, vars, channels, hub, client
  <1> QED BY <1>1, <1>2, <1>3, <1>4 DEF Next

-----------------------------------------------------------------------------
(* The theorems about the screen.                                          *)

LEMMA ScreenedNext ==
  ASSUME Screened, ~Sweeping, ~Lagging, [Next]_vars
  PROVE  Screened'
  <1>1. CalmInv'
    BY CalmNext DEF Screened
  <1> QED BY <1>1, LinedKeeps, ForwardKeeps, CoveredKeeps DEF Screened

LEMMA InitIsScreened ==
  ASSUME Started > 0, Init
  PROVE  Screened
  <1>1. CalmInv
    BY InitIsCalm
  <1>2. link = "none" /\ down = <<>> /\ inbox = <<>> /\ order = Idle
        /\ log = [k \in 1 .. Started |-> Entry("peer", 0, None)]
    BY DEF Init
  <1>3. Lined
    BY <1>2 DEF Lined
  <1>4. Now > 0
    <2>1. Started \in Nat
      BY StartAssumption
    <2> QED BY <1>2, <2>1 DEF Now
  <1>5. Forward
    BY <1>2, <1>4 DEF Forward, Idle
  <1>6. Covered
    BY <1>2, ChannelAssumption DEF Covered
  <1> QED BY <1>1, <1>3, <1>5, <1>6 DEF Screened

\* While no sweep runs and results are shown before what comes after them,
\* all that is under way to the screen is in order and nothing is lost.
THEOREM ScreenInvariant ==
  ASSUME ~Sweeping, ~Lagging, Started > 0
  PROVE  Spec => []Screened
  <1>1. Screened /\ [Next]_vars => Screened'
    BY ScreenedNext
  <1>2. Init => Screened
    BY InitIsScreened
  <1> QED BY <1>1, <1>2, PTL DEF Spec

\* The state on the screen never goes back to an earlier one, if every result
\* is shown before what comes after it (docs/multiplayer-protocol.md:72).
THEOREM ScreenNeverGoesBack ==
  ASSUME ~Sweeping, ~Lagging, Started > 0
  PROVE  Spec => OffsetsAreMonotonic
  <1>1. Screened /\ [Next]_vars => [offset' >= offset]_vars
    <2> SUFFICES ASSUME Screened, [Next]_vars PROVE offset' >= offset
      OBVIOUS
    <2>1. offset \in Nat
      BY ScreenFacts DEF Screened
    <2>2. CASE HandleMessage
      BY <2>1, <2>2, MessageMoves
    <2>3. CASE Apply \/ Publish
      BY <2>3, AppliedMoves, PublishMoves
    <2>4. HubStep \/ (\E c \in Connections : Reconnect(c)) \/ UNCHANGED vars => offset' = offset
      BY DEF HubStep, Reconnect, vars, client
    <2> QED BY <2>1, <2>2, <2>3, <2>4, ClientMoves DEF Next
  <1>2. Spec => [][offset' >= offset]_vars
    BY <1>1, ScreenInvariant, PTL DEF Spec
  <1> QED BY <1>2 DEF OffsetsAreMonotonic

\* When nothing is under way any more the screen shows the match, but for
\* commands of its own that it had given up (the registry's backlog, the echo
\* guard and the queue to the screen together).
THEOREM QuietScreensAreCurrent ==
  ASSUME ~Sweeping, ~Lagging, Started > 0
  PROVE  Spec => []QuietIsCurrent
  <1>1. Screened => QuietIsCurrent
    <2> SUFFICES ASSUME Screened, Quiet, NEW k \in offset + 1 .. Now
                 PROVE  log[k].actor = "me"
      BY DEF QuietIsCurrent, Current
    <2>1. offset \in Nat /\ Now \in Nat
      BY ScreenFacts DEF Screened
    <2>2. k \in 1 .. Now /\ ~(k <= offset)
      BY <2>1
    <2>3. Len(down) = 0 /\ Len(inbox) = 0 /\ job = None
      BY DEF Quiet
    <2>4. log[k].actor = "me" \/ Coming(k)
      BY <2>2 DEF Screened, Covered, Quiet
    <2> QED BY <2>2, <2>3, <2>4 DEF Coming
  <1> QED BY <1>1, ScreenInvariant, PTL
=============================================================================
