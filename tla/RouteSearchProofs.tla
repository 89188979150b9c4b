-------------------------- MODULE RouteSearchProofs --------------------------
(***************************************************************************)
(* For every world: the best-first search of RouteSearch answers what Plan *)
(* says a plan has to be.                                                  *)
(***************************************************************************)
EXTENDS PlannedTurn, GameEngineProofs, FiniteSetTheorems

-----------------------------------------------------------------------------
(* Scores.                                                                 *)

LEMMA NoWorseFacts ==
  /\ \A a \in Scores : NoWorse(a, a)
  /\ \A a, b \in Scores : NoWorse(a, b) \/ NoWorse(b, a)
  /\ \A a, b, c \in Scores : NoWorse(a, b) /\ NoWorse(b, c) => NoWorse(a, c)
  /\ \A a, b \in Scores : NoWorse(a, b) /\ NoWorse(b, a) => a = b
  <1>1. \A a \in Scores : /\ a[1] \in Nat /\ a[2] \in Nat /\ a[3] \in Nat
                          /\ a = <<a[1], a[2], a[3]>>
    BY DEF Scores
  <1>2. \A a, b \in Scores : a[1] = b[1] /\ a[2] = b[2] /\ a[3] = b[3] => a = b
    BY DEF Scores
  <1> QED BY <1>1, <1>2 DEF NoWorse

-----------------------------------------------------------------------------
(* Records, and what entering a tile makes of them.                        *)

Node == [tile : Tiles, remaining : Nat, started : BOOLEAN]
Recorded == [state : Node, score : Scores, parent : Nat, enter : Nat]

\* The turn a record belongs to, the first being the one of departure.
Begun(a) == IF a.state.started THEN a.score[1] ELSE a.score[1] + 1

LEMMA RecordTyping ==
  ASSUME NEW a \in Recorded
  PROVE  /\ a.state \in Node /\ a.state.tile \in Tiles /\ a.state.remaining \in Nat
         /\ a.state.started \in BOOLEAN
         /\ a.score \in Scores /\ a.score[1] \in Nat /\ a.score[2] \in Nat
         /\ a.score[3] \in Nat /\ a.parent \in Nat /\ a.enter \in Nat
         /\ Begun(a) \in Nat
  <1>1. /\ a.state \in Node /\ a.score \in Scores /\ a.parent \in Nat /\ a.enter \in Nat
    BY DEF Recorded
  <1>2. /\ a.score[1] \in Nat /\ a.score[2] \in Nat /\ a.score[3] \in Nat
    BY <1>1 DEF Scores
  <1>3. a.state.tile \in Tiles /\ a.state.remaining \in Nat /\ a.state.started \in BOOLEAN
    BY <1>1 DEF Node
  <1> QED BY <1>1, <1>2, <1>3 DEF Begun

\* What a record turns into when a tile is entered from it: paid in full, paid
\* with all that was left, or paid with the next turn's allowance.
Follow(a, b, cost, maximum) ==
    /\ b.state.started /\ b.score[1] = Begun(b)
    /\ b.score[2] = a.score[2] + cost /\ b.score[3] = a.score[3] + 1
    /\ cost <= a.state.remaining =>
          Begun(b) = Begun(a) /\ b.state.remaining = a.state.remaining - cost
    /\ cost > a.state.remaining /\ a.state.remaining > 0 =>
          Begun(b) = Begun(a) /\ b.state.remaining = 0
    /\ cost > a.state.remaining /\ a.state.remaining = 0 =>
          Begun(b) = Begun(a) + 1 /\ b.state.remaining = Remaining(maximum, cost)

LEMMA EnteredFacts ==
  ASSUME NEW a \in Recorded, NEW p \in Nat, NEW tile \in Tiles, NEW cost \in Nat,
         NEW maximum \in Nat, NEW b, b = Entered(a, p, tile, cost, maximum)
  PROVE  /\ b \in Recorded /\ Follow(a, b, cost, maximum)
         /\ b.state.tile = tile /\ b.parent = p /\ b.enter = cost
  <1> DEFINE left == a.state.remaining
             adv == Advanced(a, cost, maximum)
  <1>1. /\ left \in Nat /\ a.score[1] \in Nat /\ a.score[2] \in Nat /\ a.score[3] \in Nat
        /\ Begun(a) \in Nat
    BY RecordTyping
  <1>2. adv = IF cost <= left THEN [turns |-> Begun(a), remaining |-> left - cost]
              ELSE IF left > 0 THEN [turns |-> Begun(a), remaining |-> 0]
              ELSE [turns |-> Begun(a) + 1, remaining |-> Remaining(maximum, cost)]
    BY DEF Advanced, Begun
  <1>3. Remaining(maximum, cost) \in Nat
    BY DEF Remaining
  <1>4. adv.turns \in Nat /\ adv.remaining \in Nat
    BY <1>1, <1>2, <1>3
  <1>5. b = [state |-> [tile |-> tile, remaining |-> adv.remaining, started |-> TRUE],
             score |-> <<adv.turns, a.score[2] + cost, a.score[3] + 1>>,
             parent |-> p, enter |-> cost]
    BY DEF Entered
  <1>6. b.state \in Node /\ b.score \in Scores
    BY <1>1, <1>4, <1>5 DEF Node, Scores
  <1>7. /\ b.state.tile = tile /\ b.state.started /\ b.parent = p /\ b.enter = cost
        /\ b.score[1] = adv.turns /\ b.state.remaining = adv.remaining
        /\ b.score[2] = a.score[2] + cost /\ b.score[3] = a.score[3] + 1
    BY <1>5
  <1>8. Begun(b) = adv.turns
    BY <1>7 DEF Begun
  <1>9. b \in Recorded
    BY <1>5, <1>6 DEF Recorded
  <1> HIDE DEF adv
  <1>10. /\ cost <= left => adv.turns = Begun(a) /\ adv.remaining = left - cost
         /\ cost > left /\ left > 0 => adv.turns = Begun(a) /\ adv.remaining = 0
         /\ cost > left /\ left = 0 =>
               adv.turns = Begun(a) + 1 /\ adv.remaining = Remaining(maximum, cost)
    BY <1>1, <1>2
  <1> QED BY <1>7, <1>8, <1>9, <1>10 DEF Follow

\* A tile entered makes a score no better.
LEMMA EnteredScore ==
  ASSUME NEW a \in Recorded, NEW p \in Nat, NEW tile \in Tiles, NEW cost \in Nat,
         NEW maximum \in Nat, NEW b, b = Entered(a, p, tile, cost, maximum)
  PROVE  /\ NoWorse(a.score, b.score)
         /\ Begun(b) \in {Begun(a), Begun(a) + 1}
  <1>1. /\ a.score[1] \in Nat /\ a.score[2] \in Nat /\ a.score[3] \in Nat
        /\ a.state.remaining \in Nat
    BY RecordTyping
  <1>2. b \in Recorded /\ Follow(a, b, cost, maximum)
    BY EnteredFacts
  <1>3. Begun(b) \in {Begun(a), Begun(a) + 1}
    <2>1. \/ cost <= a.state.remaining
          \/ cost > a.state.remaining /\ a.state.remaining > 0
          \/ cost > a.state.remaining /\ a.state.remaining = 0
      BY <1>1
    <2> QED BY <1>2, <2>1 DEF Follow
  <1>4. b.score[1] \in {a.score[1], a.score[1] + 1, a.score[1] + 2}
    BY <1>1, <1>2, <1>3 DEF Begun, Follow
  <1> QED BY <1>1, <1>2, <1>3, <1>4 DEF NoWorse, Begun, Follow

\* Of two records of a node, the one that is no worse stays so.
LEMMA FollowAlike ==
  ASSUME NEW a \in Recorded, NEW b \in Recorded, NEW c \in Recorded, NEW d \in Recorded,
         NEW cost \in Nat, NEW maximum \in Nat,
         Follow(a, b, cost, maximum), Follow(c, d, cost, maximum),
         c.state = a.state, d.state.tile = b.state.tile
  PROVE  /\ d.state = b.state
         /\ NoWorse(c.score, a.score) => NoWorse(d.score, b.score)
  <1> DEFINE left == a.state.remaining
  <1>1. /\ a.score[1] \in Nat /\ a.score[2] \in Nat /\ a.score[3] \in Nat
        /\ b.score[1] \in Nat /\ b.score[2] \in Nat /\ b.score[3] \in Nat
        /\ c.score[1] \in Nat /\ c.score[2] \in Nat /\ c.score[3] \in Nat
        /\ d.score[1] \in Nat /\ d.score[2] \in Nat /\ d.score[3] \in Nat
        /\ left \in Nat
    BY RecordTyping
  <1>2. \/ cost <= left
        \/ cost > left /\ left > 0
        \/ cost > left /\ left = 0
    BY <1>1
  <1>3. /\ d.state.remaining = b.state.remaining
        /\ Begun(d) - Begun(c) = Begun(b) - Begun(a)
    <2>1. Begun(a) \in Nat /\ Begun(b) \in Nat /\ Begun(c) \in Nat /\ Begun(d) \in Nat
      BY RecordTyping
    <2> QED BY <1>1, <1>2, <2>1 DEF Follow
  <1>4. d.state = b.state
    <2>1. d.state \in Node /\ b.state \in Node /\ d.state.started /\ b.state.started
      BY RecordTyping DEF Follow
    <2> QED BY <1>3, <2>1 DEF Node
  <1>5. d.score[1] - c.score[1] = b.score[1] - a.score[1]
    BY <1>1, <1>3 DEF Follow, Begun
  <1>6. NoWorse(c.score, a.score) => NoWorse(d.score, b.score)
    BY <1>1, <1>5 DEF NoWorse, Follow
  <1> QED BY <1>4, <1>6

-----------------------------------------------------------------------------
(* What can be spent in a number of turns.                                 *)

LEMMA DearestEntryBounds == \A g, u, from, to : EnterCost(g, u, from, to) \in 0 .. DearestEntry
  <1>1. \A tile : FeatureCost(tile) \in 0 .. 8
    BY DEF FeatureCost, PerPoint
  <1>2. \A base : BaseLandCost(base) \in 0 .. 6
    BY DEF BaseLandCost, Blocked
  <1>3. \A tile, domain : EntryCost(tile, domain) \in 0 .. DearestEntry
    BY <1>1, <1>2 DEF EntryCost, Blocked, DearestEntry
  <1> QED BY <1>3 DEF EnterCost, DearestEntry

PerTurn == MovementLimit + 2 * DearestEntry

LEMMA PerTurnTyping ==
  /\ PerTurn \in Nat
  /\ \A n \in Nat : n * PerTurn \in Nat /\ (n + 1) * PerTurn = n * PerTurn + PerTurn
  /\ \A m, n \in Nat : m <= n => m * PerTurn <= n * PerTurn
  <1>1. PerTurn \in Nat
    BY BalanceAssumption DEF PerTurn, DearestEntry
  <1> HIDE DEF PerTurn
  <1> QED BY <1>1

\* No more is spent than the turns begun so far can pay for, an overdraft of
\* the last of them included, and a later turn starts with the maximum.
Affordable(a, maximum) ==
    LET before == (Begun(a) - 1) * PerTurn
        funds == a.score[2] + a.state.remaining
    IN  /\ Begun(a) >= 1
        /\ Begun(a) >= 2 => a.state.remaining <= maximum
        /\ a.state.remaining > 0 => funds <= before + MovementLimit
        /\ funds <= before + MovementLimit + DearestEntry

LEMMA StaysAffordable ==
  ASSUME NEW a \in Recorded, NEW b \in Recorded, NEW cost \in 0 .. DearestEntry,
         NEW maximum \in 0 .. MovementLimit + DearestEntry,
         Follow(a, b, cost, maximum), Affordable(a, maximum)
  PROVE  Affordable(b, maximum)
  <1> DEFINE spent == a.score[2]
             left == a.state.remaining
             first == Begun(a) - 1
             before == first * PerTurn
  <1>1. /\ spent \in Nat /\ left \in Nat /\ first \in Nat /\ Begun(a) \in Nat
        /\ b.score[2] \in Nat /\ b.state.remaining \in Nat
    BY RecordTyping DEF Affordable
  <1>2. /\ before \in Nat /\ (first + 1) * PerTurn = before + PerTurn
        /\ PerTurn = MovementLimit + 2 * DearestEntry
        /\ MovementLimit \in Nat /\ DearestEntry \in Nat
    BY <1>1, PerTurnTyping, BalanceAssumption DEF PerTurn, DearestEntry
  <1>3. /\ first + 1 >= 2 => left <= maximum
        /\ left > 0 => spent + left <= before + MovementLimit
        /\ spent + left <= before + MovementLimit + DearestEntry
        /\ Begun(a) = first + 1
    BY <1>1 DEF Affordable
  <1>4. b.score[2] = spent + cost
    BY DEF Follow
  <1> HIDE DEF before
  <1>5. CASE cost <= left
    <2>1. Begun(b) = first + 1 /\ Begun(b) - 1 = first /\ b.state.remaining = left - cost
      BY <1>1, <1>3, <1>5 DEF Follow
    <2> HIDE DEF spent, left, first
    <2>2. /\ Begun(b) >= 1
          /\ Begun(b) >= 2 => b.state.remaining <= maximum
          /\ b.state.remaining > 0 =>
                b.score[2] + b.state.remaining <= before + MovementLimit
          /\ b.score[2] + b.state.remaining <= before + MovementLimit + DearestEntry
      BY <1>1, <1>2, <1>3, <1>4, <1>5, <2>1
    <2> QED BY <2>1, <2>2 DEF Affordable, before
  <1>6. CASE cost > left /\ left > 0
    <2>1. Begun(b) = first + 1 /\ Begun(b) - 1 = first /\ b.state.remaining = 0
      BY <1>1, <1>3, <1>6 DEF Follow
    <2> HIDE DEF spent, left, first
    <2>2. /\ Begun(b) >= 1
          /\ Begun(b) >= 2 => b.state.remaining <= maximum
          /\ b.state.remaining > 0 =>
                b.score[2] + b.state.remaining <= before + MovementLimit
          /\ b.score[2] + b.state.remaining <= before + MovementLimit + DearestEntry
      BY <1>1, <1>2, <1>3, <1>4, <1>6, <2>1
    <2> QED BY <2>1, <2>2 DEF Affordable, before
  <1>7. CASE cost > left /\ left = 0
    <2>1. /\ Begun(b) = first + 1 + 1 /\ Begun(b) - 1 = first + 1
          /\ b.state.remaining = Remaining(maximum, cost)
      BY <1>1, <1>3, <1>7 DEF Follow
    <2> HIDE DEF spent, left, first
    <2>2. /\ b.state.remaining <= maximum
          /\ b.state.remaining > 0 => b.state.remaining + cost = maximum
      BY <2>1 DEF Remaining
    <2>3. /\ Begun(b) >= 1
          /\ Begun(b) >= 2 => b.state.remaining <= maximum
          /\ b.state.remaining > 0 =>
                b.score[2] + b.state.remaining <= before + PerTurn + MovementLimit
          /\ b.score[2] + b.state.remaining
                <= before + PerTurn + MovementLimit + DearestEntry
      BY <1>1, <1>2, <1>3, <1>4, <1>7, <2>1, <2>2
    <2> QED BY <1>2, <2>1, <2>3 DEF Affordable
  <1> QED BY <1>1, <1>5, <1>6, <1>7

\* As long as there are no more turns than tiles, the counters hold a score.
LEMMA AffordableFits ==
  ASSUME NEW a \in Recorded, NEW maximum, Affordable(a, maximum),
         a.score[1] <= Begun(a), a.score[3] <= a.score[2], Begun(a) <= Cols * Rows
  PROVE  Fits(a.score)
  <1> DEFINE N == Cols * Rows
             first == Begun(a) - 1
  <1>1. /\ a.score[1] \in Nat /\ a.score[2] \in Nat /\ a.score[3] \in Nat
        /\ a.state.remaining \in Nat /\ Begun(a) \in Nat
        /\ first \in Nat /\ N \in Nat
    BY RecordTyping, GridAssumption DEF Affordable
  <1>2. a.score[2] <= first * PerTurn + MovementLimit + DearestEntry
    <2>1. a.score[2] + a.state.remaining <= first * PerTurn + MovementLimit + DearestEntry
      BY DEF Affordable
    <2>2. first * PerTurn \in Nat
      BY <1>1, PerTurnTyping
    <2> HIDE DEF first
    <2> QED BY <1>1, <2>1, <2>2, BalanceAssumption DEF DearestEntry
  <1>3. /\ (first + 1) * PerTurn = first * PerTurn + PerTurn
        /\ (first + 1) * PerTurn <= N * PerTurn
        /\ first * PerTurn \in Nat /\ N * PerTurn \in Nat /\ PerTurn \in Nat
        /\ N <= N * PerTurn
    <2>1. first + 1 \in Nat /\ first + 1 <= N
      BY <1>1
    <2>2. PerTurn >= 1
      BY BalanceAssumption DEF PerTurn, DearestEntry
    <2>3. \A n, k \in Nat : k >= 1 => n <= n * k
      OBVIOUS
    <2> HIDE DEF first, N
    <2> QED BY <1>1, <2>1, <2>2, <2>3, PerTurnTyping
  <1>4. N * PerTurn <= MaxSteps /\ MaxSteps \in Nat /\ MaxSteps <= MaxCost
    BY CounterAssumption DEF PerTurn
  <1>5. first * PerTurn + MovementLimit + DearestEntry <= first * PerTurn + PerTurn
    BY <1>3, BalanceAssumption DEF PerTurn, DearestEntry
  <1>6. Begun(a) <= N
    OBVIOUS
  <1> HIDE DEF N, first
  <1>7. MovementLimit \in Nat /\ DearestEntry \in Nat /\ MaxCost \in Nat
    BY BalanceAssumption DEF DearestEntry
  <1>8. a.score[2] <= MaxSteps /\ a.score[1] <= MaxSteps
    BY <1>1, <1>2, <1>3, <1>4, <1>5, <1>6, <1>7
  <1> QED BY <1>1, <1>4, <1>7, <1>8 DEF Fits

-----------------------------------------------------------------------------
(* Ways that are at least as good whatever comes after.                    *)

Dominates(a, b) ==
    /\ a.score[2] <= b.score[2]
    /\ \/ Begun(a) < Begun(b)
       \/ Begun(a) = Begun(b) /\ b.state.remaining <= a.state.remaining

LEMMA DominatesTransitively ==
  ASSUME NEW a \in Recorded, NEW b \in Recorded, NEW c \in Recorded,
         Dominates(a, b), Dominates(b, c)
  PROVE  Dominates(a, c)
  BY RecordTyping DEF Dominates

LEMMA FollowDominates ==
  ASSUME NEW a \in Recorded, NEW b \in Recorded, NEW cost \in Nat, NEW maximum,
         Follow(a, b, cost, maximum)
  PROVE  Dominates(a, b)
  BY RecordTyping DEF Dominates, Follow

LEMMA StaysAhead ==
  ASSUME NEW a \in Recorded, NEW b \in Recorded, NEW cost \in Nat, NEW maximum \in Nat,
         NEW c \in Recorded, Follow(a, c, cost, maximum),
         NEW d \in Recorded, Follow(b, d, cost, maximum),
         Dominates(a, b), Begun(a) >= 1, Begun(b) >= 2 => b.state.remaining <= maximum
  PROVE  Dominates(c, d)
  <1> DEFINE x == a.state.remaining
             y == b.state.remaining
  <1>1. /\ x \in Nat /\ y \in Nat /\ Begun(a) \in Nat /\ Begun(b) \in Nat
        /\ Begun(c) \in Nat /\ Begun(d) \in Nat
        /\ c.state.remaining \in Nat /\ d.state.remaining \in Nat
        /\ a.score[2] \in Nat /\ b.score[2] \in Nat
    BY RecordTyping
  <1>2. c.score[2] <= d.score[2]
    BY <1>1 DEF Dominates, Follow
  <1>3. /\ cost <= x => Begun(c) = Begun(a) /\ c.state.remaining = x - cost
        /\ cost > x /\ x > 0 => Begun(c) = Begun(a) /\ c.state.remaining = 0
        /\ cost > x /\ x = 0 =>
              /\ Begun(c) = Begun(a) + 1
              /\ c.state.remaining = IF cost <= maximum THEN maximum - cost ELSE 0
    BY DEF Follow, Remaining
  <1>4. /\ cost <= y => Begun(d) = Begun(b) /\ d.state.remaining = y - cost
        /\ cost > y /\ y > 0 => Begun(d) = Begun(b) /\ d.state.remaining = 0
        /\ cost > y /\ y = 0 =>
              /\ Begun(d) = Begun(b) + 1
              /\ d.state.remaining = IF cost <= maximum THEN maximum - cost ELSE 0
    BY DEF Follow, Remaining
  <1>5. \/ Begun(a) < Begun(b)
        \/ Begun(a) = Begun(b) /\ y <= x
    BY DEF Dominates
  <1> HIDE DEF x, y
  <1>6. Begun(b) >= 2 => y <= maximum
    BY DEF y
  <1>7. \/ Begun(c) < Begun(d)
        \/ Begun(c) = Begun(d) /\ d.state.remaining <= c.state.remaining
    BY <1>1, <1>3, <1>4, <1>5, <1>6
  <1> QED BY <1>2, <1>7 DEF Dominates

-----------------------------------------------------------------------------
(* Ways: sequences of records, each entered from the one before.           *)

\* A search for unit u of game g with a maximum movement per turn.
Planning(g, u, maximum) ==
    g \in Game /\ u \in Units /\ maximum \in 0 .. MovementLimit + DearestEntry

Leads(a, b, g, u, maximum) ==
    LET from == a.state.tile
        to == b.state.tile
    IN  /\ CanEnter(g, u, from, to, maximum)
        /\ b = Entered(a, b.parent, to, EnterCost(g, u, from, to), maximum)

LEMMA LeadsFacts ==
  ASSUME NEW g, NEW u, NEW maximum, Planning(g, u, maximum),
         NEW a \in Recorded, NEW b, b.parent \in Nat, Leads(a, b, g, u, maximum),
         NEW cost, cost = EnterCost(g, u, a.state.tile, b.state.tile)
  PROVE  /\ b \in Recorded /\ cost \in 1 .. DearestEntry /\ b.enter = cost
         /\ b.state.tile \in Neighbors(a.state.tile) /\ b.state.tile \in Open(g, u)
         /\ CanPay(g, u, a.state.tile, b.state.tile, maximum)
         /\ Follow(a, b, cost, maximum) /\ Dominates(a, b)
         /\ NoWorse(a.score, b.score) /\ Begun(b) \in {Begun(a), Begun(a) + 1}
         /\ Affordable(a, maximum) => Affordable(b, maximum)
  <1>1. /\ b.state.tile \in Neighbors(a.state.tile) /\ b.state.tile \in Open(g, u)
        /\ CanPay(g, u, a.state.tile, b.state.tile, maximum)
        /\ b = Entered(a, b.parent, b.state.tile, cost, maximum)
    BY DEF Leads, CanEnter
  <1>2. cost \in 0 .. DearestEntry /\ cost # 0
    BY <1>1, DearestEntryBounds DEF CanPay, Blocked
  <1>3. /\ cost \in Nat /\ cost \in 1 .. DearestEntry
        /\ b.state.tile \in Tiles /\ maximum \in 0 .. MovementLimit + DearestEntry
    BY <1>1, <1>2, NeighborsAreTiles DEF Planning, DearestEntry
  <1>4. maximum \in Nat
    BY <1>3
  <1>5. /\ b \in Recorded /\ Follow(a, b, cost, maximum) /\ b.enter = cost
    <2> DEFINE p == b.parent
               tile == b.state.tile
    <2>1. p \in Nat /\ tile \in Tiles /\ b = Entered(a, p, tile, cost, maximum)
      BY <1>1, <1>3
    <2> HIDE DEF p, tile
    <2>2. b \in Recorded
      BY <1>3, <1>4, <2>1, EnteredFacts
    <2>3. Follow(a, b, cost, maximum)
      BY <1>3, <1>4, <2>1, EnteredFacts
    <2>4. b.enter = cost
      BY <2>1 DEF Entered
    <2> QED BY <2>2, <2>3, <2>4
  <1>6. NoWorse(a.score, b.score) /\ Begun(b) \in {Begun(a), Begun(a) + 1}
    BY <1>1, <1>3, <1>4, EnteredScore
  <1>7. Dominates(a, b)
    BY <1>3, <1>5, FollowDominates
  <1>8. Affordable(a, maximum) => Affordable(b, maximum)
    BY <1>2, <1>3, <1>5, StaysAffordable
  <1> QED BY <1>1, <1>3, <1>5, <1>6, <1>7, <1>8

Way(t, g, u, maximum) ==
    /\ t \in Seq(Recorded) /\ Len(t) >= 1
    /\ t[1] = Departure(g, u)
    /\ \A i \in 2 .. Len(t) : Leads(t[i - 1], t[i], g, u, maximum)

LEMMA DepartureFacts ==
  ASSUME NEW g, NEW u, NEW maximum, Planning(g, u, maximum)
  PROVE  /\ Departure(g, u) \in Recorded /\ Affordable(Departure(g, u), maximum)
         /\ Begun(Departure(g, u)) = 1 /\ Departure(g, u).score = <<0, 0, 0>>
         /\ ~Departure(g, u).state.started /\ Departure(g, u).state.tile = Position(g, u)
         /\ Departure(g, u).parent = 0 /\ Departure(g, u).enter = 0
         /\ Departure(g, u).state.remaining = Available(g, u)
  <1>1. /\ Position(g, u) \in Tiles /\ Available(g, u) \in 0 .. MovementLimit
    BY UnitTyping, AvailableTyping DEF Planning
  <1> DEFINE d == Departure(g, u)
             node == [tile |-> Position(g, u), remaining |-> Available(g, u),
                      started |-> FALSE]
             zero == <<0, 0, 0>>
  <1>2. /\ d = [state |-> node, score |-> zero, parent |-> 0, enter |-> 0]
        /\ d.state = node /\ d.score = zero /\ d.parent = 0 /\ d.enter = 0
    BY DEF Departure
  <1>3. d \in Recorded
    <2>1. node \in Node
      BY <1>1, BalanceAssumption DEF Node
    <2>2. zero \in Scores
      BY DEF Scores
    <2> HIDE DEF d, node, zero
    <2> QED BY <1>2, <2>1, <2>2 DEF Recorded
  <1>4. Begun(d) = 1
    BY <1>2 DEF Begun
  <1>5. Affordable(d, maximum)
    <2>1. (1 - 1) * PerTurn = 0
      BY PerTurnTyping
    <2>2. d.score[2] = 0 /\ d.state.remaining = Available(g, u)
      BY <1>2
    <2> HIDE DEF d
    <2> QED BY <1>1, <1>4, <2>1, <2>2, BalanceAssumption DEF Affordable, DearestEntry
  <1> QED BY <1>2, <1>3, <1>4, <1>5

LEMMA WayFacts ==
  ASSUME NEW g, NEW u, NEW maximum, Planning(g, u, maximum),
         NEW t, Way(t, g, u, maximum)
  PROVE  \A k \in 1 .. Len(t) :
            /\ t[k] \in Recorded /\ Affordable(t[k], maximum) /\ Begun(t[k]) <= k
            /\ t[k].score[3] = k - 1 /\ t[k].score[3] <= t[k].score[2]
            /\ (t[k].state.started <=> k # 1)
  <1> DEFINE S == {k \in 1 .. Len(t) :
                     /\ t[k] \in Recorded /\ Affordable(t[k], maximum) /\ Begun(t[k]) <= k
                     /\ t[k].score[3] = k - 1 /\ t[k].score[3] <= t[k].score[2]
                     /\ (t[k].state.started <=> k # 1)}
  <1>1. /\ Len(t) \in Nat /\ Len(t) >= 1 /\ \A k \in 1 .. Len(t) : t[k] \in Recorded
        /\ 1 \in Int /\ Len(t) \in Int /\ 0 <= 1 /\ t[1] = Departure(g, u)
    BY DEF Way
  <1>2. 1 \in S
    BY <1>1, DepartureFacts
  <1>3. ASSUME NEW k \in 1 + 1 .. Len(t), k - 1 \in S
        PROVE  k \in S
    <2> DEFINE a == t[k - 1]
               b == t[k]
               cost == EnterCost(g, u, a.state.tile, b.state.tile)
    <2>1. /\ k \in 2 .. Len(t) /\ k \in 1 .. Len(t) /\ k # 1
          /\ a \in Recorded /\ b \in Recorded /\ b.parent \in Nat
          /\ Affordable(a, maximum) /\ Begun(a) <= k - 1 /\ a.score[3] = (k - 1) - 1
          /\ a.score[3] <= a.score[2]
      BY <1>1, <1>3, RecordTyping
    <2>2. Leads(a, b, g, u, maximum)
      BY <2>1 DEF Way
    <2> HIDE DEF a, b
    <2>3. /\ Affordable(b, maximum) /\ Begun(b) \in {Begun(a), Begun(a) + 1}
          /\ Follow(a, b, cost, maximum) /\ cost \in 1 .. DearestEntry
      BY <2>1, <2>2, LeadsFacts
    <2>4. /\ Begun(b) <= k /\ b.score[3] = k - 1 /\ b.state.started
          /\ b.score[3] <= b.score[2]
      <3> HIDE DEF cost
      <3>1. /\ Begun(a) \in Nat /\ a.score[2] \in Nat /\ a.score[3] \in Nat
            /\ b.score[2] \in Nat /\ k \in Nat /\ cost \in Nat /\ cost >= 1
        BY <2>1, <2>3, RecordTyping DEF DearestEntry
      <3>2. /\ b.state.started /\ b.score[2] = a.score[2] + cost
            /\ b.score[3] = a.score[3] + 1
        BY <2>3 DEF Follow
      <3>3. /\ Begun(a) <= k - 1 /\ a.score[3] = (k - 1) - 1 /\ a.score[3] <= a.score[2]
            /\ Begun(b) = Begun(a) \/ Begun(b) = Begun(a) + 1
        BY <2>1, <2>3
      <3> QED BY <3>1, <3>2, <3>3
    <2> QED BY <2>1, <2>3, <2>4 DEF a, b
  <1>4. \A k \in 1 .. Len(t) : k \in S
    <2> HIDE DEF S
    <2> QED BY <1>1, <1>2, <1>3, Induction
  <1> QED BY <1>4

LEMMA WayStep ==
  ASSUME NEW g, NEW u, NEW maximum, Planning(g, u, maximum),
         NEW t, Way(t, g, u, maximum), NEW k \in 2 .. Len(t)
  PROVE  /\ k - 1 \in 1 .. Len(t) /\ k \in 1 .. Len(t)
         /\ t[k - 1] \in Recorded /\ t[k] \in Recorded /\ t[k].parent \in Nat
         /\ Leads(t[k - 1], t[k], g, u, maximum)
  <1>1. k - 1 \in 1 .. Len(t) /\ k \in 1 .. Len(t) /\ t \in Seq(Recorded)
    BY DEF Way
  <1> QED BY <1>1, RecordTyping DEF Way

LEMMA WayExtends ==
  ASSUME NEW g, NEW u, NEW maximum, Planning(g, u, maximum),
         NEW t, Way(t, g, u, maximum), NEW b \in Recorded,
         Leads(t[Len(t)], b, g, u, maximum)
  PROVE  /\ Way(Append(t, b), g, u, maximum)
         /\ Len(Append(t, b)) = Len(t) + 1 /\ Append(t, b)[Len(t) + 1] = b
         /\ \A i \in 1 .. Len(t) : Append(t, b)[i] = t[i]
  <1> DEFINE w == Append(t, b)
  <1>1. t \in Seq(Recorded) /\ Len(t) \in Nat /\ Len(t) >= 1
    BY DEF Way
  <1>2. /\ w \in Seq(Recorded) /\ Len(w) = Len(t) + 1 /\ w[Len(t) + 1] = b
        /\ \A i \in 1 .. Len(t) : w[i] = t[i]
    BY <1>1
  <1> HIDE DEF w
  <1>3. ASSUME NEW i \in 2 .. Len(w)
        PROVE  Leads(w[i - 1], w[i], g, u, maximum)
    <2>1. CASE i = Len(t) + 1
      <3>1. w[i] = b /\ w[i - 1] = t[Len(t)]
        BY <1>1, <1>2, <2>1
      <3> QED BY <3>1
    <2>2. CASE i # Len(t) + 1
      <3>1. i \in 2 .. Len(t) /\ i \in 1 .. Len(t) /\ i - 1 \in 1 .. Len(t)
        BY <1>1, <1>2, <2>2
      <3> QED BY <1>2, <3>1 DEF Way
    <2> QED BY <2>1, <2>2
  <1>4. w[1] = Departure(g, u) /\ Len(w) >= 1
    BY <1>1, <1>2 DEF Way
  <1> QED BY <1>2, <1>3, <1>4 DEF Way, w

LEMMA WayPrefix ==
  ASSUME NEW g, NEW u, NEW maximum, NEW t, Way(t, g, u, maximum), NEW k \in 1 .. Len(t)
  PROVE  /\ Way(SubSeq(t, 1, k), g, u, maximum) /\ Len(SubSeq(t, 1, k)) = k
         /\ \A i \in 1 .. k : SubSeq(t, 1, k)[i] = t[i]
  <1> DEFINE w == SubSeq(t, 1, k)
  <1>1. t \in Seq(Recorded) /\ Len(t) \in Nat /\ k \in Nat /\ k <= Len(t) /\ k >= 1
    BY DEF Way
  <1>2. /\ w \in Seq(Recorded) /\ Len(w) = k
        /\ \A i \in 1 .. k : w[i] = t[i]
    BY <1>1
  <1> HIDE DEF w
  <1>3. ASSUME NEW i \in 2 .. Len(w)
        PROVE  Leads(w[i - 1], w[i], g, u, maximum)
    <2>1. i \in 2 .. Len(t) /\ i \in 1 .. k /\ i - 1 \in 1 .. k
      BY <1>1, <1>2
    <2> QED BY <1>2, <2>1 DEF Way
  <1>4. w[1] = Departure(g, u) /\ Len(w) >= 1
    BY <1>1, <1>2 DEF Way
  <1> QED BY <1>2, <1>3, <1>4 DEF Way, w

EnteredFrom(b, a, p, to, g, u, maximum) ==
    LET from == a.state.tile
    IN  /\ CanEnter(g, u, from, to, maximum)
        /\ b = Entered(a, p, to, EnterCost(g, u, from, to), maximum)

LEMMA EnterLeads ==
  ASSUME NEW g, NEW u, NEW maximum, Planning(g, u, maximum),
         NEW a \in Recorded, NEW p \in Nat, NEW to, NEW b,
         EnteredFrom(b, a, p, to, g, u, maximum)
  PROVE  /\ b \in Recorded /\ b.state.tile = to /\ b.parent = p
         /\ Leads(a, b, g, u, maximum)
  <1> DEFINE from == a.state.tile
             cost == EnterCost(g, u, from, to)
  <1>1. CanEnter(g, u, from, to, maximum) /\ b = Entered(a, p, to, cost, maximum)
    BY DEF EnteredFrom
  <1>2. cost \in Nat /\ to \in Tiles /\ maximum \in 0 .. MovementLimit + DearestEntry
    BY <1>1, EnterCostTyping, NeighborsAreTiles DEF CanEnter, Planning
  <1>3. maximum \in Nat
    BY <1>2
  <1>4. b.state.tile = to /\ b.parent = p
    BY <1>1 DEF Entered
  <1>5. Leads(a, b, g, u, maximum)
    BY <1>1, <1>4 DEF Leads
  <1> HIDE DEF cost
  <1>6. b \in Recorded
    BY <1>1, <1>2, <1>3, EnteredFacts
  <1> QED BY <1>4, <1>5, <1>6

LEMMA WayOrder ==
  ASSUME NEW g, NEW u, NEW maximum, Planning(g, u, maximum),
         NEW t, Way(t, g, u, maximum), NEW j \in 1 .. Len(t)
  PROVE  \A k \in j .. Len(t) : Dominates(t[j], t[k])
  <1> DEFINE S == {k \in j .. Len(t) : Dominates(t[j], t[k])}
  <1>1. Len(t) \in Nat /\ j \in Int /\ Len(t) \in Int /\ 0 <= j /\ j \in j .. Len(t)
    BY DEF Way
  <1>2. t[j] \in Recorded
    BY WayFacts
  <1>3. j \in S
    BY <1>1, <1>2, RecordTyping DEF Dominates
  <1>4. ASSUME NEW k \in j + 1 .. Len(t), k - 1 \in S
        PROVE  k \in S
    <2>1. k \in 2 .. Len(t) /\ k \in j .. Len(t)
      BY <1>1
    <2>2. /\ t[k - 1] \in Recorded /\ t[k] \in Recorded /\ t[k].parent \in Nat
          /\ Leads(t[k - 1], t[k], g, u, maximum)
      BY <2>1, WayStep
    <2>3. Dominates(t[k - 1], t[k])
      BY <2>2, LeadsFacts
    <2>4. Dominates(t[j], t[k])
      BY <1>2, <1>4, <2>2, <2>3, DominatesTransitively
    <2> QED BY <2>1, <2>4
  <1>5. \A k \in j .. Len(t) : k \in S
    <2> HIDE DEF S
    <2> QED BY <1>1, <1>3, <1>4, Induction
  <1> QED BY <1>5

\* The end of a way, and a way that comes to the same tile at least as well.
Final(t) == t[Len(t)]

Rivals(w, t, g, u, maximum) ==
    /\ Way(w, g, u, maximum)
    /\ Final(w).state.tile = Final(t).state.tile
    /\ Dominates(Final(w), Final(t))

\* A way that comes back to a tile can do without the round.
LEMMA Shortcut ==
  ASSUME NEW g, NEW u, NEW maximum, Planning(g, u, maximum),
         NEW t, Way(t, g, u, maximum), NEW a \in 1 .. Len(t), NEW b \in 1 .. Len(t),
         a < b, t[a].state.tile = t[b].state.tile
  PROVE  \E w : Rivals(w, t, g, u, maximum) /\ Len(w) = Len(t) - (b - a)
  <1> DEFINE Ahead1(w, k) ==
               /\ Way(w, g, u, maximum) /\ Len(w) = k - (b - a)
               /\ w[Len(w)].state.tile = t[k].state.tile
               /\ Dominates(w[Len(w)], t[k])
             S == {k \in b .. Len(t) : \E w : Ahead1(w, k)}
  <1>1. /\ Len(t) \in Nat /\ a \in Nat /\ b \in Int /\ Len(t) \in Int /\ 0 <= b
        /\ b \in b .. Len(t) /\ Len(t) \in b .. Len(t) /\ b \in a .. Len(t)
    BY DEF Way
  <1>2. b \in S
    <2> DEFINE w == SubSeq(t, 1, a)
    <2>1. Way(w, g, u, maximum) /\ Len(w) = a /\ w[a] = t[a]
      BY <1>1, WayPrefix
    <2>2. Dominates(t[a], t[b])
      BY <1>1, WayOrder
    <2>3. b - (b - a) = a
      BY <1>1
    <2> HIDE DEF w
    <2>4. Ahead1(w, b)
      BY <2>1, <2>2, <2>3
    <2> QED BY <1>1, <2>4
  <1>3. ASSUME NEW k \in b + 1 .. Len(t), k - 1 \in S
        PROVE  k \in S
    <2>1. PICK w : Ahead1(w, k - 1)
      BY <1>3
    <2> DEFINE x == w[Len(w)]
               y == t[k - 1]
               z == t[k]
               cost == EnterCost(g, u, y.state.tile, z.state.tile)
               e == Entered(x, 0, z.state.tile, cost, maximum)
    <2>2. k \in 2 .. Len(t) /\ k \in b .. Len(t) /\ k - 1 \in 1 .. Len(t)
      BY <1>1
    <2>3. /\ y \in Recorded /\ z \in Recorded /\ z.parent \in Nat
          /\ Leads(y, z, g, u, maximum)
      BY <2>2, WayStep
    <2>4. Affordable(y, maximum)
      BY <2>2, WayFacts
    <2>5. /\ Way(w, g, u, maximum) /\ Len(w) = (k - 1) - (b - a)
          /\ x.state.tile = y.state.tile /\ Dominates(x, y)
      BY <2>1
    <2>6. x \in Recorded /\ Affordable(x, maximum)
      <3>1. Len(w) \in 1 .. Len(w)
        BY <2>5 DEF Way
      <3> QED BY <2>5, <3>1, WayFacts
    <2> HIDE DEF x, y, z, cost
    <2>7. Follow(y, z, cost, maximum)
      BY <2>3, LeadsFacts DEF cost
    <2>8. /\ e \in Recorded /\ e.state.tile = z.state.tile /\ e.parent = 0
          /\ Leads(x, e, g, u, maximum)
      <3> DEFINE to == z.state.tile
      <3>1. EnteredFrom(e, x, 0, to, g, u, maximum)
        BY <2>3, <2>5 DEF Leads, EnteredFrom, cost
      <3> HIDE DEF e, to
      <3>2. 0 \in Nat /\ x \in Recorded
        BY <2>6
      <3>3. e \in Recorded /\ e.state.tile = to /\ e.parent = 0 /\ Leads(x, e, g, u, maximum)
        BY <3>1, <3>2, EnterLeads
      <3> QED BY <3>3 DEF to
    <2> HIDE DEF e
    <2>9. Follow(x, e, cost, maximum) /\ cost \in Nat
      <3>1. cost = EnterCost(g, u, x.state.tile, e.state.tile)
        BY <2>5, <2>8 DEF cost
      <3>2. e.parent \in Nat
        BY <2>8
      <3> QED BY <2>6, <2>8, <3>1, <3>2, LeadsFacts, EnterCostTyping
    <2>10. Dominates(e, z)
      <3>1. maximum \in Nat
        BY DEF Planning, DearestEntry
      <3>2. Begun(x) >= 1 /\ (Begun(y) >= 2 => y.state.remaining <= maximum)
        BY <2>4, <2>6 DEF Affordable
      <3> QED BY <2>3, <2>5, <2>6, <2>7, <2>8, <2>9, <3>1, <3>2, StaysAhead
    <2>11. Ahead1(Append(w, e), k)
      <3>1. /\ Way(Append(w, e), g, u, maximum) /\ Len(Append(w, e)) = Len(w) + 1
            /\ Append(w, e)[Len(w) + 1] = e
        BY <2>5, <2>8, WayExtends DEF x
      <3>2. Len(w) + 1 = k - (b - a)
        BY <1>1, <2>2, <2>5
      <3> QED BY <2>8, <2>10, <3>1, <3>2 DEF z
    <2> QED BY <2>2, <2>11
  <1>4. Len(t) \in S
    <2> HIDE DEF S
    <2> QED BY <1>1, <1>2, <1>3, Induction
  <1> QED BY <1>4 DEF Rivals, Final

Straight(t) ==
    \A i, j \in 1 .. Len(t) : t[i].state.tile = t[j].state.tile => i = j

\* To every way there is one without rounds that is no longer.
LEMMA StraightRival ==
  ASSUME NEW g, NEW u, NEW maximum, Planning(g, u, maximum),
         NEW t, Way(t, g, u, maximum)
  PROVE  \E w : Rivals(w, t, g, u, maximum) /\ Straight(w) /\ Len(w) <= Len(t)
  <1> DEFINE S == {n \in 0 .. Len(t) : \E w : Rivals(w, t, g, u, maximum) /\ Len(w) = n}
  <1>1. Len(t) \in Nat /\ Len(t) >= 1
    BY DEF Way
  <1>2. Final(t) \in Recorded
    BY <1>1, WayFacts DEF Final
  <1>3. Dominates(Final(t), Final(t))
    BY <1>2, RecordTyping DEF Dominates
  <1>4. Len(t) \in S
    BY <1>1, <1>3 DEF Rivals
  <1>5. PICK m \in S : \A n \in S : m <= n
    <2>1. S \subseteq Nat /\ S # {}
      BY <1>4
    <2> HIDE DEF S
    <2> QED BY <2>1, LeastNatural
  <1>6. PICK w : Rivals(w, t, g, u, maximum) /\ Len(w) = m
    BY <1>5
  <1>7. Way(w, g, u, maximum) /\ m \in Nat /\ m <= Len(t) /\ Final(w) \in Recorded
    <2>1. Way(w, g, u, maximum) /\ m \in Nat /\ m <= Len(t)
      BY <1>5, <1>6 DEF Rivals
    <2>2. Len(w) \in 1 .. Len(w)
      BY <2>1 DEF Way
    <2> QED BY <2>1, <2>2, WayFacts DEF Final
  <1>8. ASSUME NEW a \in 1 .. Len(w), NEW b \in 1 .. Len(w), a < b,
               w[a].state.tile = w[b].state.tile
        PROVE  FALSE
    <2>1. PICK v : Rivals(v, w, g, u, maximum) /\ Len(v) = Len(w) - (b - a)
      BY <1>7, <1>8, Shortcut
    <2>2. Final(v) \in Recorded
      <3>1. Way(v, g, u, maximum)
        BY <2>1 DEF Rivals
      <3>2. Len(v) \in 1 .. Len(v)
        BY <3>1 DEF Way
      <3> QED BY <3>1, <3>2, WayFacts DEF Final
    <2>3. Rivals(v, t, g, u, maximum)
      BY <1>2, <1>6, <1>7, <2>1, <2>2, DominatesTransitively DEF Rivals
    <2>4. Len(v) \in 0 .. Len(t) /\ Len(v) < m
      BY <1>6, <1>7, <1>8, <2>1 DEF Way
    <2>5. Len(v) \in S
      BY <2>3, <2>4
    <2> HIDE DEF S
    <2> QED BY <1>5, <1>7, <2>4, <2>5
  <1>9. Straight(w)
    <2> SUFFICES ASSUME NEW i \in 1 .. Len(w), NEW j \in 1 .. Len(w),
                        w[i].state.tile = w[j].state.tile, i # j
                 PROVE  FALSE
      BY DEF Straight
    <2>1. i < j \/ j < i
      BY <1>6, <1>7
    <2> QED BY <1>8, <2>1
  <1> QED BY <1>6, <1>7, <1>9

LEMMA StraightLength ==
  ASSUME NEW g, NEW u, NEW maximum, Planning(g, u, maximum),
         NEW t, Way(t, g, u, maximum), Straight(t)
  PROVE  Len(t) <= Cols * Rows
  <1> DEFINE f == [i \in 1 .. Len(t) |-> t[i].state.tile]
             C == 0 .. Cols - 1
             R == 0 .. Rows - 1
  <1>1. Len(t) \in Nat
    BY DEF Way
  <1>2. \A i \in 1 .. Len(t) : t[i].state.tile \in Tiles
    BY WayFacts, RecordTyping
  <1>3. f \in Injection(1 .. Len(t), Tiles)
    BY <1>2, Zenon DEF Injection, IsInjective, Straight
  <1>4. Tiles = C \X R
    BY DEF Tiles
  <1>5. /\ IsFiniteSet(C) /\ Cardinality(C) = Cols
        /\ IsFiniteSet(R) /\ Cardinality(R) = Rows
    <2>1. \A n \in Nat \ {0} : /\ IsFiniteSet(0 .. n - 1)
                              /\ Cardinality(0 .. n - 1) = n
      <3> SUFFICES ASSUME NEW n \in Nat \ {0}
                   PROVE  IsFiniteSet(0 .. n - 1) /\ Cardinality(0 .. n - 1) = n
        OBVIOUS
      <3>1. 0 \in Int /\ n - 1 \in Int /\ ~(0 > n - 1) /\ (n - 1) - 0 + 1 = n
        OBVIOUS
      <3> QED BY <3>1, FS_Interval
    <2> QED BY <2>1, GridAssumption
  <1>6. IsFiniteSet(Tiles) /\ Cardinality(Tiles) = Cols * Rows
    <2> HIDE DEF C, R
    <2> QED BY <1>4, <1>5, FS_Product
  <1>7. Cardinality(1 .. Len(t)) = Len(t)
    <2>1. 1 \in Int /\ Len(t) \in Int /\ Len(t) >= 0
      BY <1>1
    <2> QED BY SMTT(30), <2>1, FS_Interval
  <1>8. Cardinality(1 .. Len(t)) <= Cardinality(Tiles)
    <2> HIDE DEF f
    <2> QED BY <1>3, <1>6, FS_Injection
  <1> QED BY <1>6, <1>7, <1>8

-----------------------------------------------------------------------------
(* The heap.  Everything is stated of the five parts of a heap, r being    *)
(* its records, b the best ones, f the frontier, c the current record and  *)
(* d the direction.                                                        *)

\* Every record but the first comes from an earlier one.
Chained(r, g, u, maximum) ==
    /\ r \in Seq(Recorded) /\ Len(r) >= 1 /\ r[1] = Departure(g, u)
    /\ \A i \in 2 .. Len(r) :
          /\ r[i].parent \in 1 .. i - 1 /\ Fits(r[i].score)
          /\ Leads(r[r[i].parent], r[i], g, u, maximum)

\* A record as good as a score is on hold for the node.
Matched(r, b, state, score) == \E k \in b : r[k].state = state /\ NoWorse(r[k].score, score)

\* The edge of a record in a direction has been looked at, if there is one.
Explored(r, b, j, direction1, g, u, maximum) ==
    LET from == r[j].state.tile
        to == Toward(from, direction1)
        entered == Entered(r[j], j, to, EnterCost(g, u, from, to), maximum)
    IN  CanEnter(g, u, from, to, maximum) /\ Fits(entered.score)
            => Matched(r, b, entered.state, entered.score)

HeapSound(r, b, f, c, d, g, u, maximum, targets) ==
    /\ Chained(r, g, u, maximum)
    /\ b \subseteq 1 .. Len(r) /\ f \subseteq 1 .. Len(r)
    /\ c \in 0 .. Len(r) /\ d \in Directions
    /\ \A i \in 1 .. Len(r) : Matched(r, b, r[i].state, r[i].score)
    /\ \A j \in b \ f :
          /\ r[j].state.tile \notin targets
          /\ \A e \in Directions : (j = c => e < d) => Explored(r, b, j, e, g, u, maximum)

\* What has left the heap is no worse than what is on it, and than the record
\* whose neighbours are looked at.
HeapOrdered(r, b, f, c) ==
    /\ \A i \in b \ f, j \in f : NoWorse(r[i].score, r[j].score)
    /\ c # 0 => /\ \A i \in b \ f : NoWorse(r[i].score, r[c].score)
                /\ \A j \in f : NoWorse(r[c].score, r[j].score)

\* The records that led to record i, from the first on.
Chain(s, r, i) ==
    /\ s \in Seq(1 .. Len(r)) /\ Len(s) >= 1 /\ s[1] = 1 /\ s[Len(s)] = i
    /\ \A k \in 2 .. Len(s) : s[k] > 1 /\ s[k - 1] = r[s[k]].parent

LEMMA ChainExists ==
  ASSUME NEW g, NEW u, NEW maximum, NEW r, Chained(r, g, u, maximum), NEW i \in 1 .. Len(r)
  PROVE  \E s : Chain(s, r, i)
  <1> DEFINE S == {n \in 1 .. Len(r) : \A m \in 1 .. n : \E s : Chain(s, r, m)}
  <1>1. Len(r) \in Nat /\ Len(r) >= 1 /\ 1 \in Int /\ Len(r) \in Int /\ 0 <= 1
    BY DEF Chained
  <1>2. 1 \in S
    <2>1. Chain(<<1>>, r, 1)
      BY <1>1 DEF Chain
    <2> QED BY <1>1, <2>1
  <1>3. ASSUME NEW n \in 1 + 1 .. Len(r), n - 1 \in S
        PROVE  n \in S
    <2> DEFINE p == r[n].parent
    <2>1. n \in 2 .. Len(r) /\ n \in 1 .. Len(r) /\ p \in 1 .. n - 1 /\ p \in 1 .. Len(r)
      BY <1>1 DEF Chained
    <2>2. PICK s : Chain(s, r, p)
      BY <1>3, <2>1
    <2> DEFINE t == Append(s, n)
    <2>3. s \in Seq(1 .. Len(r)) /\ Len(s) \in Nat /\ Len(s) >= 1 /\ s[Len(s)] = p
      BY <2>2 DEF Chain
    <2>4. /\ t \in Seq(1 .. Len(r)) /\ Len(t) = Len(s) + 1 /\ t[Len(s) + 1] = n
          /\ \A k \in 1 .. Len(s) : t[k] = s[k]
      BY <2>1, <2>3
    <2> HIDE DEF t
    <2>5. ASSUME NEW k \in 2 .. Len(t)
          PROVE  t[k] > 1 /\ t[k - 1] = r[t[k]].parent
      <3>1. CASE k = Len(s) + 1
        <4>1. t[k] = n /\ t[k - 1] = p /\ n > 1
          BY <2>1, <2>3, <2>4, <3>1
        <4> QED BY <4>1
      <3>2. CASE k # Len(s) + 1
        <4>1. k \in 2 .. Len(s) /\ k \in 1 .. Len(s) /\ k - 1 \in 1 .. Len(s)
          BY <2>3, <2>4, <3>2
        <4> QED BY <2>2, <2>4, <4>1 DEF Chain
      <3> QED BY <3>1, <3>2
    <2>6. t[1] = 1 /\ t[Len(t)] = n /\ Len(t) >= 1
      BY <2>2, <2>3, <2>4 DEF Chain
    <2>7. Chain(t, r, n)
      BY <2>4, <2>5, <2>6 DEF Chain
    <2>8. ASSUME NEW m \in 1 .. n
          PROVE  \E x : Chain(x, r, m)
      <3>1. CASE m = n
        BY <2>7, <3>1
      <3>2. CASE m # n
        <4>1. m \in 1 .. n - 1
          BY <2>1, <3>2
        <4> QED BY <1>3, <4>1
      <3> QED BY <3>1, <3>2
    <2> QED BY <2>1, <2>8
  <1>4. i \in S
    <2> HIDE DEF S
    <2> QED BY <1>1, <1>2, <1>3, Induction
  <1>5. i \in 1 .. i
    BY <1>1
  <1> QED BY <1>4, <1>5

\* A chain is a way, and has no more links than there are records.
LEMMA ChainFacts ==
  ASSUME NEW g, NEW u, NEW maximum, Planning(g, u, maximum),
         NEW r, Chained(r, g, u, maximum), NEW i, NEW s, Chain(s, r, i),
         NEW t, t = [k \in 1 .. Len(s) |-> r[s[k]]]
  PROVE  /\ Way(t, g, u, maximum) /\ Len(t) = Len(s) /\ Final(t) = r[i]
         /\ Len(s) <= Len(r)
         /\ \A k \in 1 .. Len(s) : s[k] \in 1 .. Len(r) /\ s[k] >= k
         /\ \A k \in 2 .. Len(s) : Fits(t[k].score)
  <1>1. /\ s \in Seq(1 .. Len(r)) /\ Len(s) \in Nat /\ Len(s) >= 1
        /\ s[1] = 1 /\ s[Len(s)] = i /\ \A k \in 1 .. Len(s) : s[k] \in 1 .. Len(r)
        /\ r \in Seq(Recorded) /\ Len(r) \in Nat
        /\ 1 \in Int /\ Len(s) \in Int /\ 0 <= 1 /\ 1 \in 1 .. Len(s)
        /\ Len(s) \in 1 .. Len(s)
    BY DEF Chain, Chained
  <1>2. /\ t \in Seq(Recorded) /\ Len(t) = Len(s)
        /\ \A k \in 1 .. Len(s) : t[k] = r[s[k]]
    <2>1. \A k \in 1 .. Len(s) : r[s[k]] \in Recorded
      BY <1>1
    <2>2. t \in [1 .. Len(s) -> Recorded]
      BY <2>1
    <2>3. t \in Seq(Recorded) /\ Len(t) = Len(s)
      BY <1>1, <2>2
    <2>4. \A k \in 1 .. Len(s) : t[k] = r[s[k]]
      OBVIOUS
    <2> QED BY <2>3, <2>4
  <1>3. ASSUME NEW k \in 2 .. Len(s)
        PROVE  /\ Leads(t[k - 1], t[k], g, u, maximum) /\ s[k - 1] <= s[k] - 1
               /\ Fits(t[k].score)
    <2>1. /\ k \in 1 .. Len(s) /\ k - 1 \in 1 .. Len(s)
          /\ s[k] \in 2 .. Len(r) /\ s[k - 1] = r[s[k]].parent
      BY SMTT(30), <1>1 DEF Chain
    <2>2. /\ s[k - 1] \in 1 .. s[k] - 1
          /\ Leads(r[s[k - 1]], r[s[k]], g, u, maximum) /\ Fits(r[s[k]].score)
      BY <2>1 DEF Chained
    <2> QED BY SMTT(30), <1>1, <1>2, <2>1, <2>2
  <1>4. t[1] = Departure(g, u) /\ Final(t) = r[i]
    BY <1>1, <1>2 DEF Final, Chained
  <1>5. Way(t, g, u, maximum)
    BY <1>1, <1>2, <1>3, <1>4 DEF Way
  <1> DEFINE S == {k \in 1 .. Len(s) : s[k] >= k}
  <1>6. 1 \in S
    BY <1>1
  <1>7. ASSUME NEW k \in 1 + 1 .. Len(s), k - 1 \in S
        PROVE  k \in S
    <2>1. k \in 2 .. Len(s) /\ k \in 1 .. Len(s) /\ k - 1 \in 1 .. Len(s)
      BY <1>1
    <2>2. s[k] \in Nat /\ s[k - 1] \in Nat
      BY <1>1, <2>1
    <2>3. s[k - 1] <= s[k] - 1
      BY <1>3, <2>1
    <2>4. s[k - 1] >= k - 1
      BY <1>7
    <2> QED BY <2>1, <2>2, <2>3, <2>4
  <1>8. \A k \in 1 .. Len(s) : k \in S
    <2> HIDE DEF S
    <2> QED BY <1>1, <1>6, <1>7, Induction
  <1>9. Len(s) <= Len(r)
    BY <1>1, <1>8
  <1> QED BY <1>1, <1>2, <1>3, <1>4, <1>5, <1>8, <1>9

LEMMA ChainedFacts ==
  ASSUME NEW g, NEW u, NEW maximum, Planning(g, u, maximum),
         NEW r, Chained(r, g, u, maximum), NEW i \in 1 .. Len(r)
  PROVE  /\ r[i] \in Recorded /\ Affordable(r[i], maximum)
         /\ r[i].score[3] <= r[i].score[2]
         /\ \E t : Way(t, g, u, maximum) /\ Final(t) = r[i]
  <1>1. PICK s : Chain(s, r, i)
    BY ChainExists
  <1> DEFINE t == [k \in 1 .. Len(s) |-> r[s[k]]]
  <1>2. Way(t, g, u, maximum) /\ Final(t) = r[i]
    <2>1. \A x : x = t => Way(x, g, u, maximum) /\ Final(x) = r[i]
      <3> HIDE DEF t
      <3> SUFFICES ASSUME NEW x, x = t PROVE Way(x, g, u, maximum) /\ Final(x) = r[i]
        OBVIOUS
      <3>1. x = [k \in 1 .. Len(s) |-> r[s[k]]]
        BY DEF t
      <3> QED BY <1>1, <3>1, ChainFacts
    <2> QED BY <2>1
  <1> HIDE DEF t
  <1>3. Len(t) \in 1 .. Len(t)
    BY <1>2 DEF Way
  <1>4. /\ Final(t) \in Recorded /\ Affordable(Final(t), maximum)
        /\ Final(t).score[3] <= Final(t).score[2]
    BY <1>2, <1>3, WayFacts DEF Final
  <1> QED BY <1>2, <1>4

\* A record that is no worse than another of its node can follow it.
LEMMA Onwards ==
  ASSUME NEW g, NEW u, NEW maximum, Planning(g, u, maximum),
         NEW a \in Recorded, NEW b \in Recorded, b.parent \in Nat,
         Leads(a, b, g, u, maximum), Begun(b) <= Cols * Rows,
         NEW c \in Recorded, Affordable(c, maximum), c.score[3] <= c.score[2],
         c.state = a.state, NoWorse(c.score, a.score),
         NEW e, e.parent \in Nat, Leads(c, e, g, u, maximum), e.state.tile = b.state.tile
  PROVE  /\ e \in Recorded /\ Fits(e.score)
         /\ e.state = b.state /\ NoWorse(e.score, b.score)
  <1> DEFINE cost == EnterCost(g, u, a.state.tile, b.state.tile)
  <1>1. maximum \in Nat /\ cost \in Nat /\ cost = EnterCost(g, u, c.state.tile, e.state.tile)
    BY EnterCostTyping DEF Planning, DearestEntry
  <1> HIDE DEF cost
  <1>2. Follow(a, b, cost, maximum)
    BY LeadsFacts DEF cost
  <1>3. e \in Recorded /\ Follow(c, e, cost, maximum)
    BY <1>1, LeadsFacts
  <1>4. Affordable(e, maximum) /\ cost \in 1 .. DearestEntry
    BY <1>1, LeadsFacts
  <1>5. e.score[1] = Begun(e) /\ e.score[3] <= e.score[2]
    BY <1>3, <1>4, RecordTyping DEF Follow, DearestEntry
  <1>6. e.state = b.state /\ NoWorse(e.score, b.score)
    BY <1>1, <1>2, <1>3, FollowAlike
  <1>7. Begun(e) <= Cols * Rows
    <2>1. b.score[1] = Begun(b)
      BY <1>2 DEF Follow
    <2>2. e.score[1] <= b.score[1]
      BY <1>3, <1>6, RecordTyping DEF NoWorse
    <2>3. Begun(b) \in Nat /\ Begun(e) \in Nat /\ Cols * Rows \in Nat
      BY <1>3, RecordTyping, GridAssumption
    <2> QED BY <1>5, <2>1, <2>2, <2>3
  <1>8. Fits(e.score)
    <2>1. e.score[1] <= Begun(e)
      BY <1>3, <1>5, RecordTyping
    <2> QED BY <1>3, <1>4, <1>5, <1>7, <2>1, AffordableFits
  <1> QED BY <1>3, <1>6, <1>8

\* Between two records, the search has settled the nodes of a way or has
\* something on the heap that is no worse.
LEMMA SettledOrAhead ==
  ASSUME NEW g, NEW u, NEW maximum, Planning(g, u, maximum),
         NEW r, NEW b, NEW f, NEW d, NEW targets,
         HeapSound(r, b, f, 0, d, g, u, maximum, targets),
         NEW t, Way(t, g, u, maximum), Len(t) <= Cols * Rows, NEW n \in 1 .. Len(t)
  PROVE  \/ \E j \in f : NoWorse(r[j].score, t[n].score)
         \/ \E j \in b \ f : r[j].state = t[n].state /\ NoWorse(r[j].score, t[n].score)
  <1> DEFINE OnHeap(k) == \E j \in f : NoWorse(r[j].score, t[k].score)
             Settled(k) == \E j \in b \ f :
                              r[j].state = t[k].state /\ NoWorse(r[j].score, t[k].score)
             S == {k \in 1 .. Len(t) : OnHeap(k) \/ Settled(k)}
  <1>1. /\ Len(t) \in Nat /\ Len(t) >= 1 /\ 1 \in Int /\ Len(t) \in Int /\ 0 <= 1
        /\ t[1] = Departure(g, u) /\ 1 \in 1 .. Len(t)
    BY DEF Way
  <1>2. /\ Chained(r, g, u, maximum) /\ b \subseteq 1 .. Len(r) /\ f \subseteq 1 .. Len(r)
        /\ \A i \in 1 .. Len(r) : Matched(r, b, r[i].state, r[i].score)
        /\ 1 \in 1 .. Len(r) /\ r[1] = Departure(g, u) /\ \A i \in 1 .. Len(r) : i # 0
        /\ \A j \in b \ f : /\ r[j].state.tile \notin targets
                            /\ \A e \in Directions : Explored(r, b, j, e, g, u, maximum)
    BY DEF HeapSound, Chained
  <1>3. \A k \in b : (k \in f \/ k \in b \ f) /\ k \in 1 .. Len(r)
    BY <1>2
  <1>4. 1 \in S
    <2>1. Matched(r, b, t[1].state, t[1].score)
      BY <1>1, <1>2
    <2>2. PICK k \in b : r[k].state = t[1].state /\ NoWorse(r[k].score, t[1].score)
      BY <2>1 DEF Matched
    <2>3. OnHeap(1) \/ Settled(1)
      BY <1>3, <2>2
    <2> QED BY <1>1, <2>3
  <1>5. ASSUME NEW k \in 1 + 1 .. Len(t), k - 1 \in S
        PROVE  k \in S
    <2>1. k \in 2 .. Len(t) /\ k \in 1 .. Len(t) /\ k <= Cols * Rows
      BY <1>1, GridAssumption
    <2>2. /\ t[k - 1] \in Recorded /\ t[k] \in Recorded /\ t[k].parent \in Nat
          /\ Leads(t[k - 1], t[k], g, u, maximum)
      BY <2>1, WayStep
    <2>3. CASE OnHeap(k - 1)
      <3>1. PICK j \in f : NoWorse(r[j].score, t[k - 1].score)
        BY <2>3
      <3>2. NoWorse(t[k - 1].score, t[k].score)
        BY <2>2, LeadsFacts
      <3>3. r[j].score \in Scores /\ t[k - 1].score \in Scores /\ t[k].score \in Scores
        BY <1>2, <2>2, ChainedFacts, RecordTyping
      <3>4. NoWorse(r[j].score, t[k].score)
        BY <3>1, <3>2, <3>3, NoWorseFacts
      <3> QED BY <2>1, <3>4
    <2>4. CASE Settled(k - 1)
      <3>1. PICK j \in b \ f :
               r[j].state = t[k - 1].state /\ NoWorse(r[j].score, t[k - 1].score)
        BY <2>4
      <3> DEFINE from == r[j].state.tile
                 to == t[k].state.tile
                 e == Entered(r[j], j, to, EnterCost(g, u, from, to), maximum)
      <3>2. j \in 1 .. Len(r)
        BY <1>2
      <3>3. /\ CanEnter(g, u, from, to, maximum) /\ e \in Recorded /\ Fits(e.score)
            /\ e.state = t[k].state /\ NoWorse(e.score, t[k].score)
        <4>1. r[j] \in Recorded /\ Affordable(r[j], maximum) /\ r[j].score[3] <= r[j].score[2]
          BY <1>2, <3>2, ChainedFacts
        <4>2. Begun(t[k]) <= Cols * Rows /\ j \in Nat
          <5>1. Begun(t[k]) <= k /\ Begun(t[k]) \in Nat
            BY <2>1, <2>2, WayFacts, RecordTyping
          <5>2. k \in Nat /\ Cols * Rows \in Nat /\ j \in Nat
            BY <1>2, <3>2, GridAssumption
          <5> QED BY <2>1, <5>1, <5>2
        <4>3. CanEnter(g, u, from, to, maximum)
          BY <2>2, <3>1 DEF Leads
        <4>4. /\ e \in Recorded /\ e.state.tile = to /\ e.parent = j
              /\ Leads(r[j], e, g, u, maximum)
          <5>1. EnteredFrom(e, r[j], j, to, g, u, maximum)
            BY <4>3 DEF EnteredFrom
          <5> HIDE DEF e, to
          <5> QED BY <4>1, <4>2, <5>1, EnterLeads
        <4> HIDE DEF e
        <4> QED BY SMTT(30), <2>2, <3>1, <4>1, <4>2, <4>3, <4>4, Onwards
      <3>4. PICK dir \in Directions : to = Toward(from, dir)
        <4>1. to \in Neighbors(from)
          BY <3>3 DEF CanEnter
        <4> QED BY <4>1 DEF Neighbors, Around
      <3>5. Explored(r, b, j, dir, g, u, maximum)
        BY <1>2
      <3>6. Matched(r, b, e.state, e.score)
        BY <3>3, <3>4, <3>5 DEF Explored
      <3> HIDE DEF e, from, to
      <3>7. e.score \in Scores
        BY <3>3, RecordTyping
      <3>8. PICK i \in b : r[i].state = e.state /\ NoWorse(r[i].score, e.score)
        BY <3>6 DEF Matched
      <3>9. r[i].score \in Scores /\ t[k].score \in Scores
        BY <1>3, <1>2, <2>2, ChainedFacts, RecordTyping
      <3>10. r[i].state = t[k].state /\ NoWorse(r[i].score, t[k].score)
        BY <3>3, <3>7, <3>8, <3>9, NoWorseFacts
      <3>11. OnHeap(k) \/ Settled(k)
        BY <1>3, <3>10
      <3> QED BY <2>1, <3>11
    <2> QED BY <1>5, <2>3, <2>4
  <1>6. n \in S
    <2> HIDE DEF S
    <2> QED BY <1>1, <1>4, <1>5, Induction
  <1> QED BY <1>6

-----------------------------------------------------------------------------
(* What each step of a search does to its heap.                            *)

LEMMA BeginHeap ==
  ASSUME NEW g, NEW u, NEW maximum, Planning(g, u, maximum), NEW targets,
         NEW r, r = <<Departure(g, u)>>
  PROVE  /\ HeapSound(r, {1}, {1}, 0, 1, g, u, maximum, targets)
         /\ HeapOrdered(r, {1}, {1}, 0)
  <1> DEFINE d == Departure(g, u)
  <1>1. d \in Recorded /\ d.score \in Scores
    BY DepartureFacts, RecordTyping
  <1>2. r = <<d>>
    OBVIOUS
  <1> HIDE DEF d
  <1>3. r \in Seq(Recorded) /\ Len(r) = 1 /\ r[1] = d
    BY <1>1, <1>2
  <1>4. Chained(r, g, u, maximum)
    BY <1>3 DEF Chained, d
  <1>5. Matched(r, {1}, r[1].state, r[1].score)
    BY <1>1, <1>3, NoWorseFacts DEF Matched
  <1> QED BY <1>3, <1>4, <1>5 DEF HeapSound, HeapOrdered, Directions

LEMMA DropKeeps ==
  ASSUME NEW g, NEW u, NEW maximum, NEW targets, NEW r, NEW b, NEW f, NEW d,
         HeapSound(r, b, f, 0, d, g, u, maximum, targets), HeapOrdered(r, b, f, 0),
         NEW i, i \notin b
  PROVE  /\ HeapSound(r, b, f \ {i}, 0, d, g, u, maximum, targets)
         /\ HeapOrdered(r, b, f \ {i}, 0)
  <1>1. b \ (f \ {i}) = b \ f /\ f \ {i} \subseteq f
    OBVIOUS
  <1> QED BY <1>1 DEF HeapSound, HeapOrdered

LEMMA ExpandKeeps ==
  ASSUME NEW g, NEW u, NEW maximum, NEW targets, NEW r, NEW b, NEW f, NEW d,
         HeapSound(r, b, f, 0, d, g, u, maximum, targets), HeapOrdered(r, b, f, 0),
         NEW i \in b \cap f, r[i].state.tile \notin targets,
         \A j \in f : NoWorse(r[i].score, r[j].score)
  PROVE  /\ HeapSound(r, b, f \ {i}, i, 1, g, u, maximum, targets)
         /\ HeapOrdered(r, b, f \ {i}, i)
  <1>1. \A j \in b \ (f \ {i}) : j = i \/ j \in b \ f
    OBVIOUS
  <1>2. \A j \in f \ {i} : j \in f
    OBVIOUS
  <1>3. /\ b \subseteq 1 .. Len(r) /\ f \subseteq 1 .. Len(r)
        /\ i \in 1 .. Len(r) /\ i # 0 /\ i \in 0 .. Len(r) /\ 1 \in Directions
        /\ Chained(r, g, u, maximum) /\ \A j \in b \ f : j # 0
        /\ \A k \in 1 .. Len(r) : Matched(r, b, r[k].state, r[k].score)
    BY DEF HeapSound, Directions, Chained
  <1>4. ASSUME NEW j \in b \ (f \ {i})
        PROVE  /\ r[j].state.tile \notin targets
               /\ \A e \in Directions : (j = i => e < 1) => Explored(r, b, j, e, g, u, maximum)
    <2>1. CASE j = i
      BY <2>1 DEF Directions
    <2>2. CASE j # i
      <3>1. j \in b \ f /\ j # 0
        BY <1>1, <1>3, <2>2
      <3> QED BY <2>2, <3>1 DEF HeapSound
    <2> QED BY <2>1, <2>2
  <1>5. NoWorse(r[i].score, r[i].score)
    OBVIOUS
  <1>6. HeapOrdered(r, b, f \ {i}, i)
    BY <1>1, <1>2, <1>3, <1>5 DEF HeapOrdered
  <1> QED BY <1>3, <1>4, <1>6 DEF HeapSound

LEMMA AdvanceKeeps ==
  ASSUME NEW g, NEW u, NEW maximum, NEW targets, NEW r, NEW b, NEW f, NEW c, NEW d,
         HeapSound(r, b, f, c, d, g, u, maximum, targets), HeapOrdered(r, b, f, c),
         c # 0, Explored(r, b, c, d, g, u, maximum)
  PROVE  /\ d = 6 => /\ HeapSound(r, b, f, 0, 1, g, u, maximum, targets)
                     /\ HeapOrdered(r, b, f, 0)
         /\ d # 6 => HeapSound(r, b, f, c, d + 1, g, u, maximum, targets)
  <1>1. d \in Directions /\ 1 \in Directions /\ (d # 6 => d + 1 \in Directions)
    BY DEF HeapSound, Directions
  <1>2. b \subseteq 1 .. Len(r) /\ \A j \in b : j # 0
    BY DEF HeapSound, Chained
  <1>3. ASSUME NEW j \in b \ f, NEW e \in Directions, j = c => e <= d
        PROVE  Explored(r, b, j, e, g, u, maximum)
    <2>1. CASE j = c /\ e = d
      BY <2>1
    <2>2. CASE ~(j = c /\ e = d)
      <3>1. j = c => e < d
        BY <1>1, <1>3, <2>2 DEF Directions
      <3> QED BY <3>1 DEF HeapSound
    <2> QED BY <2>1, <2>2
  <1>4. CASE d = 6
    <2>1. \A e \in Directions : e <= d
      BY <1>4 DEF Directions
    <2>2. 0 \in 0 .. Len(r)
      BY DEF HeapSound, Chained
    <2>3. HeapSound(r, b, f, 0, 1, g, u, maximum, targets)
      BY <1>1, <1>3, <2>1, <2>2 DEF HeapSound
    <2> QED BY <1>4, <2>3 DEF HeapOrdered
  <1>5. CASE d # 6
    <2>1. \A e \in Directions : e < d + 1 => e <= d
      BY <1>1 DEF Directions
    <2> QED BY <1>1, <1>3, <1>5, <2>1 DEF HeapSound
  <1> QED BY <1>4, <1>5

\* No record on hold is as good as a new one: the new one takes their place.
Takes(x, r, b) == \A k \in b : r[k].state = x.state => ~NoWorse(r[k].score, x.score)

LEMMA MatchedStays ==
  ASSUME NEW r \in Seq(Recorded), NEW b, b \subseteq 1 .. Len(r), NEW x \in Recorded,
         Takes(x, r, b), NEW h, h = {k \in b : r[k].state = x.state},
         NEW state, NEW score \in Scores, Matched(r, b, state, score)
  PROVE  Matched(Append(r, x), (b \ h) \cup {Len(r) + 1}, state, score)
  <1> DEFINE w == Append(r, x)
             n == Len(r)
  <1>1. n \in Nat /\ w[n + 1] = x /\ \A k \in 1 .. n : w[k] = r[k]
    OBVIOUS
  <1>2. PICK k \in b : r[k].state = state /\ NoWorse(r[k].score, score)
    BY DEF Matched
  <1> HIDE DEF w, n
  <1>3. CASE k \in h
    <2>1. r[k].state = x.state /\ ~NoWorse(r[k].score, x.score)
      BY <1>3 DEF Takes
    <2>2. r[k] \in Recorded
      BY DEF n
    <2>3. r[k].score \in Scores /\ x.score \in Scores
      BY <2>2, RecordTyping
    <2>4. NoWorse(x.score, r[k].score)
      BY <2>1, <2>3, NoWorseFacts
    <2>5. NoWorse(x.score, score)
      BY <1>2, <2>3, <2>4, NoWorseFacts
    <2> QED BY <1>1, <1>2, <2>1, <2>5 DEF Matched, w, n
  <1>4. CASE k \notin h
    <2>1. w[k] = r[k] /\ k \in (b \ h) \cup {n + 1}
      BY <1>1, <1>4 DEF n
    <2> QED BY <1>2, <2>1 DEF Matched, w, n
  <1> QED BY <1>3, <1>4

\* What Retain leaves of records, best and frontier.
RetainedIn(x, r, b, f, r2, b2, f2) ==
    /\ r2 = Append(r, x)
    /\ b2 = (b \ {k \in b : r[k].state = x.state}) \cup {Len(r) + 1}
    /\ f2 = f \cup {Len(r) + 1}

LEMMA RetainKeeps ==
  ASSUME NEW g, NEW u, NEW maximum, Planning(g, u, maximum), NEW targets,
         NEW r, NEW b, NEW f, NEW c, NEW d,
         HeapSound(r, b, f, c, d, g, u, maximum, targets), HeapOrdered(r, b, f, c), c # 0,
         NEW x, EnteredFrom(x, r[c], c, Toward(r[c].state.tile, d), g, u, maximum),
         Fits(x.score), Takes(x, r, b),
         NEW r2, NEW b2, NEW f2, RetainedIn(x, r, b, f, r2, b2, f2)
  PROVE  /\ HeapSound(r2, b2, f2, c, d, g, u, maximum, targets)
         /\ HeapOrdered(r2, b2, f2, c)
         /\ Explored(r2, b2, c, d, g, u, maximum)
         /\ b \ f \subseteq b2
  <1> DEFINE h == {k \in b : r[k].state = x.state}
  <1>h. /\ r2 = Append(r, x) /\ b2 = (b \ h) \cup {Len(r) + 1}
        /\ f2 = f \cup {Len(r) + 1} /\ h = {k \in b : r[k].state = x.state}
    BY DEF RetainedIn
  <1> HIDE DEF h
  <1> USE <1>h
  <1> DEFINE n == Len(r)
             m == Len(r) + 1
             to == Toward(r[c].state.tile, d)
  <1>1. /\ Chained(r, g, u, maximum) /\ r \in Seq(Recorded) /\ n \in Nat /\ n >= 1
        /\ b \subseteq 1 .. n /\ f \subseteq 1 .. n /\ c \in 1 .. n /\ d \in Directions
        /\ \A i \in 1 .. n : Matched(r, b, r[i].state, r[i].score)
        /\ \A i \in 1 .. n : r[i] \in Recorded
    BY DEF HeapSound, Chained
  <1>2. /\ x \in Recorded /\ x.state.tile = to /\ x.parent = c
        /\ Leads(r[c], x, g, u, maximum)
    <2>1. c \in Nat /\ r[c] \in Recorded
      BY <1>1
    <2> QED BY <2>1, EnterLeads
  <1>3. /\ NoWorse(r[c].score, x.score) /\ x.score \in Scores
        /\ \A i \in 1 .. n : r[i].score \in Scores
    BY <1>1, <1>2, LeadsFacts, RecordTyping
  <1>4. /\ r2 \in Seq(Recorded) /\ Len(r2) = n + 1 /\ r2[m] = x
        /\ \A i \in 1 .. n : r2[i] = r[i]
    BY <1>1, <1>2
  <1>5. \A i \in 1 .. n : i \in 1 .. Len(r2) /\ i # m /\ i \in Nat
    BY <1>1, <1>4
  <1>6. m \in 1 .. Len(r2) /\ m \in b2 /\ m \in f2 /\ b2 \subseteq 1 .. Len(r2)
        /\ f2 \subseteq 1 .. Len(r2) /\ c \in 0 .. Len(r2)
    <2>1. m \in 1 .. Len(r2) /\ c \in 0 .. Len(r2)
      BY <1>1, <1>4
    <2>2. m \in b2 /\ m \in f2 /\ b2 \subseteq b \cup {m} /\ f2 \subseteq f \cup {m}
      OBVIOUS
    <2> HIDE DEF m, n
    <2> QED BY <1>1, <1>5, <2>1, <2>2
  <1>7. b2 \ f2 \subseteq b \ f /\ \A j \in f2 : j \in f \/ j = m
    OBVIOUS
  <1>8. \A state : \A score \in Scores :
           Matched(r, b, state, score) => Matched(r2, b2, state, score)
    BY <1>1, <1>2, MatchedStays
  <1> HIDE DEF n, m, to
  <1>9. Chained(r2, g, u, maximum)
    <2>1. ASSUME NEW i \in 2 .. Len(r2)
          PROVE  /\ r2[i].parent \in 1 .. i - 1 /\ Fits(r2[i].score)
                 /\ Leads(r2[r2[i].parent], r2[i], g, u, maximum)
      <3>1. CASE i = m
        <4>1. r2[i] = x /\ r2[c] = r[c] /\ c \in 1 .. i - 1
          BY <1>1, <1>4, <3>1 DEF m, n
        <4> QED BY <1>2, <4>1
      <3>2. CASE i # m
        <4>1. i \in 2 .. Len(r) /\ i \in 1 .. n
          BY <1>1, <1>4, <3>2 DEF m, n
        <4>2. /\ r[i].parent \in 1 .. i - 1 /\ Fits(r[i].score)
              /\ Leads(r[r[i].parent], r[i], g, u, maximum)
          BY <1>1, <4>1 DEF Chained
        <4>3. r[i].parent \in 1 .. n
          BY <1>1, <4>1, <4>2
        <4> QED BY <1>4, <4>1, <4>2, <4>3
      <3> QED BY <3>1, <3>2
    <2>2. 1 \in 1 .. n /\ Len(r2) >= 1
      BY <1>1, <1>4
    <2>3. r2[1] = Departure(g, u)
      BY <1>1, <1>4, <2>2 DEF Chained
    <2> QED BY <1>4, <2>1, <2>2, <2>3 DEF Chained
  <1>10. ASSUME NEW i \in 1 .. Len(r2)
         PROVE  Matched(r2, b2, r2[i].state, r2[i].score)
    <2>1. CASE i = m
      BY <1>3, <1>4, <1>6, <2>1, NoWorseFacts DEF Matched
    <2>2. CASE i # m
      <3>1. i \in 1 .. n
        BY <1>1, <1>4, <2>2 DEF m, n
      <3> QED BY <1>1, <1>3, <1>4, <1>8, <3>1
    <2> QED BY <2>1, <2>2
  <1>11. ASSUME NEW j \in 1 .. n, NEW e \in Directions, Explored(r, b, j, e, g, u, maximum)
         PROVE  Explored(r2, b2, j, e, g, u, maximum)
    <2> DEFINE from == r[j].state.tile
               next == Toward(from, e)
               entered == Entered(r[j], j, next, EnterCost(g, u, from, next), maximum)
    <2> SUFFICES ASSUME CanEnter(g, u, from, next, maximum), Fits(entered.score)
                 PROVE  Matched(r2, b2, entered.state, entered.score)
      BY <1>4 DEF Explored
    <2>1. Matched(r, b, entered.state, entered.score)
      BY <1>11 DEF Explored
    <2>2. entered.score \in Scores
      <3>1. EnteredFrom(entered, r[j], j, next, g, u, maximum)
        BY DEF EnteredFrom
      <3>2. r[j] \in Recorded /\ j \in Nat
        BY <1>1
      <3> HIDE DEF entered, next, from
      <3>3. entered \in Recorded
        BY <3>1, <3>2, EnterLeads
      <3> QED BY <3>3, RecordTyping
    <2> QED BY <1>8, <2>1, <2>2
  <1>12. ASSUME NEW j \in b2 \ f2
         PROVE  /\ r2[j].state.tile \notin targets
                /\ \A e \in Directions : (j = c => e < d) =>
                      Explored(r2, b2, j, e, g, u, maximum)
    <2>1. j \in b \ f /\ j \in 1 .. n
      BY <1>1, <1>7
    <2>2. /\ r[j].state.tile \notin targets
          /\ \A e \in Directions : (j = c => e < d) =>
                Explored(r, b, j, e, g, u, maximum)
      BY <2>1 DEF HeapSound
    <2> QED BY <1>4, <1>11, <2>1, <2>2
  <1>13. HeapSound(r2, b2, f2, c, d, g, u, maximum, targets)
    BY <1>1, <1>6, <1>9, <1>10, <1>12 DEF HeapSound
  <1>14. Explored(r2, b2, c, d, g, u, maximum)
    <2>1. r2[c] = r[c] /\ x = Entered(r[c], c, to, EnterCost(g, u, r[c].state.tile, to), maximum)
      BY <1>1, <1>4 DEF EnteredFrom, to
    <2>2. Matched(r2, b2, x.state, x.score)
      BY <1>4, <1>6, <1>10
    <2> QED BY <2>1, <2>2 DEF Explored, to
  <1>15. \A i \in b \ f : NoWorse(r[i].score, x.score)
    <2>1. \A i \in b \ f : NoWorse(r[i].score, r[c].score) /\ i \in 1 .. n
      BY <1>1 DEF HeapOrdered
    <2> QED BY <1>1, <1>3, <2>1, NoWorseFacts
  <1>16. HeapOrdered(r2, b2, f2, c)
    <2>1. \A i \in b2 \ f2 : i \in b \ f /\ i \in 1 .. n /\ r2[i] = r[i]
      BY <1>1, <1>4, <1>7
    <2>2. \A j \in f2 : (j \in f /\ r2[j] = r[j]) \/ (j = m /\ r2[j] = x)
      BY <1>1, <1>4, <1>7
    <2>3. r2[c] = r[c]
      BY <1>1, <1>4
    <2>4. /\ \A i \in b \ f : NoWorse(r[i].score, r[c].score)
          /\ \A j \in f : NoWorse(r[c].score, r[j].score)
          /\ \A i \in b \ f, j \in f : NoWorse(r[i].score, r[j].score)
      BY <1>1 DEF HeapOrdered
    <2>5. ASSUME NEW j \in f2
          PROVE  /\ NoWorse(r[c].score, r2[j].score)
                 /\ \A i \in b \ f : NoWorse(r[i].score, r2[j].score)
      <3>1. CASE j \in f /\ r2[j] = r[j]
        BY <2>4, <3>1
      <3>2. CASE j = m /\ r2[j] = x
        BY <1>3, <1>15, <3>2
      <3> QED BY <2>2, <3>1, <3>2
    <2>6. \A i \in b2 \ f2, j \in f2 : NoWorse(r2[i].score, r2[j].score)
      BY <2>1, <2>5
    <2>7. \A i \in b2 \ f2 : NoWorse(r2[i].score, r2[c].score)
      BY <2>1, <2>3, <2>4
    <2>8. \A j \in f2 : NoWorse(r2[c].score, r2[j].score)
      BY <2>3, <2>5
    <2> QED BY <2>6, <2>7, <2>8 DEF HeapOrdered
  <1>17. b \ f \subseteq b2
    <2>1. \A i \in b \ f : i \notin h
      BY <1>15 DEF Takes
    <2> QED BY <2>1
  <1> QED BY <1>13, <1>14, <1>16, <1>17

LEMMA JoinFacts ==
  ASSUME NEW p \in Seq(Int), NEW q \in Seq(Int)
  PROVE  /\ p \o q \in Seq(Int) /\ Len(p \o q) = Len(p) + Len(q)
         /\ \A m \in 1 .. Len(p) : (p \o q)[m] = p[m]
  OBVIOUS

\* The record on top of the heap has a score as good as any there.
LEMMA TopFacts ==
  ASSUME records \in Seq(Recorded), frontier \subseteq 1 .. Len(records),
         NEW i, IsTop(i), NEW j \in frontier
  PROVE  i \in frontier /\ NoWorse(records[i].score, records[j].score)
  <1>1. i \in frontier /\ \A k \in frontier : records[k] \in Recorded /\ k \in Nat
    BY DEF IsTop
  <1>2. ASSUME NEW k \in frontier
        PROVE  /\ DOMAIN Rank(k) \subseteq Nat \ {0}
               /\ \A m \in 1 .. 3 : Rank(k)[m] = records[k].score[m]
    <2> DEFINE a == records[k].score
               c == records[k].state.tile
               e == <<0 - records[k].state.remaining, k>>
    <2>1. /\ a \in Seq(Int) /\ Len(a) = 3 /\ c \in Seq(Int)
          /\ e \in Seq(Int)
      <3>1. /\ a \in Scores /\ c \in Tiles /\ records[k].state.remaining \in Nat /\ k \in Nat
        BY <1>1, RecordTyping
      <3>2. /\ a[1] \in Int /\ a[2] \in Int /\ a[3] \in Int /\ a = <<a[1], a[2], a[3]>>
            /\ c[1] \in Int /\ c[2] \in Int /\ c = <<c[1], c[2]>>
            /\ 0 - records[k].state.remaining \in Int
        <4> HIDE DEF a, c
        <4>1. a[1] \in Int /\ a[2] \in Int /\ a[3] \in Int /\ a = <<a[1], a[2], a[3]>>
          BY <3>1 DEF Scores
        <4>2. c[1] \in Int /\ c[2] \in Int /\ c = <<c[1], c[2]>>
          BY <3>1, GridAssumption DEF Tiles
        <4> QED BY <3>1, <4>1, <4>2
      <3> HIDE DEF a, c
      <3>3. <<a[1], a[2], a[3]>> \in Seq(Int) /\ Len(<<a[1], a[2], a[3]>>) = 3
        BY <3>2
      <3>4. <<c[1], c[2]>> \in Seq(Int)
        BY <3>2
      <3>5. e \in Seq(Int)
        BY <3>1, <3>2
      <3>6. a \in Seq(Int) /\ Len(a) = 3
        BY <3>2, <3>3
      <3>7. c \in Seq(Int)
        BY <3>2, <3>4
      <3> QED BY <3>5, <3>6, <3>7
    <2>2. Rank(k) = (a \o c) \o e
      BY DEF Rank
    <2> HIDE DEF a, c, e
    <2> DEFINE p == a \o c
    <2>3. p \in Seq(Int) /\ Len(p) = Len(a) + Len(c) /\ \A m \in 1 .. 3 : p[m] = a[m]
      <3>1. p \in Seq(Int) /\ Len(p) = Len(a) + Len(c)
        BY <2>1, JoinFacts
      <3>2. \A m \in 1 .. Len(a) : p[m] = a[m]
        BY <2>1, JoinFacts
      <3> HIDE DEF p
      <3> QED BY <2>1, <3>1, <3>2
    <2>4. Len(c) \in Nat
      BY <2>1
    <2>5. Len(p) >= 3 /\ Len(p) \in Nat
      BY <2>1, <2>3, <2>4
    <2> HIDE DEF p
    <2>6. p \o e \in Seq(Int) /\ \A m \in 1 .. 3 : (p \o e)[m] = p[m]
      <3>1. \A m \in 1 .. 3 : m \in 1 .. Len(p)
        BY <2>5
      <3>2. p \o e \in Seq(Int) /\ \A m \in 1 .. Len(p) : (p \o e)[m] = p[m]
        BY <2>1, <2>3, JoinFacts
      <3> QED BY <3>1, <3>2
    <2>7. DOMAIN (p \o e) \subseteq Nat \ {0}
      <3> DEFINE q == p \o e
      <3>1. q \in Seq(Int)
        BY <2>6
      <3> HIDE DEF q
      <3>2. DOMAIN q = 1 .. Len(q) /\ Len(q) \in Nat
        BY <3>1
      <3> QED BY <3>2 DEF q
    <2>8. Rank(k) = p \o e
      BY <2>2 DEF p
    <2> QED BY <2>3, <2>6, <2>7, <2>8 DEF a
  <1>3. /\ records[i].score \in Scores /\ records[j].score \in Scores
    BY <1>1, RecordTyping
  <1>4. CASE j = i
    BY <1>1, <1>3, <1>4, NoWorseFacts
  <1>5. CASE j # i
    <2>1. Precedes(Rank(i), Rank(j))
      BY <1>5 DEF IsTop
    <2>2. PICK k \in DOMAIN Rank(i) :
             Rank(i)[k] < Rank(j)[k] /\ \A m \in 1 .. k - 1 : Rank(i)[m] = Rank(j)[m]
      BY <2>1 DEF Precedes
    <2> DEFINE x == records[i].score
               y == records[j].score
    <2>3. /\ x[1] \in Nat /\ x[2] \in Nat /\ x[3] \in Nat
          /\ y[1] \in Nat /\ y[2] \in Nat /\ y[3] \in Nat /\ k \in Nat \ {0}
      BY <1>1, <1>2, <1>3, <2>2 DEF Scores
    <2>4. \A m \in 1 .. 3 : Rank(i)[m] = x[m] /\ Rank(j)[m] = y[m]
      BY <1>1, <1>2
    <2> HIDE DEF x, y
    <2>5. CASE k = 1
      <3>1. x[1] < y[1]
        BY <2>2, <2>4, <2>5
      <3> QED BY <1>1, <3>1 DEF NoWorse, x, y
    <2>6. CASE k = 2
      <3>1. x[1] = y[1] /\ x[2] < y[2]
        BY <2>2, <2>4, <2>6
      <3> QED BY <1>1, <3>1 DEF NoWorse, x, y
    <2>7. CASE k = 3
      <3>1. x[1] = y[1] /\ x[2] = y[2] /\ x[3] < y[3]
        BY <2>2, <2>4, <2>7
      <3>2. x[3] <= y[3]
        BY <2>3, <3>1
      <3> QED BY <1>1, <3>1, <3>2 DEF NoWorse, x, y
    <2>8. CASE k > 3
      <3>1. x[1] = y[1] /\ x[2] = y[2] /\ x[3] = y[3]
        BY <2>2, <2>3, <2>4, <2>8
      <3>2. x[3] <= y[3]
        BY <2>3, <3>1
      <3> QED BY <1>1, <3>1, <3>2 DEF NoWorse, x, y
    <2>9. k = 1 \/ k = 2 \/ k = 3 \/ k > 3
      BY <2>3
    <2> QED BY <2>5, <2>6, <2>7, <2>8, <2>9
  <1> QED BY <1>4, <1>5

-----------------------------------------------------------------------------
(* The first record of a tile sought that comes off the heap.              *)

LEMMA FinalFacts ==
  ASSUME NEW g, NEW u, NEW maximum, Planning(g, u, maximum), NEW t, Way(t, g, u, maximum)
  PROVE  /\ Len(t) \in 1 .. Len(t) /\ Final(t) = t[Len(t)]
         /\ Final(t) \in Recorded /\ Final(t).score \in Scores
         /\ Final(t).score[3] = Len(t) - 1
         /\ (Final(t).state.started <=> Len(t) # 1)
         /\ \A k \in 1 .. Len(t) : t[k] \in Recorded
  <1>1. Len(t) \in 1 .. Len(t) /\ Final(t) = t[Len(t)]
    BY DEF Way, Final
  <1>2. \A k \in 1 .. Len(t) : t[k] \in Recorded
    BY WayFacts
  <1>3. Final(t).score[3] = Len(t) - 1 /\ (Final(t).state.started <=> Len(t) # 1)
    <2>1. \A k \in 1 .. Len(t) : t[k].score[3] = k - 1 /\ (t[k].state.started <=> k # 1)
      BY WayFacts
    <2> QED BY <1>1, <2>1, Zenon
  <1>4. Final(t) \in Recorded
    BY <1>1, <1>2
  <1>5. Final(t).score \in Scores
    BY <1>4, RecordTyping
  <1> QED BY <1>1, <1>2, <1>3, <1>4, <1>5

\* Off the heap comes the best there is: a record of a tile sought that is on
\* top of it, or none when the heap is empty.
LEMMA FoundIsBest ==
  ASSUME NEW g, NEW u, NEW maximum, Planning(g, u, maximum), NEW targets,
         NEW r, NEW b, NEW f, NEW d,
         HeapSound(r, b, f, 0, d, g, u, maximum, targets),
         NEW t, Way(t, g, u, maximum), Len(t) <= Cols * Rows,
         Final(t).state.tile \in targets
  PROVE  /\ f # {}
         /\ \A i \in f : (\A j \in f : NoWorse(r[i].score, r[j].score))
                            => NoWorse(r[i].score, Final(t).score)
  <1>1. Len(t) \in 1 .. Len(t) /\ Final(t) = t[Len(t)] /\ Final(t).score \in Scores
    BY FinalFacts
  <1>2. \A j \in f : r[j].score \in Scores
    <2>1. Chained(r, g, u, maximum) /\ f \subseteq 1 .. Len(r)
      BY DEF HeapSound
    <2> QED BY <2>1, ChainedFacts, RecordTyping
  <1>3. PICK j \in f : NoWorse(r[j].score, Final(t).score)
    <2>1. ~ \E j \in b \ f : r[j].state = Final(t).state
      BY DEF HeapSound
    <2> QED BY <1>1, <2>1, SettledOrAhead
  <1> QED BY <1>1, <1>2, <1>3, NoWorseFacts

LEMMA StrictRival ==
  ASSUME NEW g, NEW u, NEW maximum, Planning(g, u, maximum),
         NEW t, Way(t, g, u, maximum), ~Straight(t)
  PROVE  \E w : /\ Rivals(w, t, g, u, maximum) /\ Straight(w)
                /\ ~NoWorse(Final(t).score, Final(w).score)
  <1>1. PICK i \in 1 .. Len(t), j \in 1 .. Len(t) :
           t[i].state.tile = t[j].state.tile /\ i # j
    BY DEF Straight
  <1>2. PICK a \in 1 .. Len(t), c \in 1 .. Len(t) :
           t[a].state.tile = t[c].state.tile /\ a < c
    <2>1. i < j \/ j < i
      BY <1>1 DEF Way
    <2> QED BY <1>1, <2>1
  <1>3. PICK v : Rivals(v, t, g, u, maximum) /\ Len(v) = Len(t) - (c - a)
    BY <1>2, Shortcut
  <1>4. Way(v, g, u, maximum)
    BY <1>3 DEF Rivals
  <1>5. PICK w : Rivals(w, v, g, u, maximum) /\ Straight(w) /\ Len(w) <= Len(v)
    BY <1>4, StraightRival
  <1>6. Way(w, g, u, maximum)
    BY <1>5 DEF Rivals
  <1>7. /\ Final(t) \in Recorded /\ Final(v) \in Recorded /\ Final(w) \in Recorded
        /\ Final(t).score[3] = Len(t) - 1 /\ Final(w).score[3] = Len(w) - 1
        /\ (Final(t).state.started <=> Len(t) # 1)
        /\ Len(t) \in Nat /\ Len(v) \in Nat /\ Len(w) \in Nat /\ Len(w) >= 1
    BY <1>4, <1>6, FinalFacts DEF Way
  <1>8. Rivals(w, t, g, u, maximum)
    BY <1>3, <1>5, <1>7, DominatesTransitively DEF Rivals
  <1>9. Len(w) < Len(t) /\ Final(t).state.started
    <2>1. a \in Nat /\ c \in Nat /\ a < c /\ a >= 1 /\ c <= Len(t)
      BY <1>2, <1>7
    <2>2. Len(v) = Len(t) - (c - a) /\ Len(w) <= Len(v)
      BY <1>3, <1>5
    <2> DEFINE lt == Len(t)
               lv == Len(v)
               lw == Len(w)
    <2>3. lw < lt /\ lt # 1
      <3>1. lt \in Nat /\ lv \in Nat /\ lw \in Nat /\ lv = lt - (c - a) /\ lw <= lv
            /\ c <= lt
        BY <1>7, <2>1, <2>2
      <3> HIDE DEF lt, lv, lw
      <3> QED BY <2>1, <3>1
    <2> QED BY <1>7, <2>3
  <1> DEFINE x == Final(t)
             y == Final(w)
  <1>10. Dominates(y, x) /\ y.score[3] < x.score[3] /\ x \in Recorded /\ y \in Recorded
         /\ x.state.started
    BY <1>7, <1>8, <1>9 DEF Rivals
  <1> HIDE DEF x, y
  <1>11. /\ x.score[1] \in Nat /\ x.score[2] \in Nat /\ x.score[3] \in Nat
         /\ y.score[1] \in Nat /\ y.score[2] \in Nat /\ y.score[3] \in Nat
         /\ Begun(x) \in Nat /\ Begun(y) \in Nat
    BY <1>10, RecordTyping
  <1>12. Begun(x) = x.score[1] /\ y.score[1] <= Begun(y)
    BY <1>10, <1>11 DEF Begun
  <1>13. y.score[2] <= x.score[2] /\ Begun(y) <= Begun(x)
    BY <1>10, <1>11 DEF Dominates
  <1>14. ~NoWorse(x.score, y.score)
    <2>1. ~(x.score[1] < y.score[1])
      BY <1>11, <1>12, <1>13
    <2>2. ~(x.score[2] < y.score[2])
      BY SMTT(30), <1>11, <1>13
    <2>3. ~(x.score[3] <= y.score[3])
      <3>1. y.score[3] < x.score[3]
        BY <1>10
      <3> QED BY SMTT(30), <1>11, <3>1
    <2> QED BY <2>1, <2>2, <2>3 DEF NoWorse
  <1> QED BY <1>5, <1>8, <1>14 DEF x, y

LEMMA FoundIsStraight ==
  ASSUME NEW g, NEW u, NEW maximum, Planning(g, u, maximum), NEW targets,
         NEW r, NEW b, NEW f, NEW d,
         HeapSound(r, b, f, 0, d, g, u, maximum, targets),
         NEW i \in f, \A j \in f : NoWorse(r[i].score, r[j].score),
         r[i].state.tile \in targets,
         NEW t, Way(t, g, u, maximum), Final(t) = r[i]
  PROVE  Straight(t)
  <1> SUFFICES ASSUME ~Straight(t) PROVE FALSE
    OBVIOUS
  <1>1. PICK w : /\ Rivals(w, t, g, u, maximum) /\ Straight(w)
                 /\ ~NoWorse(Final(t).score, Final(w).score)
    BY StrictRival
  <1>2. Way(w, g, u, maximum) /\ Final(w).state.tile \in targets
    BY <1>1 DEF Rivals
  <1>3. Len(w) <= Cols * Rows
    BY <1>1, <1>2, StraightLength
  <1> QED BY <1>1, <1>2, <1>3, FoundIsBest

-----------------------------------------------------------------------------
(* Ways and the routes of Movement.                                        *)

\* A route lists the tiles of a way, what each cost and what all cost so far.
Lists(route, t) ==
    /\ route \in Seq(MovementStep) /\ Len(route) = Len(t)
    /\ \A k \in 1 .. Len(t) :
          /\ route[k].tile = t[k].state.tile /\ route[k].enter = t[k].enter
          /\ route[k].cumulative = t[k].score[2]

\* The pace of a route is the turns and the movement left along its way.
LEMMA ListedScore ==
  ASSUME NEW g, NEW u, NEW maximum, Planning(g, u, maximum),
         NEW t, Way(t, g, u, maximum), NEW route, Lists(route, t)
  PROVE  Score(route, Available(g, u), maximum)
         = <<Final(t).score[1], Final(t).score[2], Len(t)>>
  <1> DEFINE available == Available(g, u)
             pace == Pace(route, available, maximum)
             S == {k \in 1 .. Len(t) :
                     /\ pace[k].turns = t[k].score[1]
                     /\ pace[k].remaining = t[k].state.remaining}
  <1>1. /\ Len(t) \in Nat /\ Len(t) >= 1 /\ 1 \in Int /\ Len(t) \in Int /\ 0 <= 1
        /\ 1 \in 1 .. Len(t) /\ Len(t) \in 1 .. Len(t) /\ t[1] = Departure(g, u)
        /\ route \in Seq(MovementStep) /\ Len(route) = Len(t)
        /\ maximum \in Nat /\ available \in Nat
    BY AvailableTyping, BalanceAssumption DEF Way, Lists, Planning, DearestEntry
  <1>2. /\ \A i \in 1 .. Len(t) : pace[i] \in PaceRecord
        /\ pace[1] = [turns |-> 0, remaining |-> available]
        /\ \A i \in 2 .. Len(t) : pace[i] = Onward(pace[i - 1], i, route[i].enter, maximum)
    <2> HIDE DEF available
    <2> QED BY <1>1, PaceFacts
  <1> HIDE DEF pace, available
  <1>3. 1 \in S
    <2>1. t[1].score[1] = 0 /\ t[1].state.remaining = available
      BY <1>1, DepartureFacts DEF available
    <2> QED BY <1>1, <1>2, <2>1
  <1>4. ASSUME NEW k \in 1 + 1 .. Len(t), k - 1 \in S
        PROVE  k \in S
    <2> DEFINE a == t[k - 1]
               b == t[k]
               cost == EnterCost(g, u, a.state.tile, b.state.tile)
               before == pace[k - 1]
    <2>1. /\ k \in 2 .. Len(t) /\ k \in 1 .. Len(t) /\ k - 1 \in 1 .. Len(t)
          /\ a \in Recorded /\ b \in Recorded /\ b.parent \in Nat
          /\ Leads(a, b, g, u, maximum)
      <3>1. k \in 2 .. Len(t)
        BY <1>1
      <3> QED BY <3>1, WayStep
    <2>2. before.turns = a.score[1] /\ before.remaining = a.state.remaining
      BY <1>4
    <2>3. a.state.started <=> k # 2
      <3>1. \A i \in 1 .. Len(t) : t[i].state.started <=> i # 1
        BY WayFacts
      <3>2. k - 1 # 1 <=> k # 2
        BY <2>1
      <3> QED BY <2>1, <3>1, <3>2
    <2>4. k = 2 => a.score[1] = 0
      BY <1>1, DepartureFacts
    <2>5. route[k].enter = b.enter
      BY <2>1 DEF Lists
    <2>6. pace[k] = Onward(before, k, b.enter, maximum)
      BY <1>2, <2>1, <2>5
    <2> HIDE DEF a, b, before
    <2>7. b.enter = cost /\ Follow(a, b, cost, maximum) /\ cost \in Nat
      BY <2>1, LeadsFacts, EnterCostTyping
    <2> HIDE DEF cost
    <2>8. (IF k = 2 THEN 1 ELSE before.turns) = Begun(a)
      BY <2>2, <2>3, <2>4 DEF Begun
    <2>9. /\ a.state.remaining \in Nat /\ Begun(a) \in Nat
      BY <2>1, RecordTyping
    <2>10. pace[k] = IF cost <= a.state.remaining
                     THEN [turns |-> Begun(a), remaining |-> a.state.remaining - cost]
                     ELSE IF a.state.remaining > 0
                     THEN [turns |-> Begun(a), remaining |-> 0]
                     ELSE [turns |-> Begun(a) + 1, remaining |-> Remaining(maximum, cost)]
      BY <2>2, <2>6, <2>7, <2>8 DEF Onward, Remaining
    <2>11. pace[k].turns = b.score[1] /\ pace[k].remaining = b.state.remaining
      <3>1. CASE cost <= a.state.remaining
        BY <2>7, <2>10, <3>1 DEF Follow
      <3>2. CASE cost > a.state.remaining /\ a.state.remaining > 0
        BY <2>7, <2>9, <2>10, <3>2 DEF Follow
      <3>3. CASE cost > a.state.remaining /\ a.state.remaining = 0
        BY <2>7, <2>9, <2>10, <3>3 DEF Follow
      <3> QED BY <2>7, <2>9, <3>1, <3>2, <3>3
    <2> QED BY <2>1, <2>11 DEF b
  <1>5. Len(t) \in S
    <2> HIDE DEF S
    <2> QED BY <1>1, <1>3, <1>4, Induction
  <1>6. route[Len(t)].cumulative = Final(t).score[2]
    BY <1>1 DEF Lists, Final
  <1> QED BY <1>1, <1>5, <1>6 DEF Score, pace, available, Final

LEMMA RouteSteps ==
  ASSUME NEW g \in Game, NEW u \in Units, NEW targets, NEW maximum,
         NEW route \in Routes(g, u, targets, maximum)
  PROVE  \A i \in 2 .. Len(route) :
            /\ CanPay(g, u, route[i - 1].tile, route[i].tile, maximum)
            /\ route[i].enter = EnterCost(g, u, route[i - 1].tile, route[i].tile)
  <1>1. PICK path \in SimplePaths(Position(g, u), Open(g, u)) :
           /\ \A i \in 2 .. Len(path) : CanPay(g, u, path[i - 1], path[i], maximum)
           /\ route = Priced(g, u, path)
    BY DEF Routes
  <1>2. route \in Seq(MovementStep)
    BY DEF Routes
  <1>3. path \in Seq(Tiles) /\ Len(path) >= 1 /\ Len(path) \in Nat
    BY UnitTyping, PathFacts, GridAssumption DEF Walk
  <1>4. /\ DOMAIN route = 1 .. Len(path)
        /\ \A i \in 1 .. Len(path) :
              /\ route[i].tile = path[i]
              /\ route[i].enter = IF i = 1 THEN 0 ELSE EnterCost(g, u, path[i - 1], path[i])
    BY <1>1 DEF Priced
  <1>5. Len(route) = Len(path)
    BY <1>2, <1>3, <1>4
  <1>6. ASSUME NEW i \in 2 .. Len(route)
        PROVE  /\ CanPay(g, u, route[i - 1].tile, route[i].tile, maximum)
               /\ route[i].enter = EnterCost(g, u, route[i - 1].tile, route[i].tile)
    <2>1. i \in 2 .. Len(path) /\ i \in 1 .. Len(path) /\ i - 1 \in 1 .. Len(path) /\ i # 1
      BY <1>3, <1>5
    <2> QED BY <1>1, <1>4, <2>1
  <1> QED BY <1>6

\* Every route is listed by a way.
LEMMA RouteIsAWay ==
  ASSUME NEW g, NEW u, NEW maximum, Planning(g, u, maximum), NEW targets,
         NEW route \in Routes(g, u, targets, maximum)
  PROVE  \E t : /\ Way(t, g, u, maximum) /\ Lists(route, t) /\ Len(t) <= Cols * Rows
                /\ Final(t).state.tile \in targets
  <1> DEFINE Same(t, n) ==
               /\ Way(t, g, u, maximum) /\ Len(t) = n
               /\ \A k \in 1 .. n :
                     /\ route[k].tile = t[k].state.tile /\ route[k].enter = t[k].enter
                     /\ route[k].cumulative = t[k].score[2]
             S == {n \in 1 .. Len(route) : \E t : Same(t, n)}
  <1>1. g \in Game /\ u \in Units
    BY DEF Planning
  <1>2. Travels(route, g, u)
    BY <1>1, UnitTyping, RouteFacts
  <1>3. /\ Len(route) \in Nat /\ Len(route) >= 1 /\ 1 \in Int /\ Len(route) \in Int
        /\ 0 <= 1 /\ 1 \in 1 .. Len(route) /\ Len(route) \in 1 .. Len(route)
        /\ Len(route) <= Cols * Rows /\ route \in Seq(MovementStep)
        /\ route[1].tile = Position(g, u) /\ route[1].enter = 0 /\ route[1].cumulative = 0
    BY <1>2, CostTyping DEF Travels
  <1>4. 1 \in S
    <2> DEFINE d == Departure(g, u)
    <2>1. /\ d \in Recorded /\ d.state.tile = Position(g, u) /\ d.enter = 0
          /\ d.score = <<0, 0, 0>>
      BY DepartureFacts
    <2> HIDE DEF d
    <2>2. <<d>> \in Seq(Recorded) /\ Len(<<d>>) = 1 /\ <<d>>[1] = d
      BY <2>1
    <2>3. Way(<<d>>, g, u, maximum)
      BY <2>2 DEF Way, d
    <2>4. d.score[2] = 0
      BY <2>1
    <2>5. Same(<<d>>, 1)
      BY <1>3, <2>1, <2>2, <2>3, <2>4
    <2> QED BY <1>3, <2>5
  <1>5. ASSUME NEW n \in 1 + 1 .. Len(route), n - 1 \in S
        PROVE  n \in S
    <2>1. PICK t : Same(t, n - 1)
      BY <1>5
    <2> DEFINE a == t[Len(t)]
               from == a.state.tile
               to == route[n].tile
               cost == EnterCost(g, u, from, to)
               e == Entered(a, 0, to, cost, maximum)
    <2>2. /\ n \in 2 .. Len(route) /\ n \in 1 .. Len(route) /\ n - 1 \in 1 .. n - 1
          /\ n \in Nat /\ n - 1 \in Nat
      BY <1>3
    <2>3. /\ Way(t, g, u, maximum) /\ Len(t) = n - 1 /\ a = Final(t)
      BY <2>1 DEF Final
    <2>4. a \in Recorded
      BY <2>3, FinalFacts
    <2>5. from = route[n - 1].tile /\ route[n - 1].cumulative = a.score[2]
      BY <2>1, <2>2
    <2>6. /\ to \in Open(g, u) /\ to \in Neighbors(from)
          /\ CanPay(g, u, from, to, maximum) /\ route[n].enter = cost
          /\ route[n].cumulative = route[n - 1].cumulative + route[n].enter
      BY <1>1, <1>2, <2>2, <2>5, RouteSteps DEF Travels
    <2>7. EnteredFrom(e, a, 0, to, g, u, maximum)
      BY <2>6 DEF EnteredFrom, CanEnter
    <2> HIDE DEF e, from, to, cost
    <2>8. e \in Recorded /\ e.state.tile = to /\ Leads(a, e, g, u, maximum) /\ e.parent = 0
      BY <2>4, <2>7, EnterLeads
    <2> HIDE DEF a
    <2>9. e.enter = cost /\ e.score[2] = a.score[2] + cost
      <3>1. cost = EnterCost(g, u, a.state.tile, e.state.tile) /\ e.parent \in Nat
        BY <2>8 DEF cost, from
      <3>2. Follow(a, e, cost, maximum) /\ e.enter = cost
        BY <2>4, <2>8, <3>1, LeadsFacts
      <3> QED BY <3>2 DEF Follow
    <2> DEFINE w == Append(t, e)
    <2>10. /\ Way(w, g, u, maximum) /\ Len(w) = n /\ w[n] = e
           /\ \A k \in 1 .. n - 1 : w[k] = t[k]
      <3>1. /\ Way(Append(t, e), g, u, maximum)
            /\ Len(Append(t, e)) = Len(t) + 1 /\ Append(t, e)[Len(t) + 1] = e
            /\ \A i \in 1 .. Len(t) : Append(t, e)[i] = t[i]
        BY <2>3, <2>8, WayExtends DEF a
      <3>2. Len(t) + 1 = n
        BY <2>2, <2>3
      <3> QED BY <2>3, <3>1, <3>2
    <2> HIDE DEF w
    <2>11. ASSUME NEW k \in 1 .. n
           PROVE  /\ route[k].tile = w[k].state.tile /\ route[k].enter = w[k].enter
                  /\ route[k].cumulative = w[k].score[2]
      <3>1. CASE k = n
        BY <2>5, <2>6, <2>8, <2>9, <2>10, <3>1 DEF to
      <3>2. CASE k # n
        <4>1. k \in 1 .. n - 1
          BY <2>2, <3>2
        <4> QED BY <2>1, <2>10, <4>1
      <3> QED BY <3>1, <3>2
    <2>12. Same(w, n)
      BY <2>10, <2>11
    <2> QED BY <2>2, <2>12
  <1>6. Len(route) \in S
    <2> HIDE DEF S
    <2> QED BY <1>3, <1>4, <1>5, Induction
  <1>7. PICK t : Same(t, Len(route))
    BY <1>6
  <1>8. Lists(route, t)
    BY <1>3, <1>7 DEF Lists
  <1>9. Final(t).state.tile \in targets
    BY <1>1, <1>3, <1>7, RouteEnds DEF Final
  <1> QED BY <1>3, <1>7, <1>8, <1>9

\* A path of distinct tiles is among those that are grown.
LEMMA PathIsGrown ==
  ASSUME NEW start \in Tiles, NEW open, NEW path \in Seq(Tiles),
         Len(path) \in 1 .. Cols * Rows, path[1] = start,
         \A i \in 2 .. Len(path) : path[i] \in Neighbors(path[i - 1]) \cap open,
         \A i, j \in 1 .. Len(path) : path[i] = path[j] => i = j
  PROVE  path \in SimplePaths(start, open)
  <1> DEFINE N == Cols * Rows
             L == Len(path)
             Part(n) == SubSeq(path, 1, n)
  <1>1. N \in Nat /\ N >= 1 /\ L \in 1 .. N /\ 1 \in Int /\ N \in Int /\ 0 <= 1 /\ N \in 1 .. N
    BY GridAssumption
  <1>2. PICK grown : /\ SimplePaths(start, open) = grown[N]
                     /\ grown[1] = {<<start>>}
                     /\ \A n \in 2 .. N : grown[n] = Extended(grown[n - 1], open)
    BY PathsGrow
  <1>3. \A n \in 1 .. L : /\ Part(n) \in Seq(Tiles) /\ Len(Part(n)) = n
                          /\ \A i \in 1 .. n : Part(n)[i] = path[i]
    OBVIOUS
  <1>4. Part(L) = path
    <2>1. /\ Part(L) \in Seq(Tiles) /\ Len(Part(L)) = L
          /\ \A i \in 1 .. L : Part(L)[i] = path[i]
      BY <1>1, <1>3
    <2> HIDE DEF Part
    <2> QED BY <2>1
  <1> HIDE DEF Part, N
  <1> DEFINE Upto(n) == IF n <= L THEN Part(n) ELSE path
             S == {n \in 1 .. N : Upto(n) \in grown[n]}
  <1>5. 1 \in S
    <2>1. Part(1) = <<start>>
      <3>1. /\ Part(1) \in Seq(Tiles) /\ Len(Part(1)) = 1 /\ Part(1)[1] = start
        <4>1. 1 \in 1 .. L /\ 1 \in 1 .. 1
          BY <1>1
        <4>2. path[1] = start
          OBVIOUS
        <4> QED BY <1>3, <4>1, <4>2
      <3>2. <<start>> \in Seq(Tiles) /\ Len(<<start>>) = 1 /\ <<start>>[1] = start
        OBVIOUS
      <3>3. \A p, q \in Seq(Tiles) : Len(p) = 1 /\ Len(q) = 1 /\ p[1] = q[1] => p = q
        OBVIOUS
      <3> QED BY <3>1, <3>2, <3>3
    <2> QED BY <1>1, <1>2, <2>1
  <1>6. ASSUME NEW n \in 1 + 1 .. N, n - 1 \in S
        PROVE  n \in S
    <2>1. n \in 1 .. N /\ grown[n] = Extended(grown[n - 1], open) /\ n \in Nat
      BY <1>1, <1>2
    <2>2. CASE n <= L
      <3> DEFINE p == Part(n - 1)
      <3>1. n \in 1 .. L /\ n - 1 \in 1 .. L /\ n - 1 \in 1 .. n - 1 /\ n \in 2 .. L
        BY <1>1, <2>2
      <3>2. /\ p \in grown[n - 1] /\ p \in Seq(Tiles) /\ Len(p) = n - 1
            /\ \A i \in 1 .. n - 1 : p[i] = path[i]
        <4>1. Upto(n - 1) = p
          BY <1>1, <3>1
        <4> QED BY <1>3, <1>6, <3>1, <4>1
      <3>3. DOMAIN p = 1 .. n - 1
        BY <3>2
      <3>4. p[Len(p)] = path[n - 1]
        BY <3>1, <3>2
      <3>5. path[n] \in Neighbors(p[Len(p)]) \cap open
        BY <3>1, <3>4
      <3>6. \A i \in DOMAIN p : p[i] # path[n]
        <4> SUFFICES ASSUME NEW i \in 1 .. n - 1 PROVE p[i] # path[n]
          BY <3>3
        <4>1. i \in 1 .. L /\ i # n
          BY <3>1
        <4> QED BY <3>1, <3>2, <4>1
      <3>7. Append(p, path[n]) \in Extended(grown[n - 1], open)
        <4> DEFINE next(q) == {Append(q, t) : t \in {v \in Neighbors(q[Len(q)]) \cap open :
                                                       \A i \in DOMAIN q : q[i] # v}}
        <4>1. Append(p, path[n]) \in next(p)
          BY <3>5, <3>6
        <4>2. Extended(grown[n - 1], open)
              = grown[n - 1] \cup UNION {next(q) : q \in grown[n - 1]}
          BY DEF Extended
        <4> HIDE DEF next
        <4> QED BY <3>2, <4>1, <4>2
      <3>8. Part(n) = Append(p, path[n])
        <4>1. path[n] \in Tiles
          BY <3>1
        <4>2. /\ Append(p, path[n]) \in Seq(Tiles) /\ Len(Append(p, path[n])) = n
              /\ \A i \in 1 .. n : Append(p, path[n])[i] = path[i]
          <5> HIDE DEF p
          <5> QED BY <3>1, <3>2, <4>1
        <4>3. /\ Part(n) \in Seq(Tiles) /\ Len(Part(n)) = n
              /\ \A i \in 1 .. n : Part(n)[i] = path[i]
          BY <1>3, <3>1
        <4> HIDE DEF p
        <4> QED BY <4>2, <4>3
      <3> QED BY <2>1, <2>2, <3>7, <3>8
    <2>3. CASE ~(n <= L)
      <3>1. Upto(n) = path /\ Upto(n - 1) = path
        <4>1. n - 1 = L \/ ~(n - 1 <= L)
          BY <1>1, <2>1, <2>3
        <4> QED BY <1>4, <2>3, <4>1
      <3>2. path \in grown[n - 1]
        BY <1>6, <3>1
      <3> QED BY <2>1, <3>1, <3>2 DEF Extended
    <2> QED BY <2>2, <2>3
  <1>7. N \in S
    <2> HIDE DEF S
    <2> QED BY <1>1, <1>5, <1>6, Induction
  <1>8. Upto(N) = path
    <2>1. N = L \/ ~(N <= L)
      BY <1>1
    <2> QED BY <1>4, <2>1
  <1> QED BY <1>2, <1>7, <1>8

\* The steps of a way.
Steps(t) == [k \in 1 .. Len(t) |-> [tile |-> t[k].state.tile, enter |-> t[k].enter,
                                    cumulative |-> t[k].score[2]]]

\* A way without rounds, whose cost can be counted, is a route.
LEMMA WayIsARoute ==
  ASSUME NEW g, NEW u, NEW maximum, Planning(g, u, maximum), NEW targets,
         NEW t, Way(t, g, u, maximum), Straight(t),
         \A k \in 1 .. Len(t) : t[k].score[2] <= MaxCost, Final(t).state.tile \in targets
  PROVE  Lists(Steps(t), t) /\ Steps(t) \in Routes(g, u, targets, maximum)
  <1> DEFINE L == Len(t)
             path == [k \in 1 .. L |-> t[k].state.tile]
             start == Position(g, u)
  <1>1. /\ L \in Nat /\ L >= 1 /\ 1 \in Int /\ L \in Int /\ 0 <= 1
        /\ 1 \in 1 .. L /\ L \in 1 .. L /\ t[1] = Departure(g, u)
        /\ \A k \in 1 .. L : t[k] \in Recorded
    BY FinalFacts DEF Way
  <1>2. L <= Cols * Rows /\ L \in 1 .. Cols * Rows
    <2>1. L <= Cols * Rows /\ Cols * Rows \in Nat
      BY StraightLength, GridAssumption
    <2> HIDE DEF L
    <2> QED BY <1>1, <2>1
  <1>3. ASSUME NEW k \in 2 .. L
        PROVE  LET cost == EnterCost(g, u, t[k - 1].state.tile, t[k].state.tile)
               IN  /\ t[k].enter = cost /\ t[k].score[2] = t[k - 1].score[2] + cost
                   /\ cost \in Nat
                   /\ t[k].state.tile \in Neighbors(t[k - 1].state.tile)
                   /\ t[k].state.tile \in Open(g, u)
                   /\ CanPay(g, u, t[k - 1].state.tile, t[k].state.tile, maximum)
    <2> DEFINE a == t[k - 1]
               b == t[k]
               cost == EnterCost(g, u, a.state.tile, b.state.tile)
    <2>1. a \in Recorded /\ b \in Recorded /\ b.parent \in Nat /\ Leads(a, b, g, u, maximum)
      BY WayStep
    <2> HIDE DEF a, b
    <2>2. /\ b.enter = cost /\ Follow(a, b, cost, maximum) /\ cost \in Nat
          /\ b.state.tile \in Neighbors(a.state.tile)
          /\ b.state.tile \in Open(g, u)
          /\ CanPay(g, u, a.state.tile, b.state.tile, maximum)
      BY <2>1, LeadsFacts, EnterCostTyping
    <2>3. b.score[2] = a.score[2] + cost
      BY <2>2 DEF Follow
    <2> QED BY <2>2, <2>3 DEF a, b
  <1>4. t[1].state.tile = start /\ t[1].enter = 0 /\ t[1].score[2] = 0
    BY <1>1, DepartureFacts
  <1>5. \A k \in 1 .. L : t[k].state.tile \in Tiles /\ t[k].score[2] \in Nat
    BY <1>1, RecordTyping
  <1>6. \A k \in 2 .. L : k \in 1 .. L /\ k - 1 \in 1 .. L /\ k # 1
    BY <1>1
  <1> HIDE DEF L
  <1>7. /\ path \in Seq(Tiles) /\ Len(path) = L
        /\ \A k \in 1 .. L : path[k] = t[k].state.tile
    <2>1. path \in [1 .. L -> Tiles]
      BY <1>5
    <2>2. path \in Seq(Tiles) /\ Len(path) = L
      BY <1>1, <2>1
    <2> QED BY <2>2
  <1> HIDE DEF path
  <1>8. path \in SimplePaths(start, Open(g, u))
    <2>1. start \in Tiles /\ path[1] = start
      BY <1>1, <1>4, <1>5, <1>7
    <2>2. \A k \in 2 .. Len(path) : path[k] \in Neighbors(path[k - 1]) \cap Open(g, u)
      BY <1>3, <1>6, <1>7
    <2>3. \A i, j \in 1 .. Len(path) : path[i] = path[j] => i = j
      BY <1>7 DEF Straight, L
    <2> QED BY <1>2, <1>7, <2>1, <2>2, <2>3, PathIsGrown
  <1>9. \A k \in 2 .. Len(path) : CanPay(g, u, path[k - 1], path[k], maximum)
    BY <1>3, <1>6, <1>7
  <1>10. \A k \in 1 .. L : CostSoFar(g, u, path)[k] = t[k].score[2]
    <2> DEFINE total == CostSoFar(g, u, path)
               S == {k \in 1 .. L : total[k] = t[k].score[2]}
    <2>1. /\ total[1] = 0
          /\ \A i \in 2 .. L : total[i] = total[i - 1] + EnterCost(g, u, path[i - 1], path[i])
      BY <1>1, <1>7, CostFacts
    <2> HIDE DEF total
    <2>2. 1 \in S
      BY <1>1, <1>4, <2>1
    <2>3. ASSUME NEW k \in 1 + 1 .. L, k - 1 \in S
          PROVE  k \in S
      <3>1. k \in 2 .. L /\ total[k - 1] = t[k - 1].score[2]
        BY <2>3
      <3>2. total[k] = t[k - 1].score[2]
                       + EnterCost(g, u, t[k - 1].state.tile, t[k].state.tile)
        BY <1>6, <1>7, <2>1, <3>1
      <3> QED BY <1>3, <1>6, <3>1, <3>2
    <2>4. \A k \in 1 .. L : k \in S
      <3> HIDE DEF S
      <3> QED BY <1>1, <2>2, <2>3, Induction
    <2> QED BY <2>4 DEF total
  <1>11. Steps(t) = Priced(g, u, path)
    <2>1. \A k \in 1 .. L :
             t[k].enter = IF k = 1 THEN 0 ELSE EnterCost(g, u, path[k - 1], path[k])
      <3> SUFFICES ASSUME NEW k \in 1 .. L
                   PROVE  t[k].enter
                          = IF k = 1 THEN 0 ELSE EnterCost(g, u, path[k - 1], path[k])
        OBVIOUS
      <3>1. CASE k = 1
        BY <1>4, <3>1
      <3>2. CASE k # 1
        <4>1. k \in 2 .. L
          BY <1>1, <3>2
        <4> QED BY <1>3, <1>6, <1>7, <3>2, <4>1
      <3> QED BY <3>1, <3>2
    <2>2. Steps(t) = [k \in 1 .. L |-> [tile |-> t[k].state.tile, enter |-> t[k].enter,
                                        cumulative |-> t[k].score[2]]]
      BY DEF Steps, L
    <2>3. Priced(g, u, path)
          = [k \in 1 .. L |->
               [tile |-> path[k],
                enter |-> IF k = 1 THEN 0 ELSE EnterCost(g, u, path[k - 1], path[k]),
                cumulative |-> CostSoFar(g, u, path)[k]]]
      BY <1>7 DEF Priced
    <2> QED BY <1>7, <1>10, <2>1, <2>2, <2>3
  <1>12. Lists(Steps(t), t)
    <2>1. \A k \in 1 .. L : t[k].score[2] \in 0 .. MaxCost /\ t[k].enter \in 0 .. MaxCost
      <3> SUFFICES ASSUME NEW k \in 1 .. L
                   PROVE  t[k].score[2] \in 0 .. MaxCost /\ t[k].enter \in 0 .. MaxCost
        OBVIOUS
      <3>1. t[k].score[2] \in Nat /\ t[k].score[2] <= MaxCost /\ MaxCost \in Nat
        BY <1>5, BalanceAssumption DEF L
      <3>2. CASE k = 1
        BY <1>4, <3>1, <3>2
      <3>3. CASE k # 1
        <4>1. k \in 2 .. L
          BY <1>1, <3>3
        <4>2. t[k - 1].score[2] \in Nat
          BY <1>5, <1>6, <4>1
        <4> QED BY <1>3, <3>1, <4>1, <4>2
      <3> QED BY <3>2, <3>3
    <2> DEFINE route == Steps(t)
    <2>2. /\ route = [k \in 1 .. L |-> [tile |-> t[k].state.tile, enter |-> t[k].enter,
                                        cumulative |-> t[k].score[2]]]
      BY DEF Steps, L
    <2> HIDE DEF route
    <2>3. route \in [1 .. L -> MovementStep]
      BY <1>5, <2>1, <2>2 DEF MovementStep
    <2>4. route \in Seq(MovementStep) /\ Len(route) = L
      BY <1>1, <2>3
    <2>5. \A k \in 1 .. L :
             /\ route[k].tile = t[k].state.tile /\ route[k].enter = t[k].enter
             /\ route[k].cumulative = t[k].score[2]
      BY <2>2
    <2> QED BY <2>4, <2>5 DEF Lists, L, route
  <1>13. path[Len(path)] \in targets
    BY <1>1, <1>7 DEF Final, L
  <1> QED BY <1>8, <1>9, <1>11, <1>12, <1>13 DEF Routes, Lists

\* Going back along the parents lists the steps of the chain.
LEMMA ReconstructedSteps ==
  ASSUME NEW g, NEW u, NEW maximum, Planning(g, u, maximum),
         Chained(records, g, u, maximum), NEW i \in 1 .. Len(records),
         NEW s, Chain(s, records, i), NEW t, t = [k \in 1 .. Len(s) |-> records[s[k]]]
  PROVE  Reconstructed(i) = Steps(t)
  <1> DEFINE N == Len(records)
             L == Len(s)
             next(j) == IF j = 0 THEN 0 ELSE records[j].parent
             D == 0 .. N
             step == [x \in D \X Nat |-> next(x[1])]
             Backs(f) == f = [n \in 1 .. N |-> IF n = 1 THEN i
                                 ELSE IF f[n - 1] = 0 THEN 0 ELSE records[f[n - 1]].parent]
             back == CHOOSE f : Backs(f)
             length == CHOOSE n \in 1 .. N : back[n] # 0 /\ records[back[n]].parent = 0
  <1>1. /\ N \in Nat /\ N >= 1 /\ 1 \in Int /\ N \in Int /\ 0 <= 1 /\ 1 <= N
        /\ records[1] = Departure(g, u) /\ records \in Seq(Recorded)
        /\ \A j \in 2 .. N : records[j].parent \in 1 .. j - 1
    BY DEF Chained
  <1>2. records[1].parent = 0
    BY <1>1, DepartureFacts
  <1>3. /\ L \in Nat /\ L >= 1 /\ L <= N /\ s[1] = 1 /\ s[L] = i
        /\ \A k \in 1 .. L : s[k] \in 1 .. N
        /\ \A k \in 2 .. L : s[k] > 1 /\ s[k - 1] = records[s[k]].parent
    BY SMTT(30), ChainFacts DEF Chain
  <1>4. Reconstructed(i)
        = [k \in 1 .. length |-> [tile |-> records[back[length - k + 1]].state.tile,
                                  enter |-> records[back[length - k + 1]].enter,
                                  cumulative |-> records[back[length - k + 1]].score[2]]]
    BY Zenon DEF Reconstructed
  <1> HIDE DEF N, L
  <1>5. \A j \in D : next(j) \in D
    BY <1>1, <1>2
  <1>6. \E f : Backs(f)
    <2>1. i \in D /\ step \in [D \X Nat -> D]
      BY <1>1, <1>5 DEF N
    <2>2. PICK f \in [1 .. N -> D] : Follows(f, 1, N, i, step)
      <3> HIDE DEF step, D
      <3> QED BY <1>1, <2>1, Recursion
    <2>3. \A n \in 1 .. N : n # 1 => step[<<f[n - 1], n>>] = next(f[n - 1])
      <3> SUFFICES ASSUME NEW n \in 1 .. N, n # 1
                   PROVE  step[<<f[n - 1], n>>] = next(f[n - 1])
        OBVIOUS
      <3>1. <<f[n - 1], n>> \in D \X Nat
        BY <1>1, <2>2
      <3> HIDE DEF D, next
      <3> QED BY <3>1
    <2> HIDE DEF step, D
    <2>4. \A n \in 1 .. N : f[n] = IF n = 1 THEN i ELSE next(f[n - 1])
      <3>1. \A n \in 1 .. N : f[n] = IF n = 1 THEN i ELSE step[<<f[n - 1], n>>]
        BY <2>2 DEF Follows
      <3> HIDE DEF next
      <3> QED BY <2>3, <3>1
    <2>5. f = [n \in 1 .. N |-> IF n = 1 THEN i ELSE next(f[n - 1])]
      <3> HIDE DEF next
      <3> QED BY <2>2, <2>4
    <2> HIDE DEF N
    <2>6. Backs(f)
      BY <2>5
    <2> QED BY <2>6
  <1>7. Backs(back)
    BY <1>6
  <1> HIDE DEF back
  <1>8. back[1] = i /\ \A n \in 2 .. N : back[n] = next(back[n - 1])
    <2>1. back = [n \in 1 .. N |-> IF n = 1 THEN i
                     ELSE IF back[n - 1] = 0 THEN 0 ELSE records[back[n - 1]].parent]
      BY <1>7
    <2> HIDE DEF Backs, D, step
    <2>2. 1 \in 1 .. N /\ \A n \in 2 .. N : n \in 1 .. N /\ n # 1
      BY <1>1
    <2> QED BY <2>1, <2>2, Zenon
  <1> HIDE DEF Backs
  <1> DEFINE S == {n \in 1 .. N : back[n] = IF n <= L THEN s[L - n + 1] ELSE 0}
  <1>9. 1 \in S
    <2>1. L - 1 + 1 = L /\ 1 <= L
      BY <1>3
    <2> QED BY <1>1, <1>3, <1>8, <2>1
  <1>10. ASSUME NEW n \in 1 + 1 .. N, n - 1 \in S
         PROVE  n \in S
    <2>1. n \in 2 .. N /\ n \in 1 .. N /\ back[n] = next(back[n - 1])
      BY <1>1, <1>8
    <2>2. back[n - 1] = IF n - 1 <= L THEN s[L - (n - 1) + 1] ELSE 0
      BY <1>10
    <2>3. CASE n <= L
      <3> DEFINE k == L - (n - 1) + 1
      <3>1. k \in 2 .. L /\ k \in 1 .. L /\ k - 1 = L - n + 1
        BY <1>3, <2>1, <2>3
      <3>2. back[n - 1] = s[k]
        BY <1>3, <2>1, <2>2, <2>3
      <3> HIDE DEF k
      <3>3. s[k] # 0 /\ s[k - 1] = records[s[k]].parent
        BY <1>1, <1>3, <3>1
      <3> QED BY <2>1, <2>3, <3>1, <3>2, <3>3
    <2>4. CASE n = L + 1
      <3>1. back[n - 1] = s[1] /\ s[1] = 1
        BY <1>3, <2>1, <2>2, <2>4
      <3>2. back[n] = 0 /\ ~(n <= L)
        BY <1>2, <1>3, <2>1, <2>4, <3>1
      <3> QED BY <2>1, <3>2
    <2>5. CASE n > L + 1
      <3>1. back[n - 1] = 0 /\ ~(n <= L)
        BY <1>3, <2>1, <2>2, <2>5
      <3> QED BY <2>1, <3>1
    <2> QED BY <1>3, <2>1, <2>3, <2>4, <2>5
  <1>11. \A n \in 1 .. N : back[n] = IF n <= L THEN s[L - n + 1] ELSE 0
    <2>1. \A n \in 1 .. N : n \in S
      <3> HIDE DEF S
      <3> QED BY <1>1, <1>9, <1>10, Induction
    <2> QED BY <2>1
  <1>12. length = L
    <2>1. L \in 1 .. N /\ back[L] # 0 /\ records[back[L]].parent = 0
      <3>1. L \in 1 .. N /\ L <= L /\ L - L + 1 = 1
        BY <1>1, <1>3
      <3>2. back[L] = 1
        BY <1>3, <1>11, <3>1
      <3> QED BY <1>2, <3>1, <3>2
    <2>2. ASSUME NEW n \in 1 .. N, back[n] # 0, records[back[n]].parent = 0
          PROVE  n = L
      <3>1. n <= L /\ back[n] = s[L - n + 1]
        BY <1>11, <2>2
      <3>2. CASE n # L
        <4> DEFINE k == L - n + 1
        <4>1. k \in 2 .. L /\ k - 1 \in 1 .. L
          BY <1>3, <3>1, <3>2
        <4> HIDE DEF k
        <4>2. s[k - 1] = records[s[k]].parent /\ s[k - 1] # 0
          BY <1>1, <1>3, <4>1
        <4> QED BY <2>2, <3>1, <4>2 DEF k
      <3> QED BY <3>2
    <2> QED BY <2>1, <2>2
  <1> HIDE DEF length
  <1>13. \A k \in 1 .. L : back[L - k + 1] = s[k]
    <2> SUFFICES ASSUME NEW k \in 1 .. L PROVE back[L - k + 1] = s[k]
      OBVIOUS
    <2>1. L - k + 1 \in 1 .. N /\ L - k + 1 <= L /\ L - (L - k + 1) + 1 = k
      <3>1. L \in Nat /\ N \in Nat /\ L <= N /\ k \in 1 .. L
        BY <1>1, <1>3
      <3> HIDE DEF L, N
      <3> QED BY <3>1
    <2> QED BY <1>11, <2>1
  <1>14. /\ Len(t) = L /\ \A k \in 1 .. L : t[k] = records[s[k]]
    BY <1>3 DEF L
  <1>15. Reconstructed(i)
         = [k \in 1 .. L |-> [tile |-> t[k].state.tile, enter |-> t[k].enter,
                              cumulative |-> t[k].score[2]]]
    BY <1>4, <1>12, <1>13, <1>14
  <1> QED BY <1>14, <1>15 DEF Steps

-----------------------------------------------------------------------------
(* What a search finds.                                                    *)

LEMMA StepsCounted ==
  \A a, b \in Scores : NoWorse(a, b) =>
      NoWorse(<<a[1], a[2], a[3] + 1>>, <<b[1], b[2], b[3] + 1>>)
  <1> SUFFICES ASSUME NEW a \in Scores, NEW b \in Scores, NoWorse(a, b)
               PROVE  NoWorse(<<a[1], a[2], a[3] + 1>>, <<b[1], b[2], b[3] + 1>>)
    OBVIOUS
  <1>1. /\ a[1] \in Nat /\ a[2] \in Nat /\ a[3] \in Nat
        /\ b[1] \in Nat /\ b[2] \in Nat /\ b[3] \in Nat
    BY DEF Scores
  <1> QED BY <1>1 DEF NoWorse

LEMMA FoundRoute ==
  ASSUME NEW g, NEW u, NEW maximum, Planning(g, u, maximum), NEW targets,
         HeapSound(records, best, frontier, 0, direction, g, u, maximum, targets),
         NEW i, IsTop(i), records[i].state.tile \in targets
  PROVE  /\ Reconstructed(i) \in Routes(g, u, targets, maximum)
         /\ \A route \in Routes(g, u, targets, maximum) :
               NoWorse(Score(Reconstructed(i), Available(g, u), maximum),
                       Score(route, Available(g, u), maximum))
  <1>1. /\ Chained(records, g, u, maximum) /\ records \in Seq(Recorded)
        /\ frontier \subseteq 1 .. Len(records)
    BY DEF HeapSound, Chained
  <1>2. /\ i \in frontier /\ i \in 1 .. Len(records)
        /\ \A j \in frontier : NoWorse(records[i].score, records[j].score)
    <2>1. i \in frontier
      BY DEF IsTop
    <2> QED BY <1>1, <2>1, TopFacts
  <1>3. PICK s : Chain(s, records, i)
    BY <1>1, <1>2, ChainExists
  <1>4. PICK t : t = [k \in 1 .. Len(s) |-> records[s[k]]]
    OBVIOUS
  <1>5. /\ Way(t, g, u, maximum) /\ Len(t) = Len(s) /\ Final(t) = records[i]
        /\ \A k \in 2 .. Len(s) : Fits(t[k].score)
    BY <1>1, <1>3, <1>4, ChainFacts
  <1>6. Straight(t)
    BY <1>2, <1>5, FoundIsStraight
  <1>7. \A k \in 1 .. Len(t) : t[k].score[2] <= MaxCost
    <2>1. t[1].score[2] = 0
      BY <1>5, DepartureFacts DEF Way
    <2>2. \A k \in 1 .. Len(t) : k = 1 \/ k \in 2 .. Len(s)
      BY <1>5 DEF Way
    <2> QED BY <1>5, <2>1, <2>2, BalanceAssumption DEF Fits
  <1>8. Lists(Steps(t), t) /\ Steps(t) \in Routes(g, u, targets, maximum)
    BY <1>5, <1>6, <1>7, WayIsARoute
  <1>9. Reconstructed(i) = Steps(t)
    BY <1>1, <1>2, <1>3, <1>4, ReconstructedSteps
  <1>10. Final(t).score \in Scores /\ Final(t).score[3] + 1 = Len(t)
    BY <1>5, FinalFacts
  <1>11. Score(Steps(t), Available(g, u), maximum)
         = <<Final(t).score[1], Final(t).score[2], Final(t).score[3] + 1>>
    BY <1>5, <1>8, <1>10, ListedScore
  <1>12. ASSUME NEW route \in Routes(g, u, targets, maximum)
         PROVE  NoWorse(Score(Steps(t), Available(g, u), maximum),
                        Score(route, Available(g, u), maximum))
    <2>1. PICK w : /\ Way(w, g, u, maximum) /\ Lists(route, w) /\ Len(w) <= Cols * Rows
                   /\ Final(w).state.tile \in targets
      BY RouteIsAWay
    <2>2. Final(w).score \in Scores /\ Final(w).score[3] + 1 = Len(w)
      BY <2>1, FinalFacts
    <2>3. Score(route, Available(g, u), maximum)
          = <<Final(w).score[1], Final(w).score[2], Final(w).score[3] + 1>>
      BY <2>1, <2>2, ListedScore
    <2>4. NoWorse(Final(t).score, Final(w).score)
      BY <1>2, <1>5, <2>1, FoundIsBest
    <2> QED BY <1>10, <1>11, <2>2, <2>3, <2>4, StepsCounted
  <1> QED BY <1>8, <1>9, <1>12

LEMMA NothingFound ==
  ASSUME NEW g, NEW u, NEW maximum, Planning(g, u, maximum), NEW targets,
         NEW r, NEW b, NEW d, HeapSound(r, b, {}, 0, d, g, u, maximum, targets)
  PROVE  Routes(g, u, targets, maximum) = {}
  <1> SUFFICES ASSUME NEW route \in Routes(g, u, targets, maximum) PROVE FALSE
    OBVIOUS
  <1>1. PICK t : /\ Way(t, g, u, maximum) /\ Len(t) <= Cols * Rows
                 /\ Final(t).state.tile \in targets
    BY RouteIsAWay
  <1> QED BY <1>1, FoundIsBest

\* A best route is one of the routes, and no other has a better score.
LEMMA BestIsLeast ==
  ASSUME NEW g, NEW u, NEW targets, NEW maximum, maximum = MaximumMovement(g, u), NEW route
  PROVE  route \in BestRoutes(g, u, targets) <=>
           /\ route \in Routes(g, u, targets, maximum)
           /\ \A other \in Routes(g, u, targets, maximum) :
                 NoWorse(Score(route, Available(g, u), maximum),
                         Score(other, Available(g, u), maximum))
  <1> DEFINE routes == Routes(g, u, targets, maximum)
             score(x) == Score(x, Available(g, u), maximum)
             scored == {<<score(x), x>> : x \in routes}
             least == {e \in scored : \A other \in scored : NoWorse(e[1], other[1])}
  <1>1. BestRoutes(g, u, targets) = {entry[2] : entry \in least}
    BY DEF BestRoutes
  <1> HIDE DEF routes, score
  <1>2. ASSUME route \in BestRoutes(g, u, targets)
        PROVE  route \in routes /\ \A other \in routes : NoWorse(score(route), score(other))
    <2>1. PICK entry \in least : route = entry[2]
      BY <1>1, <1>2
    <2>2. entry = <<score(route), route>> /\ route \in routes
      BY <2>1
    <2>3. \A other \in routes : <<score(other), other>> \in scored
      OBVIOUS
    <2>4. \A other \in scored : NoWorse(score(route), other[1])
      BY <2>2
    <2> QED BY <2>2, <2>3, <2>4
  <1>3. ASSUME route \in routes, \A other \in routes : NoWorse(score(route), score(other))
        PROVE  route \in BestRoutes(g, u, targets)
    <2>1. <<score(route), route>> \in scored
      BY <1>3
    <2>2. \A e \in scored : \E other \in routes : e = <<score(other), other>>
      OBVIOUS
    <2>3. <<score(route), route>> \in least
      BY <1>3, <2>1, <2>2
    <2> HIDE DEF least
    <2> QED BY <1>1, <2>3
  <1> QED BY <1>2, <1>3 DEF routes, score

LEMMA BestAlike ==
  ASSUME NEW g \in Game, NEW u \in Units, NEW targets,
         NEW a \in BestRoutes(g, u, targets), NEW b \in BestRoutes(g, u, targets)
  PROVE  /\ Len(a) = Len(b) /\ a[Len(a)].cumulative = b[Len(b)].cumulative
         /\ Score(a, Available(g, u), MaximumMovement(g, u))
            = Score(b, Available(g, u), MaximumMovement(g, u))
  <1> DEFINE maximum == MaximumMovement(g, u)
             score(x) == Score(x, Available(g, u), maximum)
  <1>1. maximum \in Nat
    BY AllowanceTyping
  <1>2. a \in Routes(g, u, targets, maximum) /\ b \in Routes(g, u, targets, maximum)
    BY BestIsLeast
  <1>3. score(a) \in Scores /\ score(b) \in Scores
    BY <1>1, <1>2, ScoreTyping
  <1>4. NoWorse(score(a), score(b)) /\ NoWorse(score(b), score(a))
    BY <1>2, BestIsLeast
  <1>5. score(a) = score(b)
    <2> HIDE DEF score
    <2> QED BY <1>3, <1>4, NoWorseFacts
  <1> QED BY <1>5 DEF Score

-----------------------------------------------------------------------------
(* The plan that is looked for.                                            *)

LEMMA DearestTyping ==
  ASSUME NEW g \in Game, NEW u \in Units
  PROVE  DearestTile(g, u) \in 0 .. MovementLimit + DearestEntry
  <1> DEFINE costs == {EntryCost(TileTerrain[t], MovementDomain[u]) : t \in Tiles} \ {Blocked}
  <1>1. Available(g, u) \in 0 .. MovementLimit /\ MovementLimit \in Nat
    BY AvailableTyping, BalanceAssumption
  <1>2. costs \subseteq 0 .. DearestEntry
    <2>1. \A tile : FeatureCost(tile) \in 0 .. 8
      BY DEF FeatureCost, PerPoint
    <2>2. \A base : BaseLandCost(base) \in 0 .. 6
      BY DEF BaseLandCost, Blocked
    <2>3. \A tile, domain : EntryCost(tile, domain) \in 0 .. DearestEntry
      BY <2>1, <2>2 DEF EntryCost, Blocked, DearestEntry
    <2> QED BY <2>3
  <1> HIDE DEF costs
  <1>3. ASSUME costs # {}
        PROVE  \E c \in costs : \A d \in costs : d <= c
    <2> DEFINE S == {DearestEntry - c : c \in costs}
    <2>1. S \subseteq Nat /\ S # {}
      <3>1. \A c \in costs : c \in 0 .. 14 /\ DearestEntry = 14
        BY <1>2 DEF DearestEntry
      <3>2. \A c \in costs : DearestEntry - c \in Nat
        BY <3>1
      <3> QED BY <1>3, <3>2
    <2>2. PICK m \in S : \A n \in S : m <= n
      <3> HIDE DEF S
      <3> QED BY <2>1, LeastNatural
    <2>3. PICK c \in costs : m = DearestEntry - c
      BY <2>2
    <2>4. \A d \in costs : DearestEntry - c <= DearestEntry - d
      BY <2>2, <2>3
    <2>5. \A d \in costs : d <= c
      BY <1>2, <2>4 DEF DearestEntry
    <2> QED BY <2>5
  <1>4. DearestTile(g, u) = IF costs = {} THEN Available(g, u)
                            ELSE CHOOSE c \in costs : \A d \in costs : d <= c
    BY DEF DearestTile, costs
  <1>5. CASE costs = {}
    BY <1>1, <1>4, <1>5 DEF DearestEntry
  <1>6. CASE costs # {}
    <2>1. DearestTile(g, u) \in costs
      BY <1>3, <1>4, <1>6
    <2>2. DearestTile(g, u) \in 0 .. 14
      BY <1>2, <2>1 DEF DearestEntry
    <2>3. \A n \in 0 .. 14 : n \in 0 .. MovementLimit + 14
      BY <1>1
    <2> QED BY <2>2, <2>3 DEF DearestEntry
  <1> QED BY <1>5, <1>6

\* A plan that is looked for was not refused outright.
Requested(g, u, target) == RequestRefusal(g, Owner[u], u, target, g.revision) = ""

LEMMA RequestedFacts ==
  ASSUME NEW g, NEW u, NEW target, Requested(g, u, target)
  PROVE  /\ u \in Units /\ u \in Defined
         /\ Plan(g, Owner[u], u, target, g.revision).routes = PlannedRoutes(g, u, target)
         /\ Plan(g, Owner[u], u, target, g.revision).refusal
            = RouteRefusal(g, u, target, PlannedRoutes(g, u, target))
  <1>1. UnitRefusal(g, Owner[u], u) = ""
    BY DEF Requested, RequestRefusal
  <1>2. u \in Units /\ u \in Defined
    BY <1>1 DEF UnitRefusal
  <1> QED BY <1>2 DEF Requested, Plan

\* Whoever stands on a tile together belongs to one player.
LEMMA BlockersAlike ==
  ASSUME NEW g, Sound(g), NEW u, NEW target
  PROVE  \A v, w \in KnownBlockers(g, u, target) : Owner[v] = Owner[w]
  BY DEF KnownBlockers, Sound, ValidGame, ValidUnits, Permits

\* What the search may answer.
Answers(g, u, target, said) ==
    LET plan == Plan(g, Owner[u], u, target, g.revision)
    IN  said.refusal = plan.refusal /\ (said.refusal = "" => said.route \in plan.routes)

LEMMA FreeAnswer ==
  ASSUME NEW g, NEW u, NEW target, Requested(g, u, target), KnownBlockers(g, u, target) = {},
         NEW route \in BestRoutes(g, u, {target})
  PROVE  Answers(g, u, target, [refusal |-> "", route |-> route])
  <1>1. PlannedRoutes(g, u, target) = BestRoutes(g, u, {target})
    BY DEF PlannedRoutes
  <1> QED BY <1>1, RequestedFacts DEF Answers, RouteRefusal

LEMMA NoFreeAnswer ==
  ASSUME NEW g, NEW u, NEW target, Requested(g, u, target), KnownBlockers(g, u, target) = {},
         BestRoutes(g, u, {target}) = {}
  PROVE  /\ Routes(g, u, {target}, DearestTile(g, u)) # {} =>
              Answers(g, u, target, [refusal |-> "unit_movement_capacity_insufficient",
                                     route |-> <<>>])
         /\ Routes(g, u, {target}, DearestTile(g, u)) = {} =>
              Answers(g, u, target, [refusal |-> "move_path_not_found", route |-> <<>>])
  <1>1. PlannedRoutes(g, u, target) = {}
    BY DEF PlannedRoutes
  <1>2. /\ u \in Defined
        /\ Plan(g, Owner[u], u, target, g.revision).refusal = RouteRefusal(g, u, target, {})
    BY <1>1, RequestedFacts
  <1> QED BY <1>2 DEF Answers, RouteRefusal, ReachableIgnoringCapacity

\* Whether a route ends well next to a blocker.
EndsWell(g, u, route, v) ==
    /\ Len(route) > 1
    /\ Owner[v] # Owner[u] \/ route[Len(route)].cumulative > Available(g, u)

LEMMA BlockedAnswer ==
  ASSUME NEW g, Sound(g), NEW u, NEW target, Requested(g, u, target),
         NEW v \in KnownBlockers(g, u, target),
         NEW route \in BestRoutes(g, u, Neighbors(target))
  PROVE  /\ EndsWell(g, u, route, v) =>
              Answers(g, u, target, [refusal |-> "", route |-> route])
         /\ ~EndsWell(g, u, route, v) =>
              Answers(g, u, target, [refusal |-> "move_target_occupied", route |-> <<>>])
  <1> DEFINE planned == PlannedRoutes(g, u, target)
             plan == Plan(g, Owner[u], u, target, g.revision)
  <1>1. u \in Units /\ g \in Game
    BY RequestedFacts DEF Sound
  <1>2. plan.routes = planned /\ plan.refusal = RouteRefusal(g, u, target, planned)
    BY RequestedFacts
  <1>3. \A w \in KnownBlockers(g, u, target) : Owner[w] = Owner[v]
    BY BlockersAlike
  <1>4. planned = {r \in BestRoutes(g, u, Neighbors(target)) : EndsWell(g, u, r, v)}
    BY <1>3 DEF PlannedRoutes, EndsWell
  <1>5. \A r \in BestRoutes(g, u, Neighbors(target)) :
           EndsWell(g, u, r, v) <=> EndsWell(g, u, route, v)
    BY <1>1, BestAlike DEF EndsWell
  <1> HIDE DEF planned, plan
  <1>6. CASE EndsWell(g, u, route, v)
    <2>1. route \in planned /\ planned # {}
      BY <1>4, <1>6
    <2>2. plan.refusal = ""
      BY <1>2, <2>1 DEF RouteRefusal
    <2> QED BY <1>2, <1>6, <2>1, <2>2 DEF Answers, plan
  <1>7. CASE ~EndsWell(g, u, route, v)
    <2>1. planned = {}
      BY <1>4, <1>5, <1>7
    <2>2. plan.refusal = "move_target_occupied"
      BY <1>2, <2>1 DEF RouteRefusal
    <2> QED BY <1>7, <2>2 DEF Answers, plan
  <1> QED BY <1>6, <1>7

LEMMA NoBlockedAnswer ==
  ASSUME NEW g, NEW u, NEW target, Requested(g, u, target),
         KnownBlockers(g, u, target) # {}, BestRoutes(g, u, Neighbors(target)) = {}
  PROVE  Answers(g, u, target, [refusal |-> "move_target_occupied", route |-> <<>>])
  <1>1. PlannedRoutes(g, u, target) = {}
    BY DEF PlannedRoutes
  <1> QED BY <1>1, RequestedFacts DEF Answers, RouteRefusal

-----------------------------------------------------------------------------
(* The invariant of the search.                                            *)

SearchInv ==
    /\ stage \in {"idle", "allowance", "diagnosis", "answered"}
    /\ stage # "idle" => Requested(game, asked.unit, asked.target)
    /\ Searching =>
          /\ HeapSound(records, best, frontier, current, direction,
                       game, asked.unit, Ceiling(game), Sought(game))
          /\ HeapOrdered(records, best, frontier, current)
    /\ stage = "diagnosis" =>
          /\ KnownBlockers(game, asked.unit, asked.target) = {}
          /\ BestRoutes(game, asked.unit, {asked.target}) = {}
    /\ stage = "answered" => Answers(game, asked.unit, asked.target, answer)

LEMMA SearchFacts ==
  ASSUME Sound(game), SearchInv, Searching
  PROVE  /\ Planning(game, asked.unit, Ceiling(game))
         /\ game \in Game /\ asked.unit \in Units
         /\ Requested(game, asked.unit, asked.target)
         /\ stage = "allowance" \/ stage = "diagnosis"
         /\ stage = "allowance" => Ceiling(game) = MaximumMovement(game, asked.unit)
         /\ stage = "diagnosis" =>
              /\ Ceiling(game) = DearestTile(game, asked.unit)
              /\ Blockers(game) = {}
              /\ BestRoutes(game, asked.unit, {asked.target}) = {}
         /\ Blockers(game) = {} => Sought(game) = {asked.target}
         /\ Blockers(game) # {} => Sought(game) = Neighbors(asked.target)
  <1>1. stage = "allowance" \/ stage = "diagnosis"
    BY DEF Searching
  <1>2. Requested(game, asked.unit, asked.target)
    BY <1>1 DEF SearchInv
  <1>3. game \in Game /\ asked.unit \in Units
    BY <1>2, RequestedFacts DEF Sound
  <1>4. /\ stage = "allowance" => Ceiling(game) = MaximumMovement(game, asked.unit)
        /\ stage = "diagnosis" => Ceiling(game) = DearestTile(game, asked.unit)
    BY DEF Ceiling
  <1>5. Ceiling(game) \in 0 .. MovementLimit + DearestEntry
    <2>1. MaximumMovement(game, asked.unit) \in 0 .. MovementLimit
      BY <1>3, AvailableTyping
    <2>2. \A n \in 0 .. MovementLimit : n \in 0 .. MovementLimit + DearestEntry
      BY BalanceAssumption DEF DearestEntry
    <2> QED BY <1>1, <1>3, <1>4, <2>1, <2>2, DearestTyping
  <1>6. stage = "diagnosis" =>
          Blockers(game) = {} /\ BestRoutes(game, asked.unit, {asked.target}) = {}
    BY DEF SearchInv, Blockers
  <1>7. /\ Blockers(game) = {} => Sought(game) = {asked.target}
        /\ Blockers(game) # {} => Sought(game) = Neighbors(asked.target)
    BY DEF Sought
  <1> QED BY <1>1, <1>2, <1>3, <1>4, <1>5, <1>6, <1>7 DEF Planning

\* A step of the same search, one that begins a search, one that answers.
LEMMA StaysSearching ==
  ASSUME SearchInv, Searching, stage' = stage, asked' = asked, game' = game,
         HeapSound(records', best', frontier', current', direction',
                   game, asked.unit, Ceiling(game), Sought(game)),
         HeapOrdered(records', best', frontier', current')
  PROVE  SearchInv'
  <1>1. stage = "allowance" \/ stage = "diagnosis"
    BY DEF Searching
  <1>2. Ceiling(game)' = Ceiling(game) /\ Sought(game)' = Sought(game)
    BY DEF Ceiling, Sought, Blockers
  <1>3. Requested(game, asked.unit, asked.target)'
    BY <1>1 DEF SearchInv
  <1>4. stage = "diagnosis" =>
          /\ KnownBlockers(game, asked.unit, asked.target)' = {}
          /\ BestRoutes(game, asked.unit, {asked.target})' = {}
    BY DEF SearchInv
  <1>5. /\ HeapSound(records, best, frontier, current, direction,
                     game, asked.unit, Ceiling(game), Sought(game))'
        /\ HeapOrdered(records, best, frontier, current)'
    BY <1>2
  <1> QED BY <1>1, <1>3, <1>4, <1>5 DEF SearchInv, Searching

LEMMA StartsSearching ==
  ASSUME Sound(game), game' = game, stage' \in {"allowance", "diagnosis"},
         Requested(game, asked'.unit, asked'.target), Prepare(game, asked'.unit),
         stage' = "diagnosis" =>
            /\ KnownBlockers(game, asked'.unit, asked'.target) = {}
            /\ BestRoutes(game, asked'.unit, {asked'.target}) = {}
  PROVE  SearchInv'
  <1> DEFINE u == asked'.unit
             maximum == Ceiling(game)'
             targets == Sought(game)'
  <1>1. game \in Game /\ u \in Units
    BY RequestedFacts DEF Sound
  <1>2. maximum = IF stage' = "diagnosis" THEN DearestTile(game, u)
                  ELSE MaximumMovement(game, u)
    BY DEF Ceiling
  <1> HIDE DEF u, maximum, targets
  <1>3. maximum \in 0 .. MovementLimit + DearestEntry
    <2>1. MaximumMovement(game, u) \in 0 .. MovementLimit
      BY <1>1, AvailableTyping
    <2>2. \A n \in 0 .. MovementLimit : n \in 0 .. MovementLimit + DearestEntry
      BY BalanceAssumption DEF DearestEntry
    <2>3. DearestTile(game, u) \in 0 .. MovementLimit + DearestEntry
      BY <1>1, DearestTyping
    <2> QED BY <1>2, <2>1, <2>2, <2>3
  <1>4. Planning(game, u, maximum)
    BY <1>1, <1>3 DEF Planning
  <1>5. /\ records' = <<Departure(game, u)>> /\ best' = {1} /\ frontier' = {1}
        /\ current' = 0 /\ direction' = 1
    BY DEF Prepare, u
  <1>6. /\ HeapSound(records', best', frontier', current', direction',
                     game, u, maximum, targets)
        /\ HeapOrdered(records', best', frontier', current')
    BY <1>4, <1>5, BeginHeap
  <1>7. /\ HeapSound(records, best, frontier, current, direction,
                     game, asked.unit, Ceiling(game), Sought(game))'
        /\ HeapOrdered(records, best, frontier, current)'
    BY <1>6 DEF u, maximum, targets
  <1> QED BY <1>7 DEF SearchInv

LEMMA EndsSearching ==
  ASSUME SearchInv, Searching, stage' = "answered", asked' = asked, game' = game,
         Answers(game, asked.unit, asked.target, answer')
  PROVE  SearchInv'
  <1>1. stage # "idle"
    BY DEF Searching
  <1>2. Requested(game, asked.unit, asked.target)'
    BY <1>1 DEF SearchInv
  <1>3. Answers(game, asked.unit, asked.target, answer)'
    OBVIOUS
  <1> QED BY <1>2, <1>3 DEF SearchInv, Searching

LEMMA PopsSearching ==
  ASSUME Sound(game), SearchInv, Searching, current = 0
  PROVE  /\ HeapSound(records, best, frontier, 0, direction,
                      game, asked.unit, Ceiling(game), Sought(game))
         /\ HeapOrdered(records, best, frontier, 0)
         /\ \A i \in frontier : IsTop(i) =>
               \A j \in frontier : NoWorse(records[i].score, records[j].score)
  <1>1. /\ HeapSound(records, best, frontier, 0, direction,
                     game, asked.unit, Ceiling(game), Sought(game))
        /\ HeapOrdered(records, best, frontier, 0)
    BY DEF SearchInv
  <1>2. records \in Seq(Recorded) /\ frontier \subseteq 1 .. Len(records)
    BY <1>1 DEF HeapSound, Chained
  <1> QED BY <1>1, <1>2, TopFacts

LEMMA DropSearches ==
  ASSUME Sound(game), SearchInv, game' = game, NEW i, Drop(i)
  PROVE  SearchInv' /\ best \ frontier \subseteq best'
  <1>1. /\ Searching /\ current = 0 /\ i \notin best /\ stage' = stage /\ asked' = asked
        /\ records' = records /\ best' = best /\ frontier' = frontier \ {i}
        /\ current' = 0 /\ direction' = direction
    BY DEF Drop, Pops
  <1>2. /\ HeapSound(records, best, frontier \ {i}, 0, direction,
                     game, asked.unit, Ceiling(game), Sought(game))
        /\ HeapOrdered(records, best, frontier \ {i}, 0)
    BY <1>1, PopsSearching, DropKeeps
  <1>3. SearchInv'
    BY <1>1, <1>2, StaysSearching
  <1> QED BY <1>1, <1>3

LEMMA ExpandSearches ==
  ASSUME Sound(game), SearchInv, game' = game, NEW i, Expand(game, i)
  PROVE  SearchInv' /\ best \ frontier \subseteq best'
  <1>1. /\ Searching /\ current = 0 /\ IsTop(i) /\ i \in best \cap frontier
        /\ records[i].state.tile \notin Sought(game)
        /\ stage' = stage /\ asked' = asked
        /\ records' = records /\ best' = best /\ frontier' = frontier \ {i}
        /\ current' = i /\ direction' = 1
    BY DEF Expand, Pops, IsTop
  <1>2. \A j \in frontier : NoWorse(records[i].score, records[j].score)
    BY <1>1, PopsSearching
  <1>3. /\ HeapSound(records, best, frontier \ {i}, i, 1,
                     game, asked.unit, Ceiling(game), Sought(game))
        /\ HeapOrdered(records, best, frontier \ {i}, i)
    BY <1>1, <1>2, PopsSearching, ExpandKeeps
  <1>4. SearchInv'
    BY <1>1, <1>3, StaysSearching
  <1> QED BY <1>1, <1>4

\* Looking at a neighbour explores the edge to it, and settled records stay.
LEMMA ExamineSearches ==
  ASSUME Sound(game), SearchInv, game' = game, Examine(game)
  PROVE  SearchInv' /\ best \ frontier \subseteq best'
  <1> DEFINE g == game
             u == asked.unit
             maximum == Ceiling(game)
             targets == Sought(game)
             x == Candidate(game)
             from == records[current].state.tile
             to == Toward(from, direction)
  <1>1. /\ Searching /\ current # 0 /\ stage' = stage /\ asked' = asked
        /\ IF Retained(game) THEN Retain(x) ELSE UNCHANGED <<records, best, frontier>>
        /\ IF direction = 6 THEN current' = 0 /\ direction' = 1
           ELSE current' = current /\ direction' = direction + 1
    BY DEF Examine
  <1>2. /\ HeapSound(records, best, frontier, current, direction, g, u, maximum, targets)
        /\ HeapOrdered(records, best, frontier, current)
    BY <1>1 DEF SearchInv
  <1>3. Planning(g, u, maximum)
    BY <1>1, SearchFacts
  <1>4. x = Entered(records[current], current, to, EnterCost(g, u, from, to), maximum)
    BY DEF Candidate, Here, Ahead
  <1>5. Retained(game) <=> /\ CanEnter(g, u, from, to, maximum)
                           /\ Fits(x.score) /\ Improves(x)
    BY DEF Retained, Here, Ahead
  <1>6. /\ Improves(x) <=> Takes(x, records, best)
        /\ ~Improves(x) => Matched(records, best, x.state, x.score)
    BY DEF Improves, Holders, Takes, Matched
  <1> HIDE DEF x, maximum, targets
  <1>7. /\ HeapSound(records', best', frontier', current, direction, g, u, maximum, targets)
        /\ HeapOrdered(records', best', frontier', current)
        /\ Explored(records', best', current, direction, g, u, maximum)
        /\ best \ frontier \subseteq best'
    <2>1. CASE Retained(game)
      <3>1. RetainedIn(x, records, best, frontier, records', best', frontier')
        BY <1>1, <2>1 DEF Retain, Holders, RetainedIn
      <3>2. EnteredFrom(x, records[current], current, to, g, u, maximum)
        BY <1>4, <1>5, <2>1 DEF EnteredFrom
      <3>3. Fits(x.score) /\ Takes(x, records, best)
        BY <1>5, <1>6, <2>1
      <3>4. current # 0
        BY <1>1
      <3> HIDE DEF from, to
      <3> QED BY <1>2, <1>3, <3>1, <3>2, <3>3, <3>4, RetainKeeps DEF to, from
    <2>2. CASE ~Retained(game)
      <3>1. records' = records /\ best' = best /\ frontier' = frontier
        BY <1>1, <2>2
      <3>2. Explored(records, best, current, direction, g, u, maximum)
        BY <1>4, <1>5, <1>6, <2>2 DEF Explored
      <3> QED BY <1>2, <3>1, <3>2
    <2> QED BY <2>1, <2>2
  <1>8. /\ direction = 6 =>
             /\ HeapSound(records', best', frontier', 0, 1, g, u, maximum, targets)
             /\ HeapOrdered(records', best', frontier', 0)
        /\ direction # 6 => HeapSound(records', best', frontier', current, direction + 1,
                                      g, u, maximum, targets)
    BY <1>1, <1>7, AdvanceKeeps
  <1>9. /\ HeapSound(records', best', frontier', current', direction', g, u, maximum, targets)
        /\ HeapOrdered(records', best', frontier', current')
    BY <1>1, <1>7, <1>8
  <1>10. SearchInv'
    BY <1>1, <1>9, StaysSearching DEF maximum, targets
  <1> QED BY <1>7, <1>10

LEMMA ArriveSearches ==
  ASSUME Sound(game), SearchInv, game' = game, NEW i, Arrive(game, i)
  PROVE  SearchInv'
  <1> DEFINE u == asked.unit
             target == asked.target
             route == Reconstructed(i)
             maximum == Ceiling(game)
             targets == Sought(game)
  <1>1. /\ Searching /\ current = 0 /\ IsTop(i) /\ records[i].state.tile \in targets
        /\ asked' = asked
    BY DEF Arrive, Pops
  <1>2. /\ Planning(game, u, maximum) /\ Requested(game, u, target)
        /\ HeapSound(records, best, frontier, 0, direction, game, u, maximum, targets)
    BY <1>1, SearchFacts, PopsSearching
  <1>3. /\ route \in Routes(game, u, targets, maximum)
        /\ \A other \in Routes(game, u, targets, maximum) :
              NoWorse(Score(route, Available(game, u), maximum),
                      Score(other, Available(game, u), maximum))
    BY <1>1, <1>2, FoundRoute
  <1>4. stage = "allowance" => route \in BestRoutes(game, u, targets)
    BY <1>1, <1>3, SearchFacts, BestIsLeast
  <1> HIDE DEF route, maximum, targets
  <1>5. stage' = "answered" /\ Answers(game, u, target, answer')
    <2>1. CASE stage = "diagnosis" /\ Refuse("unit_movement_capacity_insufficient")
      <3>1. /\ KnownBlockers(game, u, target) = {}
            /\ BestRoutes(game, u, {target}) = {}
            /\ targets = {target} /\ maximum = DearestTile(game, u)
        BY <1>1, <2>1, SearchFacts DEF Blockers, targets, maximum
      <3>2. Routes(game, u, {target}, DearestTile(game, u)) # {}
        BY <1>3, <3>1
      <3>3. /\ stage' = "answered"
            /\ answer' = [refusal |-> "unit_movement_capacity_insufficient", route |-> <<>>]
        BY <2>1 DEF Refuse
      <3> QED BY <1>2, <3>1, <3>2, <3>3, NoFreeAnswer
    <2>2. CASE stage = "allowance" /\ Blockers(game) = {} /\ Accept(route)
      <3>1. KnownBlockers(game, u, target) = {} /\ targets = {target}
        BY <1>1, <2>2, SearchFacts DEF Blockers, targets
      <3>2. stage' = "answered" /\ answer' = [refusal |-> "", route |-> route]
        BY <2>2 DEF Accept
      <3> QED BY <1>2, <1>4, <2>2, <3>1, <3>2, FreeAnswer
    <2>3. CASE /\ stage = "allowance"
               /\ \E blocker \in Blockers(game) :
                     IF Approaches(game, route, blocker) THEN Accept(route)
                     ELSE Refuse("move_target_occupied")
      <3>1. PICK v \in Blockers(game) :
               IF Approaches(game, route, v) THEN Accept(route)
               ELSE Refuse("move_target_occupied")
        BY <2>3
      <3>2. v \in KnownBlockers(game, u, target) /\ targets = Neighbors(target)
        BY <1>1, <3>1, SearchFacts DEF Blockers, targets
      <3>3. Approaches(game, route, v) <=> EndsWell(game, u, route, v)
        BY DEF Approaches, EndsWell
      <3>4. /\ stage' = "answered"
            /\ EndsWell(game, u, route, v) =>
                  answer' = [refusal |-> "", route |-> route]
            /\ ~EndsWell(game, u, route, v) =>
                  answer' = [refusal |-> "move_target_occupied", route |-> <<>>]
        BY <3>1, <3>3 DEF Accept, Refuse
      <3>5. route \in BestRoutes(game, u, Neighbors(target))
        BY <1>4, <2>3, <3>2
      <3> QED BY <1>2, <3>2, <3>4, <3>5, BlockedAnswer
    <2> QED BY <2>1, <2>2, <2>3 DEF Arrive, route
  <1> QED BY <1>1, <1>5, EndsSearching

LEMMA ExhaustSearches ==
  ASSUME Sound(game), SearchInv, game' = game, Exhaust(game)
  PROVE  SearchInv' /\ (stage' = stage /\ Searching => FALSE)
  <1> DEFINE u == asked.unit
             target == asked.target
             maximum == Ceiling(game)
             targets == Sought(game)
  <1>1. Searching /\ current = 0 /\ frontier = {} /\ asked' = asked
    BY DEF Exhaust
  <1>2. /\ Planning(game, u, maximum) /\ Requested(game, u, target)
        /\ HeapSound(records, best, {}, 0, direction, game, u, maximum, targets)
    BY <1>1, SearchFacts, PopsSearching
  <1>3. Routes(game, u, targets, maximum) = {}
    BY <1>2, NothingFound
  <1>4. stage = "allowance" => BestRoutes(game, u, targets) = {}
    BY <1>1, <1>3, SearchFacts, BestIsLeast
  <1> HIDE DEF maximum, targets
  <1>5. CASE stage = "diagnosis" /\ Refuse("move_path_not_found")
    <2>1. /\ KnownBlockers(game, u, target) = {}
          /\ BestRoutes(game, u, {target}) = {}
          /\ targets = {target} /\ maximum = DearestTile(game, u)
      BY <1>1, <1>5, SearchFacts DEF Blockers, targets, maximum
    <2>2. /\ stage' = "answered"
          /\ answer' = [refusal |-> "move_path_not_found", route |-> <<>>]
      BY <1>5 DEF Refuse
    <2>3. Answers(game, u, target, answer')
      BY <1>2, <1>3, <2>1, <2>2, NoFreeAnswer
    <2> QED BY <1>1, <1>5, <2>2, <2>3, EndsSearching
  <1>6. CASE /\ stage = "allowance" /\ Blockers(game) # {}
             /\ Refuse("move_target_occupied")
    <2>1. KnownBlockers(game, u, target) # {} /\ targets = Neighbors(target)
      BY <1>1, <1>6, SearchFacts DEF Blockers, targets
    <2>2. /\ stage' = "answered"
          /\ answer' = [refusal |-> "move_target_occupied", route |-> <<>>]
      BY <1>6 DEF Refuse
    <2>3. Answers(game, u, target, answer')
      BY <1>2, <1>4, <1>6, <2>1, <2>2, NoBlockedAnswer
    <2> QED BY <1>1, <1>6, <2>2, <2>3, EndsSearching
  <1>7. CASE /\ stage = "allowance" /\ Blockers(game) = {}
             /\ stage' = "diagnosis" /\ Prepare(game, asked.unit)
    <2>1. KnownBlockers(game, u, target) = {} /\ targets = {target}
      BY <1>1, <1>7, SearchFacts DEF Blockers, targets
    <2>2. BestRoutes(game, u, {target}) = {}
      BY <1>4, <1>7, <2>1
    <2>3. SearchInv'
      BY <1>1, <1>2, <1>7, <2>1, <2>2, StartsSearching
    <2> QED BY <1>7, <2>3
  <1> QED BY <1>5, <1>6, <1>7 DEF Exhaust

-----------------------------------------------------------------------------
(* Planning between commands, and the theorems.                            *)

\* The search is asked for, taken a step further, or handed out.
LEMMA SearchIsKept ==
  ASSUME Sound(game), SearchInv, [PlannedNext]_plannedVars
  PROVE  SearchInv' /\ (stage' = stage /\ Searching => best \ frontier \subseteq best')
  <1>1. CASE Command
    <2>1. /\ stage = "idle" /\ stage' = "idle"
      BY <1>1 DEF Command, searchVars
    <2> QED BY <2>1 DEF SearchInv, Searching
  <1>2. ASSUME NEW u \in Units, NEW target \in Tiles, AskPlan(u, target)
        PROVE  SearchInv' /\ (stage' = stage /\ Searching => best \ frontier \subseteq best')
    <2>1. /\ stage = "idle" /\ stage' = "allowance" /\ game' = game
          /\ asked' = [unit |-> u, target |-> target] /\ Prepare(game, u)
          /\ RequestRefusal(game, Owner[u], u, target, game.revision) = ""
      BY <1>2 DEF AskPlan, Ask, ledgerVars
    <2>2. asked'.unit = u /\ asked'.target = target
      BY <2>1
    <2>3. Requested(game, asked'.unit, asked'.target) /\ Prepare(game, asked'.unit)
      BY <2>1, <2>2 DEF Requested
    <2>4. SearchInv'
      BY <2>1, <2>3, StartsSearching
    <2> QED BY <2>1, <2>4
  <1>3. CASE Search
    <2>1. game' = game /\ SearchStep(game)
      BY <1>3 DEF Search, ledgerVars
    <2>2. ASSUME NEW i \in frontier, Drop(i) \/ Expand(game, i)
          PROVE  SearchInv' /\ best \ frontier \subseteq best'
      BY <2>1, <2>2, DropSearches, ExpandSearches
    <2>3. ASSUME NEW i \in frontier, Arrive(game, i)
          PROVE  SearchInv' /\ (stage' = stage => ~Searching)
      <3>1. SearchInv'
        BY <2>1, <2>3, ArriveSearches
      <3>2. stage' = "answered"
        BY <2>3 DEF Arrive, Accept, Refuse
      <3> QED BY <3>1, <3>2 DEF Searching
    <2>4. CASE Examine(game)
      BY <2>1, <2>4, ExamineSearches
    <2>5. CASE Exhaust(game)
      BY <2>1, <2>5, ExhaustSearches
    <2> QED BY <2>1, <2>2, <2>3, <2>4, <2>5 DEF SearchStep
  <1>4. CASE HandOut
    <2>1. stage = "answered" /\ stage' = "idle"
      BY <1>4 DEF HandOut, HandOver
    <2> QED BY <2>1 DEF SearchInv, Searching
  <1>5. CASE UNCHANGED plannedVars
    <2>1. /\ game' = game /\ stage' = stage /\ asked' = asked /\ records' = records
          /\ best' = best /\ frontier' = frontier /\ current' = current
          /\ direction' = direction /\ answer' = answer
      BY <1>5 DEF plannedVars, ledgerVars, searchVars, heap
    <2>2. Ceiling(game)' = Ceiling(game) /\ Sought(game)' = Sought(game)
      BY <2>1 DEF Ceiling, Sought, Blockers
    <2>3. SearchInv'
      BY <2>1, <2>2 DEF SearchInv, Searching
    <2> QED BY <2>1, <2>3
  <1> QED BY <1>1, <1>2, <1>3, <1>4, <1>5 DEF PlannedNext

\* Planning only reads: what the engine does with a planner in it is a turn
\* of the engine without one, so that every theorem about LedgerSpec holds
\* of it.
THEOREM PlanningOnlyReads == PlannedSpec => LedgerSpec
  <1>1. PlannedInit => LedgerInit
    BY DEF PlannedInit
  <1>2. [PlannedNext]_plannedVars => [LedgerNext]_ledgerVars
    BY DEF PlannedNext, Command, AskPlan, Search, HandOut, plannedVars
  <1> QED BY <1>1, <1>2, PTL DEF PlannedSpec, LedgerSpec

\* The search stays sound over every game and every request: each record is
\* come to by an affordable way, every edge from an expanded record has been
\* matched by a record as good, and the heap holds all that is open.
THEOREM SearchInvariant == PlannedSpec => [](IInv /\ SearchInv)
  <1>1. PlannedInit => SearchInv
    BY DEF PlannedInit, SearchInit, SearchInv, Searching
  <1>2. IInv /\ SearchInv /\ [PlannedNext]_plannedVars => SearchInv'
    BY SearchIsKept DEF IInv, TypeOK, Sound
  <1> QED BY <1>1, <1>2, PlanningOnlyReads, LedgersOnlyWatch, EngineInvariant, PTL
       DEF PlannedSpec

\* AnswersArePlans, for every world: the best-first search with its heap
\* answers with a route of least turns, cost and steps, or with the refusal
\* plan_terrain_route owes.
THEOREM SearchAnswersPlans == PlannedSpec => []AnswersArePlans
  <1>1. IInv /\ SearchInv => AnswersArePlans
    BY DEF SearchInv, AnswersArePlans, Answers
  <1> QED BY <1>1, SearchInvariant, PTL

\* SettledStays, for every world: a record that has left the heap as its
\* node's best is never bettered, so that no node is expanded twice.
THEOREM SettledAreFinal == PlannedSpec => SettledStays
  <1>1. IInv /\ SearchInv /\ [PlannedNext]_plannedVars =>
          [stage' = stage /\ Searching => best \ frontier \subseteq best']_plannedVars
    BY SearchIsKept DEF IInv, TypeOK, Sound
  <1> QED BY <1>1, SearchInvariant, PTL DEF PlannedSpec, SettledStays
=============================================================================
