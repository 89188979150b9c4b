---------------------------- MODULE CommandProofs ----------------------------
(***************************************************************************)
(* For every world: what a command makes of a typed, valid game is a       *)
(* typed, valid game.  The lemmas are about the operators of Commands and  *)
(* know nothing of a state machine: GameEngineProofs applies them to the   *)
(* engine and RuntimeProofs to a session.                                  *)
(*                                                                         *)
(* First, for every map: what the recursive definitions of Movement        *)
(* compute.                                                                *)
(*                                                                         *)
(* Validity needs facts about planned routes: they start where the unit    *)
(* stands and every further tile is open to the planner, which with the    *)
(* hidden-occupancy check of the move leaves the tile free.                *)
(***************************************************************************)
EXTENDS Commands, WellFoundedInduction, TLAPS

-----------------------------------------------------------------------------
(* Induction and recursion on numbers.  The library's induction theorems   *)
(* are about operators; these are about sets and functions.                *)

LEMMA LeastNatural ==
  ASSUME NEW S, S \subseteq Nat, S # {}
  PROVE  \E m \in S : \A n \in S : m <= n
  <1>1. PICK R : IsWellFoundedOn(R, Nat) /\ \A a, b \in Nat : a < b => <<a, b>> \in R
    <2>1. IsWellFoundedOn(OpToRel(<, Nat), Nat)
      BY NatLessThanWellFounded
    <2>2. \A a, b \in Nat : a < b => <<a, b>> \in OpToRel(<, Nat)
      BY Zenon DEF OpToRel
    <2> QED BY <2>1, <2>2, Zenon
  <1>2. IsWellFoundedOn(R, Nat)
    BY <1>1
  <1>3. \E m \in S : \A n \in S : ~(<<n, m>> \in R)
    BY <1>2, WFMin, Zenon
  <1>4. PICK m \in S : \A n \in S : ~(<<n, m>> \in R)
    BY <1>3
  <1>5. \A n \in S : n \in Nat /\ m \in Nat /\ ~(n < m)
    BY <1>1, <1>4
  <1> QED BY <1>4, <1>5

\* A set of numbers that holds the first of an interval, and with each number
\* of the interval the next, holds the interval.
LEMMA Induction ==
  ASSUME NEW a \in Int, NEW b \in Int, NEW S, 0 <= a,
         a \in S, \A n \in a + 1 .. b : n - 1 \in S => n \in S
  PROVE  \A n \in a .. b : n \in S
  <1> DEFINE Missing == {n \in a .. b : n \notin S}
  <1> SUFFICES ASSUME Missing # {} PROVE FALSE
    OBVIOUS
  <1>1. Missing \subseteq Nat
    OBVIOUS
  <1>2. PICK m \in Missing : \A n \in Missing : m <= n
    <2> HIDE DEF Missing
    <2> QED BY <1>1, LeastNatural
  <1>3. m \in a .. b /\ m \notin S
    OBVIOUS
  <1>4. m \in a + 1 .. b /\ m - 1 \in a .. b /\ ~(m <= m - 1)
    BY <1>3
  <1>5. m - 1 \in S
    BY <1>2, <1>4
  <1> QED BY <1>3, <1>4, <1>5

\* f is given by recursion up to b.
Follows(f, a, b, base, step) ==
    \A n \in a .. b : f[n] = IF n = a THEN base ELSE step[<<f[n - 1], n>>]

LEMMA Recursion ==
  ASSUME NEW a \in Int, NEW b \in Int, 0 <= a, a <= b,
         NEW D, NEW base \in D, NEW step \in [D \X Nat -> D]
  PROVE  \E f \in [a .. b -> D] : Follows(f, a, b, base, step)
  <1> DEFINE S == {m \in a .. b : \E f \in [a .. m -> D] : Follows(f, a, m, base, step)}
  <1>1. a \in S
    <2> DEFINE f == [n \in a .. a |-> base]
    <2>1. f \in [a .. a -> D] /\ Follows(f, a, a, base, step)
      BY DEF Follows
    <2> QED BY <2>1
  <1>2. ASSUME NEW m \in a + 1 .. b, m - 1 \in S
        PROVE  m \in S
    <2>1. PICK f \in [a .. m - 1 -> D] : Follows(f, a, m - 1, base, step)
      BY <1>2
    <2>2. f[m - 1] \in D /\ m \in Nat
      OBVIOUS
    <2> DEFINE last == step[<<f[m - 1], m>>]
               g == [n \in a .. m |-> IF n = m THEN last ELSE f[n]]
    <2>3. last \in D
      BY <2>2
    <2> HIDE DEF last
    <2>4. g \in [a .. m -> D]
      BY <2>3
    <2>5. ASSUME NEW n \in a .. m
          PROVE  g[n] = IF n = a THEN base ELSE step[<<g[n - 1], n>>]
      <3>1. CASE n = m
        <4>1. g[n] = last /\ g[n - 1] = f[n - 1] /\ n # a
          BY <3>1
        <4> QED BY <3>1, <4>1 DEF last
      <3>2. CASE n # m
        <4>1. n \in a .. m - 1 /\ g[n] = f[n] /\ (n # a => g[n - 1] = f[n - 1])
          BY <3>2
        <4>2. f[n] = IF n = a THEN base ELSE step[<<f[n - 1], n>>]
          BY <2>1, <4>1 DEF Follows
        <4> QED BY <4>1, <4>2
      <3> QED BY <3>1, <3>2
    <2> HIDE DEF g
    <2>6. Follows(g, a, m, base, step)
      BY <2>5 DEF Follows
    <2>7. m \in a .. b
      OBVIOUS
    <2> QED BY <2>4, <2>6, <2>7
  <1>3. b \in a .. b
    OBVIOUS
  <1> HIDE DEF S
  <1>4. b \in S
    BY <1>1, <1>2, <1>3, Induction
  <1> QED BY <1>4 DEF S

-----------------------------------------------------------------------------
(* Paths.                                                                  *)

LEMMA NeighborsAreTiles == \A c : Neighbors(c) \subseteq Tiles
  BY DEF Neighbors

\* A path of at most n tiles over open tiles, each next to the one before,
\* that does not come back to where it starts.
Walk(path, n, start, open) ==
    /\ path \in Seq(Tiles) /\ Len(path) \in 1 .. n /\ path[1] = start
    /\ \A i \in 2 .. Len(path) :
          path[i] \in open /\ path[i] \in Neighbors(path[i - 1]) /\ path[i] # start

LEMMA ExtendedFacts ==
  ASSUME NEW paths, NEW start, NEW open, NEW n \in Nat,
         \A path \in paths : Walk(path, n, start, open)
  PROVE  \A path \in Extended(paths, open) : Walk(path, n + 1, start, open)
  <1> SUFFICES ASSUME NEW path \in Extended(paths, open)
               PROVE  Walk(path, n + 1, start, open)
    OBVIOUS
  <1>1. CASE path \in paths
    BY <1>1 DEF Walk
  <1>2. CASE path \notin paths
    <2>0. PICK shorter \in paths : \E t \in Neighbors(shorter[Len(shorter)]) \cap open :
             path = Append(shorter, t) /\ \A i \in DOMAIN shorter : shorter[i] # t
      BY <1>2 DEF Extended
    <2>1. PICK t \in Neighbors(shorter[Len(shorter)]) \cap open :
             path = Append(shorter, t) /\ \A i \in DOMAIN shorter : shorter[i] # t
      BY <2>0
    <2>2. Walk(shorter, n, start, open) /\ t \in Tiles
      BY <2>1, NeighborsAreTiles
    <2>3. /\ path \in Seq(Tiles) /\ Len(path) = Len(shorter) + 1
          /\ \A i \in 1 .. Len(shorter) : path[i] = shorter[i]
          /\ path[Len(path)] = t
      BY <2>1, <2>2 DEF Walk
    <2>4. Len(shorter) \in 1 .. n
      BY <2>2 DEF Walk
    <2>5. ASSUME NEW i \in 2 .. Len(path)
          PROVE  /\ path[i] \in open /\ path[i] \in Neighbors(path[i - 1])
                 /\ path[i] # start
      <3>1. CASE i = Len(path)
        <4>1. path[i - 1] = shorter[Len(shorter)]
          BY <2>3, <2>4, <3>1
        <4>2. 1 \in DOMAIN shorter /\ shorter[1] = start
          BY <2>2, <2>4 DEF Walk
        <4> QED BY <2>1, <2>3, <3>1, <4>1, <4>2
      <3>2. CASE i # Len(path)
        <4>1. i \in 2 .. Len(shorter) /\ i - 1 \in 1 .. Len(shorter)
          BY <2>3, <2>4, <3>2
        <4> QED BY <2>2, <2>3, <4>1 DEF Walk
      <3> QED BY <3>1, <3>2
    <2>6. Len(path) \in 1 .. n + 1 /\ path[1] = start
      BY <2>2, <2>3, <2>4 DEF Walk
    <2> QED BY <2>3, <2>5, <2>6 DEF Walk
  <1> QED BY <1>1, <1>2

LEMMA ExtendedTyping ==
  ASSUME NEW paths \in SUBSET Seq(Tiles), NEW open
  PROVE  Extended(paths, open) \in SUBSET Seq(Tiles)
  BY NeighborsAreTiles DEF Extended

\* Paths are grown from the tile of departure, tile by tile.
LEMMA PathsGrow ==
  ASSUME NEW start \in Tiles, NEW open
  PROVE  \E grown :
            /\ SimplePaths(start, open) = grown[Cols * Rows]
            /\ grown[1] = {<<start>>}
            /\ \A n \in 2 .. Cols * Rows : grown[n] = Extended(grown[n - 1], open)
  <1> DEFINE N == Cols * Rows
             D == SUBSET Seq(Tiles)
             first == {<<start>>}
             step == [x \in D \X Nat |-> Extended(x[1], open)]
             Grown(f) == f = [n \in 1 .. N |->
                                IF n = 1 THEN first ELSE Extended(f[n - 1], open)]
             grown == CHOOSE f : Grown(f)
  <1>1. N \in Nat /\ N >= 1
    BY GridAssumption
  <1>2. SimplePaths(start, open) = grown[N]
    BY Zenon DEF SimplePaths
  <1> HIDE DEF N
  <1>3. first \in D /\ step \in [D \X Nat -> D]
    BY ExtendedTyping
  <1>4. \E f : Grown(f)
    <2> HIDE DEF D, step, first
    <2>0. 1 \in Int /\ N \in Int /\ 0 <= 1 /\ 1 <= N
      BY <1>1
    <2>1. PICK f \in [1 .. N -> D] : Follows(f, 1, N, first, step)
      BY <1>3, <2>0, Recursion
    <2>2. \A n \in 1 .. N : n # 1 => step[<<f[n - 1], n>>] = Extended(f[n - 1], open)
      <3> SUFFICES ASSUME NEW n \in 1 .. N, n # 1
                   PROVE  step[<<f[n - 1], n>>] = Extended(f[n - 1], open)
        OBVIOUS
      <3>1. <<f[n - 1], n>> \in D \X Nat
        BY <1>1, <2>1
      <3> QED BY <3>1 DEF step
    <2>3. Grown(f)
      BY <2>1, <2>2 DEF Follows
    <2> QED BY <2>3
  <1>5. Grown(grown)
    BY <1>4
  <1> HIDE DEF grown
  <1>6. /\ grown[1] = first
        /\ \A n \in 2 .. N : grown[n] = Extended(grown[n - 1], open)
    <2> HIDE DEF first
    <2> QED BY <1>1, <1>5
  <1> QED BY <1>2, <1>6, Zenon DEF first, N

LEMMA PathFacts ==
  ASSUME NEW start \in Tiles, NEW open, NEW path \in SimplePaths(start, open)
  PROVE  Walk(path, Cols * Rows, start, open)
  <1> DEFINE N == Cols * Rows
  <1>1. N \in Nat /\ N >= 1
    BY GridAssumption
  <1>2. PICK grown : /\ SimplePaths(start, open) = grown[N]
                     /\ grown[1] = {<<start>>}
                     /\ \A n \in 2 .. N : grown[n] = Extended(grown[n - 1], open)
    BY PathsGrow
  <1> HIDE DEF N
  <1> DEFINE S == {n \in 1 .. N : \A p \in grown[n] : Walk(p, n, start, open)}
  <1>7. 1 \in S
    <2>1. Walk(<<start>>, 1, start, open)
      BY DEF Walk
    <2> QED BY <1>1, <1>2, <2>1
  <1>8. ASSUME NEW n \in 1 + 1 .. N, n - 1 \in S
        PROVE  n \in S
    <2>1. grown[n] = Extended(grown[n - 1], open)
      BY <1>2
    <2>2. \A p \in grown[n - 1] : Walk(p, n - 1, start, open)
      BY <1>8
    <2>3. n - 1 \in Nat /\ (n - 1) + 1 = n /\ n \in 1 .. N
      BY <1>1
    <2>4. \A p \in grown[n] : Walk(p, n, start, open)
      BY <2>1, <2>2, <2>3, ExtendedFacts
    <2> QED BY <2>3, <2>4
  <1>9. N \in S
    <2> HIDE DEF S
    <2> QED BY <1>1, <1>7, <1>8, Induction
  <1> QED BY <1>2, <1>9 DEF N

-----------------------------------------------------------------------------
(* Costs.                                                                  *)

LEMMA EnterCostTyping == \A g, u, from, to : EnterCost(g, u, from, to) \in Nat
  <1>1. \A tile : FeatureCost(tile) \in Nat
    BY DEF FeatureCost, PerPoint
  <1>2. \A base : BaseLandCost(base) \in Nat
    BY DEF BaseLandCost, Blocked
  <1>3. \A tile, domain : EntryCost(tile, domain) \in Nat
    BY <1>1, <1>2 DEF EntryCost, Blocked
  <1> QED BY <1>3 DEF EnterCost

LEMMA CostFacts ==
  ASSUME NEW g, NEW u, NEW path \in Seq(Tiles), Len(path) >= 1
  PROVE  /\ CostSoFar(g, u, path)[1] = 0
         /\ \A i \in 2 .. Len(path) :
               CostSoFar(g, u, path)[i]
               = CostSoFar(g, u, path)[i - 1] + EnterCost(g, u, path[i - 1], path[i])
  <1> DEFINE N == Len(path)
             cost(i) == EnterCost(g, u, path[i - 1], path[i])
             step == [x \in Nat \X Nat |-> x[1] + cost(x[2])]
             Sums(f) == f = [i \in 1 .. N |-> IF i = 1 THEN 0 ELSE f[i - 1] + cost(i)]
             total == CHOOSE f : Sums(f)
  <1>1. N \in Nat /\ 1 \in Int /\ N \in Int /\ 0 <= 1 /\ 1 <= N
    OBVIOUS
  <1>2. CostSoFar(g, u, path) = total
    BY Zenon DEF CostSoFar
  <1> HIDE DEF N
  <1>3. 0 \in Nat /\ step \in [Nat \X Nat -> Nat]
    BY EnterCostTyping
  <1>4. \E f : Sums(f)
    <2>1. PICK f \in [1 .. N -> Nat] : Follows(f, 1, N, 0, step)
      <3> HIDE DEF step
      <3> QED BY <1>1, <1>3, Recursion
    <2>2. \A i \in 1 .. N : i # 1 => step[<<f[i - 1], i>>] = f[i - 1] + cost(i)
      <3> SUFFICES ASSUME NEW i \in 1 .. N, i # 1
                   PROVE  step[<<f[i - 1], i>>] = f[i - 1] + cost(i)
        OBVIOUS
      <3>1. <<f[i - 1], i>> \in Nat \X Nat
        BY <1>1, <2>1
      <3> QED BY <3>1
    <2> HIDE DEF step, cost
    <2>3. Sums(f)
      BY <2>1, <2>2 DEF Follows
    <2> QED BY <2>3
  <1>5. Sums(total)
    BY <1>4
  <1> HIDE DEF total, cost
  <1>6. total[1] = 0 /\ \A i \in 2 .. N : total[i] = total[i - 1] + cost(i)
    BY <1>1, <1>5
  <1> QED BY <1>2, <1>6 DEF N, cost

\* A route for u: it starts where u stands, at no cost, and each further step
\* is to a neighbour that is open, and not the tile it starts from, and costs
\* something.
Travels(route, g, u) ==
    /\ route \in Seq(MovementStep)
    /\ Len(route) >= 1 /\ Len(route) <= Cols * Rows
    /\ route[1].tile = Position(g, u) /\ route[1].enter = 0 /\ route[1].cumulative = 0
    /\ \A i \in 2 .. Len(route) :
          /\ route[i].tile \in Open(g, u)
          /\ route[i].tile \in Neighbors(route[i - 1].tile)
          /\ route[i].tile # Position(g, u)
          /\ route[i].enter > 0
          /\ route[i].cumulative = route[i - 1].cumulative + route[i].enter

LEMMA RouteFacts ==
  ASSUME NEW g, NEW u, Position(g, u) \in Tiles, NEW targets, NEW maximum,
         NEW route \in Routes(g, u, targets, maximum)
  PROVE  Travels(route, g, u)
  <1>1. PICK path \in SimplePaths(Position(g, u), Open(g, u)) :
           /\ \A i \in 2 .. Len(path) : CanPay(g, u, path[i - 1], path[i], maximum)
           /\ route = Priced(g, u, path)
    BY DEF Routes
  <1>2. route \in Seq(MovementStep)
    BY DEF Routes
  <1>3. Walk(path, Cols * Rows, Position(g, u), Open(g, u))
    BY PathFacts
  <1>4. /\ path \in Seq(Tiles) /\ Len(path) >= 1 /\ Len(path) <= Cols * Rows
        /\ Len(path) \in Nat /\ path[1] = Position(g, u)
    BY <1>3, GridAssumption DEF Walk
  <1>5. /\ DOMAIN route = 1 .. Len(path)
        /\ \A i \in 1 .. Len(path) :
              /\ route[i].tile = path[i]
              /\ route[i].enter = IF i = 1 THEN 0 ELSE EnterCost(g, u, path[i - 1], path[i])
              /\ route[i].cumulative = CostSoFar(g, u, path)[i]
    BY <1>1 DEF Priced
  <1>6. Len(route) = Len(path)
    BY <1>2, <1>4, <1>5
  <1>7. ASSUME NEW i \in 2 .. Len(route)
        PROVE  /\ route[i].tile \in Open(g, u)
               /\ route[i].tile \in Neighbors(route[i - 1].tile)
               /\ route[i].tile # Position(g, u)
               /\ route[i].enter > 0
               /\ route[i].cumulative = route[i - 1].cumulative + route[i].enter
    <2>1. i \in 2 .. Len(path) /\ i \in 1 .. Len(path) /\ i - 1 \in 1 .. Len(path) /\ i # 1
      BY <1>4, <1>6
    <2>2. EnterCost(g, u, path[i - 1], path[i]) > 0
      <3>1. EnterCost(g, u, path[i - 1], path[i]) # 0
        BY <1>1, <2>1 DEF CanPay, Blocked
      <3> QED BY <3>1, EnterCostTyping
    <2>3. /\ path[i] \in Open(g, u) /\ path[i] \in Neighbors(path[i - 1])
          /\ path[i] # Position(g, u)
      BY <1>3, <2>1 DEF Walk
    <2>4. CostSoFar(g, u, path)[i]
            = CostSoFar(g, u, path)[i - 1] + EnterCost(g, u, path[i - 1], path[i])
      BY <1>4, <2>1, CostFacts
    <2> QED BY <1>5, <2>1, <2>2, <2>3, <2>4
  <1>8. route[1].tile = Position(g, u) /\ route[1].enter = 0 /\ route[1].cumulative = 0
    BY <1>4, <1>5, CostFacts
  <1> QED BY <1>2, <1>4, <1>6, <1>7, <1>8 DEF Travels

LEMMA CostsGrow ==
  ASSUME NEW g, NEW u, NEW route, Travels(route, g, u), NEW k \in 1 .. Len(route)
  PROVE  \A i \in k .. Len(route) : route[k].cumulative <= route[i].cumulative
  <1> DEFINE S == {i \in k .. Len(route) : route[k].cumulative <= route[i].cumulative}
  <1>1. Len(route) \in Nat /\ \A i \in 1 .. Len(route) : route[i] \in MovementStep
    BY DEF Travels
  <1>2. \A i \in 1 .. Len(route) : route[i].cumulative \in Nat /\ route[i].enter \in Nat
    BY <1>1, BalanceAssumption DEF MovementStep
  <1>3. k \in S
    BY <1>1, <1>2
  <1>4. ASSUME NEW i \in k + 1 .. Len(route), i - 1 \in S
        PROVE  i \in S
    <2>1. i \in 2 .. Len(route) /\ i \in 1 .. Len(route) /\ i - 1 \in 1 .. Len(route)
      BY <1>1
    <2>2. route[i].cumulative = route[i - 1].cumulative + route[i].enter
      BY <2>1 DEF Travels
    <2>3. route[k].cumulative <= route[i - 1].cumulative
      BY <1>4
    <2> QED BY <1>1, <1>2, <2>1, <2>2, <2>3
  <1>5. k \in Int /\ Len(route) \in Int /\ 0 <= k
    BY <1>1
  <1>6. \A i \in k .. Len(route) : i \in S
    <2> HIDE DEF S
    <2> QED BY <1>3, <1>4, <1>5, Induction
  <1> QED BY <1>6

\* What is left of a route after any of its steps but the last is a path that
\* QueuedMovePath accepts, rooted where the steps end.
LEMMA RebasedFacts ==
  ASSUME NEW g, NEW u, NEW route, Travels(route, g, u),
         NEW k \in 1 .. Len(route), k # Len(route)
  PROVE  /\ Rebased(route, k) \in Seq(MovementStep)
         /\ Len(Rebased(route, k)) <= Cols * Rows
         /\ ValidQueuedPath(Rebased(route, k))
         /\ Rebased(route, k)[1].tile = route[k].tile
  <1> DEFINE rest == Rebased(route, k)
             N == Len(route) - k + 1
             paid == route[k].cumulative
  <1>1. /\ Len(route) \in Nat /\ Len(route) <= Cols * Rows /\ Cols * Rows \in Nat
        /\ \A i \in 1 .. Len(route) : route[i] \in MovementStep
    BY GridAssumption DEF Travels
  <1>2. \A i \in 1 .. Len(route) :
           /\ route[i].tile \in Tiles
           /\ route[i].enter \in 0 .. MaxCost /\ route[i].cumulative \in 0 .. MaxCost
    BY <1>1 DEF MovementStep
  <1>3. N \in 2 .. Cols * Rows /\ \A i \in 1 .. N : i + k - 1 \in k .. Len(route)
    BY <1>1
  <1>4. \A i \in k .. Len(route) : i \in 1 .. Len(route) /\ paid <= route[i].cumulative
    BY <1>1, CostsGrow
  <1>5. rest = [i \in 1 .. N |->
                  [tile |-> route[i + k - 1].tile,
                   enter |-> IF i = 1 THEN 0 ELSE route[i + k - 1].enter,
                   cumulative |-> route[i + k - 1].cumulative - paid]]
    BY DEF Rebased
  <1> HIDE DEF N, rest
  <1>6. paid \in 0 .. MaxCost
    BY <1>1, <1>2
  <1> HIDE DEF paid
  <1>7. ASSUME NEW i \in 1 .. N
        PROVE  rest[i] \in MovementStep
    <2>1. i + k - 1 \in 1 .. Len(route) /\ paid <= route[i + k - 1].cumulative
      BY <1>3, <1>4
    <2>2. /\ route[i + k - 1].cumulative - paid \in 0 .. MaxCost
          /\ route[i + k - 1].enter \in 0 .. MaxCost /\ 0 \in 0 .. MaxCost
          /\ route[i + k - 1].tile \in Tiles
      BY <1>2, <1>6, <2>1, BalanceAssumption
    <2> QED BY <1>5, <2>2 DEF MovementStep
  <1>8. rest \in Seq(MovementStep) /\ Len(rest) = N
    <2>1. rest \in [1 .. N -> MovementStep]
      BY <1>5, <1>7
    <2>2. N \in Nat
      BY <1>3
    <2> QED BY <2>1, <2>2
  <1>9. /\ rest[1].tile = route[k].tile /\ rest[1].enter = 0 /\ rest[1].cumulative = 0
    <2>1. 1 \in 1 .. N /\ 1 + k - 1 = k
      BY <1>1, <1>3
    <2>2. route[k].cumulative - paid = 0
      BY <1>6 DEF paid
    <2> QED BY <1>5, <2>1, <2>2
  <1>10. ASSUME NEW i \in 2 .. N
         PROVE  /\ rest[i].enter > 0
                /\ rest[i].tile \in Neighbors(rest[i - 1].tile)
                /\ rest[i].cumulative = rest[i - 1].cumulative + rest[i].enter
    <2> DEFINE j == i + k - 1
    <2>1. /\ i \in 1 .. N /\ i - 1 \in 1 .. N /\ i # 1
          /\ (i - 1) + k - 1 = j - 1 /\ j \in 2 .. Len(route)
          /\ j \in 1 .. Len(route) /\ j - 1 \in 1 .. Len(route)
      BY <1>1, <1>3
    <2>2. /\ rest[i].tile = route[j].tile /\ rest[i].enter = route[j].enter
          /\ rest[i].cumulative = route[j].cumulative - paid
          /\ rest[i - 1].tile = route[j - 1].tile
          /\ rest[i - 1].cumulative = route[j - 1].cumulative - paid
      BY <1>5, <2>1
    <2> HIDE DEF j
    <2>3. /\ route[j].tile \in Neighbors(route[j - 1].tile) /\ route[j].enter > 0
          /\ route[j].cumulative = route[j - 1].cumulative + route[j].enter
      BY <2>1 DEF Travels
    <2>4. /\ route[j].cumulative \in Nat /\ route[j].enter \in Nat
          /\ route[j - 1].cumulative \in Nat /\ paid \in Nat
      BY <1>2, <1>6, <2>1
    <2> DEFINE here == route[j].cumulative
               before == route[j - 1].cumulative
               entered == route[j].enter
    <2>5. /\ here \in Nat /\ entered \in Nat /\ before \in Nat /\ paid \in Nat
          /\ entered > 0 /\ here = before + entered
      BY <2>3, <2>4
    <2>6. here - paid = (before - paid) + entered
      <3> HIDE DEF here, before, entered, paid
      <3> QED BY <2>5
    <2> QED BY <2>2, <2>3, <2>6
  <1>11. ValidQueuedPath(rest)
    BY <1>3, <1>8, <1>9, <1>10 DEF ValidQueuedPath
  <1> QED BY <1>3, <1>8, <1>9, <1>11 DEF rest

-----------------------------------------------------------------------------
(* Turns.                                                                  *)

PaceRecord == [turns : Nat, remaining : Nat]

\* The step of the recursion of Pace: onto the i-th tile, at a cost.
Onward(before, i, cost, maximum) ==
    LET turns == IF i = 2 THEN 1 ELSE before.turns
    IN  IF cost <= before.remaining
        THEN [turns |-> turns, remaining |-> before.remaining - cost]
        ELSE IF before.remaining > 0 THEN [turns |-> turns, remaining |-> 0]
        ELSE [turns |-> turns + 1,
              remaining |-> IF cost <= maximum THEN maximum - cost ELSE 0]

LEMMA OnwardTyping ==
  ASSUME NEW before \in PaceRecord, NEW i, NEW cost \in Nat, NEW maximum \in Nat
  PROVE  Onward(before, i, cost, maximum) \in PaceRecord
  <1> DEFINE turns == IF i = 2 THEN 1 ELSE before.turns
  <1>1. before.turns \in Nat /\ before.remaining \in Nat /\ turns \in Nat /\ turns + 1 \in Nat
    BY DEF PaceRecord
  <1> HIDE DEF turns
  <1>2. cost <= before.remaining => before.remaining - cost \in Nat
    BY <1>1
  <1>3. (IF cost <= maximum THEN maximum - cost ELSE 0) \in Nat
    OBVIOUS
  <1>4. Onward(before, i, cost, maximum) =
           IF cost <= before.remaining
           THEN [turns |-> turns, remaining |-> before.remaining - cost]
           ELSE IF before.remaining > 0 THEN [turns |-> turns, remaining |-> 0]
           ELSE [turns |-> turns + 1,
                 remaining |-> IF cost <= maximum THEN maximum - cost ELSE 0]
    BY DEF Onward, turns
  <1> QED BY <1>1, <1>2, <1>3, <1>4 DEF PaceRecord

LEMMA PaceFacts ==
  ASSUME NEW route \in Seq(MovementStep), Len(route) >= 1,
         NEW available \in Nat, NEW maximum \in Nat
  PROVE  /\ \A i \in 1 .. Len(route) : Pace(route, available, maximum)[i] \in PaceRecord
         /\ Pace(route, available, maximum)[1] = [turns |-> 0, remaining |-> available]
         /\ \A i \in 2 .. Len(route) :
               Pace(route, available, maximum)[i]
               = Onward(Pace(route, available, maximum)[i - 1], i, route[i].enter, maximum)
  <1> DEFINE N == Len(route)
             first == [turns |-> 0, remaining |-> available]
             next(before, i) == Onward(before, i, route[i].enter, maximum)
             step == [x \in PaceRecord \X Nat |->
                        IF x[2] \in 1 .. N THEN next(x[1], x[2]) ELSE first]
             Paces(f) == f = [i \in 1 .. N |->
                 IF i = 1 THEN first
                 ELSE LET before == f[i - 1]
                          cost == route[i].enter
                          turns == IF i = 2 THEN 1 ELSE before.turns
                      IN  IF cost <= before.remaining
                          THEN [turns |-> turns, remaining |-> before.remaining - cost]
                          ELSE IF before.remaining > 0
                          THEN [turns |-> turns, remaining |-> 0]
                          ELSE [turns |-> turns + 1,
                                remaining |-> IF cost <= maximum THEN maximum - cost ELSE 0]]
             pace == CHOOSE f : Paces(f)
  <1>1. N \in Nat /\ 1 \in Int /\ N \in Int /\ 0 <= 1 /\ 1 <= N
    OBVIOUS
  <1>2. Pace(route, available, maximum) = pace
    BY Zenon DEF Pace
  <1>3. \A i \in 1 .. N : route[i].enter \in Nat
    <2>1. \A i \in 1 .. N : route[i] \in MovementStep
      OBVIOUS
    <2> QED BY <2>1, BalanceAssumption DEF MovementStep
  <1> HIDE DEF N
  <1>4. first \in PaceRecord
    BY DEF PaceRecord
  <1>5. step \in [PaceRecord \X Nat -> PaceRecord]
    <2> HIDE DEF first
    <2>1. ASSUME NEW x \in PaceRecord \X Nat
          PROVE  (IF x[2] \in 1 .. N THEN next(x[1], x[2]) ELSE first) \in PaceRecord
      BY <1>3, <1>4, OnwardTyping
    <2> HIDE DEF next
    <2> QED BY <2>1
  <1>6. \E f \in [1 .. N -> PaceRecord] : Paces(f)
    <2>1. PICK f \in [1 .. N -> PaceRecord] : Follows(f, 1, N, first, step)
      <3> HIDE DEF step, first
      <3> QED BY <1>1, <1>4, <1>5, Recursion
    <2>2. \A i \in 1 .. N : i # 1 => step[<<f[i - 1], i>>] = next(f[i - 1], i)
      <3> SUFFICES ASSUME NEW i \in 1 .. N, i # 1
                   PROVE  step[<<f[i - 1], i>>] = next(f[i - 1], i)
        OBVIOUS
      <3>1. <<f[i - 1], i>> \in PaceRecord \X Nat
        BY <1>1, <2>1
      <3> HIDE DEF first, next
      <3> QED BY <3>1
    <2>3. \A i \in 1 .. N : f[i] = IF i = 1 THEN first ELSE next(f[i - 1], i)
      <3> HIDE DEF step, next, first
      <3> QED BY <2>1, <2>2 DEF Follows
    <2> HIDE DEF step, first
    <2>4. Paces(f)
      BY <2>1, <2>3 DEF Onward
    <2> QED BY <2>4
  <1>7. Paces(pace)
    BY <1>6
  <1> HIDE DEF pace, first
  <1>8. pace[1] = first /\ \A i \in 2 .. N : pace[i] = next(pace[i - 1], i)
    <2>1. pace[1] = first
      BY <1>1, <1>7
    <2>2. ASSUME NEW i \in 2 .. N
          PROVE  pace[i] = next(pace[i - 1], i)
      <3>1. i \in 1 .. N /\ i # 1
        BY <1>1, <2>2
      <3>2. pace[i] = LET before == pace[i - 1]
                          cost == route[i].enter
                          turns == IF i = 2 THEN 1 ELSE before.turns
                      IN  IF cost <= before.remaining
                          THEN [turns |-> turns, remaining |-> before.remaining - cost]
                          ELSE IF before.remaining > 0
                          THEN [turns |-> turns, remaining |-> 0]
                          ELSE [turns |-> turns + 1,
                                remaining |-> IF cost <= maximum
                                              THEN maximum - cost ELSE 0]
        BY <1>7, <3>1
      <3> QED BY <3>2 DEF Onward
    <2> QED BY <2>1, <2>2
  <1> HIDE DEF next
  <1> DEFINE S == {i \in 1 .. N : pace[i] \in PaceRecord}
  <1>9. 1 \in S
    BY <1>1, <1>4, <1>8
  <1>10. ASSUME NEW i \in 1 + 1 .. N, i - 1 \in S
         PROVE  i \in S
    <2>1. pace[i] = next(pace[i - 1], i) /\ pace[i - 1] \in PaceRecord
      BY <1>8, <1>10
    <2>2. i \in 1 .. N
      BY <1>1
    <2> QED BY <1>3, <2>1, <2>2, OnwardTyping DEF next
  <1>11. \A i \in 1 .. N : i \in S
    <2> HIDE DEF S
    <2> QED BY <1>1, <1>9, <1>10, Induction
  <1> QED BY <1>2, <1>8, <1>11 DEF N, first, next

\* The costs of a route's steps are numbers.
LEMMA CostTyping ==
  ASSUME NEW g, NEW u, NEW route, Travels(route, g, u)
  PROVE  /\ Len(route) \in Nat /\ Len(route) >= 1 /\ DOMAIN route = 1 .. Len(route)
         /\ \A i \in 1 .. Len(route) :
               route[i].cumulative \in Nat /\ route[i].enter \in Nat
  <1>1. Len(route) \in Nat /\ \A i \in 1 .. Len(route) : route[i] \in MovementStep
    BY DEF Travels
  <1>2. \A i \in 1 .. Len(route) : route[i].cumulative \in Nat /\ route[i].enter \in Nat
    BY <1>1, BalanceAssumption DEF MovementStep
  <1> QED BY <1>1, <1>2 DEF Travels

\* A route is the turn's as a whole exactly when movement is left at each of
\* its tiles but the last.
LEMMA WholeRouteIffMovementLeft ==
  ASSUME NEW g, NEW u, NEW route, Travels(route, g, u), NEW available \in Nat
  PROVE  Len(route) \in ReachedIndex(route, available)
         <=> \A i \in 1 .. Len(route) - 1 : route[i].cumulative < available
  <1>1. /\ Len(route) \in Nat /\ Len(route) >= 1 /\ DOMAIN route = 1 .. Len(route)
        /\ \A i \in 1 .. Len(route) :
              route[i].cumulative \in Nat /\ route[i].enter \in Nat
    BY CostTyping
  <1>2. ASSUME NEW i \in 2 .. Len(route)
        PROVE  PaidFor(route[i], available) <=> route[i - 1].cumulative < available
    <2>1. i \in 1 .. Len(route) /\ i - 1 \in 1 .. Len(route)
      BY <1>1
    <2>2. route[i].enter > 0 /\ route[i].cumulative = route[i - 1].cumulative + route[i].enter
      BY DEF Travels
    <2>3. /\ route[i].cumulative \in Nat /\ route[i].enter \in Nat
          /\ route[i - 1].cumulative \in Nat
      BY <1>1, <2>1
    <2> DEFINE here == route[i].cumulative
               before == route[i - 1].cumulative
               entered == route[i].enter
    <2>4. /\ here \in Nat /\ entered \in Nat /\ before \in Nat
          /\ entered > 0 /\ here = before + entered
      BY <2>2, <2>3
    <2> HIDE DEF here, before, entered
    <2>5. (here <= available \/ here - entered < available) <=> before < available
      BY <2>4
    <2> QED BY <2>5 DEF PaidFor, here, before, entered
  <1>3. Len(route) \in ReachedIndex(route, available)
        <=> \A i \in 2 .. Len(route) : PaidFor(route[i], available)
    BY <1>1 DEF ReachedIndex
  <1>4. ASSUME \A i \in 2 .. Len(route) : route[i - 1].cumulative < available,
               NEW i \in 1 .. Len(route) - 1
        PROVE  route[i].cumulative < available
    <2>1. i + 1 \in 2 .. Len(route) /\ (i + 1) - 1 = i
      BY <1>1
    <2> QED BY <1>4, <2>1
  <1>5. ASSUME \A i \in 1 .. Len(route) - 1 : route[i].cumulative < available,
               NEW i \in 2 .. Len(route)
        PROVE  route[i - 1].cumulative < available
    <2>1. i - 1 \in 1 .. Len(route) - 1
      BY <1>1
    <2> QED BY <1>5, <2>1
  <1> QED BY <1>2, <1>3, <1>4, <1>5

\* One step of a route, while the turn lasts.
LEMMA PaceOfAStep ==
  ASSUME NEW g, NEW u, NEW route, Travels(route, g, u),
         NEW available \in Nat, NEW maximum \in Nat, NEW i \in 2 .. Len(route),
         NEW before \in PaceRecord, i = 2 \/ before.turns = 1,
         before.remaining = Remaining(available, route[i - 1].cumulative),
         NEW after, after = Onward(before, i, route[i].enter, maximum)
  PROVE  /\ route[i - 1].cumulative < available =>
               /\ after.turns = 1
               /\ after.remaining = Remaining(available, route[i].cumulative)
         /\ ~(route[i - 1].cumulative < available) => after.turns = 2
  <1> DEFINE spent == route[i - 1].cumulative
             cost == route[i].enter
             turns == IF i = 2 THEN 1 ELSE before.turns
  <1>1. Len(route) \in Nat /\ i \in 1 .. Len(route) /\ i - 1 \in 1 .. Len(route)
    BY CostTyping
  <1>2. spent \in Nat /\ cost \in Nat /\ cost > 0 /\ route[i].cumulative = spent + cost
    <2>1. cost > 0 /\ route[i].cumulative = spent + cost
      BY DEF Travels
    <2> QED BY <1>1, <2>1, CostTyping
  <1>3. turns = 1
    OBVIOUS
  <1>4. after = IF cost <= before.remaining
                THEN [turns |-> turns, remaining |-> before.remaining - cost]
                ELSE IF before.remaining > 0 THEN [turns |-> turns, remaining |-> 0]
                ELSE [turns |-> turns + 1,
                      remaining |-> IF cost <= maximum THEN maximum - cost ELSE 0]
    BY DEF Onward
  <1>5. before.remaining = IF spent <= available THEN available - spent ELSE 0
    BY DEF Remaining
  <1>6. Remaining(available, route[i].cumulative) =
           IF spent + cost <= available THEN available - (spent + cost) ELSE 0
    BY <1>2 DEF Remaining
  <1> HIDE DEF turns, spent, cost
  <1>7. ASSUME spent < available
        PROVE  /\ after.turns = 1
               /\ after.remaining = Remaining(available, route[i].cumulative)
    <2>1. before.remaining = available - spent /\ before.remaining > 0
      BY <1>2, <1>5, <1>7
    <2>2. after.turns = 1
      BY <1>3, <1>4, <2>1
    <2>3. after.remaining = IF cost <= before.remaining THEN before.remaining - cost ELSE 0
      BY <1>4, <2>1
    <2>4. (cost <= before.remaining) <=> (spent + cost <= available)
      BY <1>2, <2>1
    <2>5. before.remaining - cost = available - (spent + cost)
      BY <1>2, <2>1
    <2>6. after.remaining = IF spent + cost <= available
                            THEN available - (spent + cost) ELSE 0
      BY <2>3, <2>4, <2>5
    <2> QED BY <1>6, <2>2, <2>6
  <1>8. ASSUME ~(spent < available)
        PROVE  after.turns = 2
    <2>1. before.remaining = 0 /\ ~(cost <= before.remaining)
      BY <1>2, <1>5, <1>8
    <2> QED BY <1>3, <1>4, <2>1
  <1> QED BY <1>7, <1>8 DEF spent

\* A route takes one turn exactly when movement is left at each of its tiles
\* but the last.
LEMMA OneTurnIffMovementLeft ==
  ASSUME NEW g, NEW u, NEW route, Travels(route, g, u), Len(route) >= 2,
         NEW available \in Nat, NEW maximum \in Nat,
         NEW turns, turns = Pace(route, available, maximum)[Len(route)].turns
  PROVE  /\ turns \in Nat
         /\ (\A i \in 1 .. Len(route) - 1 : route[i].cumulative < available) => turns = 1
         /\ turns <= 1 =>
               \A i \in 1 .. Len(route) - 1 : route[i].cumulative < available
  <1> DEFINE N == Len(route)
             pace == Pace(route, available, maximum)
             left(i) == pace[i].remaining = Remaining(available, route[i].cumulative)
             next(i) == Onward(pace[i - 1], i, route[i].enter, maximum)
  <1>1. /\ N \in Nat /\ N >= 2 /\ route \in Seq(MovementStep) /\ N \in 1 .. N
        /\ 1 \in Int /\ N \in Int /\ 0 <= 1 /\ 1 \in 1 .. N
    BY CostTyping DEF Travels
  <1>2. /\ \A i \in 1 .. N : pace[i] \in PaceRecord
        /\ pace[1] = [turns |-> 0, remaining |-> available]
        /\ \A i \in 2 .. N : pace[i] = next(i)
    BY <1>1, PaceFacts
  <1>3. turns = pace[N].turns
    OBVIOUS
  <1>4. \A i \in 1 .. N : pace[i].turns \in Nat /\ pace[i].remaining \in Nat
    BY <1>2 DEF PaceRecord
  <1>5. left(1)
    <2>1. route[1].cumulative = 0 /\ pace[1].remaining = available
      BY <1>2 DEF Travels
    <2> HIDE DEF pace
    <2> QED BY <2>1 DEF Remaining
  <1> HIDE DEF pace, N
  <1>6. ASSUME NEW i \in 2 .. N, left(i - 1), i = 2 \/ pace[i - 1].turns = 1
        PROVE  /\ route[i - 1].cumulative < available => pace[i].turns = 1 /\ left(i)
               /\ ~(route[i - 1].cumulative < available) => pace[i].turns = 2
    <2>1. pace[i - 1] \in PaceRecord /\ pace[i] = next(i) /\ i \in 2 .. Len(route)
      BY <1>1, <1>2 DEF N
    <2> QED BY <1>6, <2>1, PaceOfAStep
  <1> HIDE DEF left
  <1>7. ASSUME \A i \in 1 .. N - 1 : route[i].cumulative < available
        PROVE  turns = 1
    <2> DEFINE S == {i \in 1 .. N : left(i) /\ (i # 1 => pace[i].turns = 1)}
    <2>1. 1 \in S
      BY <1>1, <1>5
    <2>2. ASSUME NEW i \in 1 + 1 .. N, i - 1 \in S
          PROVE  i \in S
      <3>1. i \in 2 .. N /\ i \in 1 .. N /\ i - 1 \in 1 .. N - 1 /\ (i = 2 \/ i - 1 # 1)
        BY <1>1
      <3>2. left(i - 1) /\ (i - 1 # 1 => pace[i - 1].turns = 1)
        BY <2>2
      <3>3. route[i - 1].cumulative < available
        BY <1>7, <3>1
      <3>4. pace[i].turns = 1 /\ left(i)
        BY <1>6, <3>1, <3>2, <3>3
      <3> QED BY <3>1, <3>4
    <2> HIDE DEF S
    <2>3. N \in S
      BY <1>1, <2>1, <2>2, Induction
    <2> QED BY <1>1, <1>3, <2>3 DEF S
  <1>8. ASSUME turns <= 1
        PROVE  \A i \in 1 .. N - 1 : route[i].cumulative < available
    <2>1. ASSUME NEW i \in 2 .. N
          PROVE  pace[i - 1].turns <= pace[i].turns
      <3>1. i - 1 \in 1 .. N /\ pace[i] = next(i) /\ (i = 2 => i - 1 = 1)
        BY <1>1, <1>2
      <3>2. pace[i - 1].turns \in Nat /\ pace[i - 1].remaining \in Nat
        BY <1>4, <3>1
      <3>3. pace[i].turns = (IF i = 2 THEN 1 ELSE pace[i - 1].turns)
            \/ pace[i].turns = (IF i = 2 THEN 1 ELSE pace[i - 1].turns) + 1
        BY <3>1 DEF Onward
      <3>4. i = 2 => pace[i - 1].turns = 0
        BY <1>2, <3>1
      <3> QED BY <3>2, <3>3, <3>4
    <2> DEFINE S == {i \in 1 .. N : /\ left(i) /\ (i # 1 => pace[i].turns = 1)
                                    /\ \A j \in 1 .. i - 1 : route[j].cumulative < available}
    <2>2. 1 \in S
      BY <1>1, <1>5
    <2>3. ASSUME NEW i \in 1 + 1 .. N, i - 1 \in S
          PROVE  i \in S
      <3>1. i \in 2 .. N /\ i \in 1 .. N /\ i - 1 \in 1 .. N - 1 /\ (i = 2 \/ i - 1 # 1)
        BY <1>1
      <3>2. /\ left(i - 1) /\ (i - 1 # 1 => pace[i - 1].turns = 1)
            /\ \A j \in 1 .. i - 1 - 1 : route[j].cumulative < available
        BY <2>3
      <3>3. pace[i].turns <= 1
        <4> DEFINE T == {j \in i .. N : pace[i].turns <= pace[j].turns}
        <4>1. i \in T
          BY <1>1, <1>4, <3>1
        <4>2. ASSUME NEW j \in i + 1 .. N, j - 1 \in T
              PROVE  j \in T
          <5>1. j \in 2 .. N /\ j \in 1 .. N /\ j - 1 \in 1 .. N /\ j \in i .. N
            BY <1>1, <3>1
          <5>2. pace[i].turns <= pace[j - 1].turns /\ pace[j - 1].turns <= pace[j].turns
            BY <2>1, <4>2, <5>1
          <5>3. pace[i].turns \in Nat /\ pace[j - 1].turns \in Nat /\ pace[j].turns \in Nat
            BY <1>4, <3>1, <5>1
          <5>4. pace[i].turns <= pace[j].turns
            BY <5>2, <5>3
          <5> QED BY <5>1, <5>4
        <4>3. i \in Int /\ 0 <= i /\ N \in i .. N
          BY <1>1, <3>1
        <4> HIDE DEF T
        <4>4. N \in T
          BY <1>1, <4>1, <4>2, <4>3, Induction
        <4>5. pace[i].turns <= pace[N].turns
          BY <4>4 DEF T
        <4> QED BY <1>1, <1>3, <1>4, <1>8, <3>1, <4>5
      <3>4. route[i - 1].cumulative < available
        <4>1. pace[i].turns # 2
          BY <1>4, <3>1, <3>3
        <4> QED BY <1>6, <3>1, <3>2, <4>1
      <3>5. pace[i].turns = 1 /\ left(i)
        BY <1>6, <3>1, <3>2, <3>4
      <3>6. \A j \in 1 .. i - 1 : route[j].cumulative < available
        <4>1. \A j \in 1 .. i - 1 : j = i - 1 \/ j \in 1 .. i - 1 - 1
          BY <3>1
        <4> QED BY <3>2, <3>4, <4>1
      <3> QED BY <3>1, <3>5, <3>6
    <2> HIDE DEF S
    <2>4. N \in S
      BY <1>1, <2>2, <2>3, Induction
    <2> QED BY <2>4 DEF S
  <1>9. turns \in Nat
    BY <1>1, <1>3, <1>4
  <1> QED BY <1>7, <1>8, <1>9 DEF N

-----------------------------------------------------------------------------
(* Sight.                                                                  *)

LEMMA SourceSeesTiles ==
  ASSUME NEW origin \in Tiles, NEW range, NEW height
  PROVE  VisibleFromSource(origin, range, height) \subseteq Tiles
  <1>1. {origin} \cup Neighbors(origin) \subseteq Tiles
    BY NeighborsAreTiles
  <1> QED BY <1>1 DEF VisibleFromSource

-----------------------------------------------------------------------------
(* Typing of the pieces of a game.                                         *)

LEMMA UnitTyping ==
  ASSUME NEW g \in Game, NEW u \in Units
  PROVE  /\ g.units \in [Units -> Unit]
         /\ g.units[u] \in Unit
         /\ Position(g, u) \in Tiles
         /\ g.units[u].movement \in 0 .. MovementLimit
         /\ g.units[u].queued \in Seq(MovementStep)
  BY DEF Game, Unit, Position

LEMMA EmptyPath == <<>> \in Seq(MovementStep)
  OBVIOUS

LEMMA RevisionTyping ==
  ASSUME NEW g \in Game
  PROVE  /\ g.revision \in 0 .. MaxRevision
         /\ g.revision # MaxRevision => g.revision < MaxRevision
         /\ g.revision < MaxRevision => g.revision + 1 \in 0 .. MaxRevision
  <1>1. g.revision \in 0 .. MaxRevision
    BY DEF Game
  <1> QED BY <1>1, PolicyAssumption

LEMMA AvailableTyping ==
  ASSUME NEW g \in Game, NEW u \in Units
  PROVE  /\ MaximumMovement(g, u) \in 0 .. MovementLimit
         /\ Available(g, u) \in 0 .. MovementLimit
  <1>1. MaximumMovement(g, u) \in 0 .. MovementLimit
    BY BalanceAssumption DEF MaximumMovement
  <1> QED BY <1>1, UnitTyping DEF Available

LEMMA AllowanceTyping ==
  ASSUME NEW g \in Game, NEW u \in Units
  PROVE  MaximumMovement(g, u) \in Nat /\ Available(g, u) \in Nat
  <1>1. \A n \in 0 .. MovementLimit : n \in Nat
    BY BalanceAssumption
  <1> QED BY <1>1, AvailableTyping

LEMMA RemainingTyping ==
  ASSUME NEW available \in 0 .. MovementLimit, NEW spent \in Nat
  PROVE  /\ Remaining(available, spent) \in 0 .. MovementLimit
         /\ available = 0 => Remaining(available, spent) = 0
  BY BalanceAssumption DEF Remaining

LEMMA SightTyping ==
  ASSUME NEW g \in Game, NEW p \in Players
  PROVE  SeenBy(g, p) \subseteq Tiles
  <1> DEFINE FromUnits ==
        {VisibleFromSource(Position(g, u), SightRange(Position(g, u)),
                           TileTerrain[Position(g, u)].height) :
            u \in {v \in Units : Owner[v] = p}}
  <1> DEFINE FromCenters ==
        {VisibleFromSource(CityCenter[c], CityCenterVisionRange, 0) :
            c \in {d \in g.cities : CityOwner[d] = p}}
  <1> DEFINE FromHexes ==
        {UNION {VisibleFromSource(hex, 0, 0) : hex \in CityHexes[c]} :
            c \in {d \in g.cities : CityOwner[d] = p}}
  <1>0. g.cities \subseteq Cities
    BY DEF Game
  <1>1. \A S \in FromUnits : S \subseteq Tiles
    BY SourceSeesTiles, UnitTyping
  <1>2. \A S \in FromCenters : S \subseteq Tiles
    BY <1>0, SourceSeesTiles, WorldAssumption
  <1>3. \A S \in FromHexes : S \subseteq Tiles
    <2> SUFFICES ASSUME NEW c \in g.cities
                 PROVE  UNION {VisibleFromSource(hex, 0, 0) : hex \in CityHexes[c]}
                            \subseteq Tiles
      OBVIOUS
    <2>1. CityHexes[c] \subseteq Tiles
      BY <1>0, WorldAssumption
    <2> QED BY <2>1, SourceSeesTiles
  <1>4. SeenBy(g, p) = UNION (FromUnits \cup FromCenters \cup FromHexes)
    BY DEF SeenBy
  <1> HIDE DEF FromUnits, FromCenters, FromHexes
  <1> QED BY <1>1, <1>2, <1>3, <1>4

LEMMA FogTyping ==
  ASSUME NEW g \in Game, NEW p \in Players
  PROVE  RecomputedFog(g, p) \in [Players -> PlayerFog]
  <1>1. SeenBy(g, p) \subseteq Tiles
    BY SightTyping
  <1>2. g.fog \in [Players -> PlayerFog]
    BY DEF Game
  <1>3. g.fog[p].discovered \subseteq Tiles
    BY <1>2 DEF PlayerFog
  <1> QED BY <1>1, <1>2, <1>3 DEF RecomputedFog, PlayerFog

-----------------------------------------------------------------------------
(* Routes.                                                                 *)

\* A planned route starts at the unit and goes over open tiles only.
LEMMA PlannedFacts ==
  ASSUME NEW g \in Game, NEW u \in Units, NEW target,
         NEW route \in PlannedRoutes(g, u, target)
  PROVE  /\ Travels(route, g, u)
         /\ route \in Seq(MovementStep) /\ Len(route) >= 1
         /\ route[1].tile = Position(g, u)
         /\ \A i \in 2 .. Len(route) : route[i].tile \in Open(g, u)
  <1>1. PICK targets : route \in BestRoutes(g, u, targets)
    BY DEF PlannedRoutes
  <1>2. route \in Routes(g, u, targets, MaximumMovement(g, u))
    BY <1>1 DEF BestRoutes
  <1>3. Position(g, u) \in Tiles
    BY UnitTyping
  <1> QED BY <1>2, <1>3, RouteFacts DEF Travels

\* Some prefix of every route is what the turn pays for: up to the first
\* step that is not paid for, or all of it.
LEMMA TurnReachesSomewhere ==
  ASSUME NEW route \in Seq(MovementStep), Len(route) >= 1, NEW available
  PROVE  ReachedIndex(route, available) # {}
  <1> DEFINE unpaid == {i \in 2 .. Len(route) : ~PaidFor(route[i], available)}
  <1>1. Len(route) \in Nat /\ DOMAIN route = 1 .. Len(route)
    OBVIOUS
  <1>2. CASE unpaid = {}
    <2>1. Len(route) \in ReachedIndex(route, available)
      BY <1>1, <1>2 DEF ReachedIndex
    <2> QED BY <2>1
  <1>3. CASE unpaid # {}
    <2>0. unpaid \subseteq Nat
      BY <1>1
    <2>1. PICK m \in unpaid : \A n \in unpaid : m <= n
      <3> HIDE DEF unpaid
      <3> QED BY <1>3, <2>0, LeastNatural
    <2>2. m \in 2 .. Len(route) /\ ~PaidFor(route[m], available)
      OBVIOUS
    <2>3. \A i \in 2 .. m - 1 : PaidFor(route[i], available)
      BY <1>1, <2>1, <2>2
    <2>4. m - 1 \in 1 .. Len(route) /\ (m - 1) + 1 = m
      BY <1>1, <2>2
    <2>5. m - 1 \in ReachedIndex(route, available)
      BY <1>1, <2>2, <2>3, <2>4 DEF ReachedIndex
    <2> QED BY <2>5
  <1> QED BY <1>2, <1>3

\* Where an unhindered move stops there is no other unit.
LEMMA StopsOnFreeTile ==
  ASSUME NEW g \in Game, NEW u \in Units, NEW target,
         NEW route \in PlannedRoutes(g, u, target),
         NEW k \in 2 .. Len(route),
         ~HiddenBlocker(g, u, route, k),
         NEW v \in Units \ {u}
  PROVE  \A i \in 2 .. k : Position(g, v) # route[i].tile
  <1> SUFFICES ASSUME NEW i \in 2 .. k, Position(g, v) = route[i].tile
               PROVE  FALSE
    OBVIOUS
  <1>0. Len(route) \in Nat
    BY PlannedFacts
  <1>1. route[i].tile \in Open(g, u)
    BY <1>0, PlannedFacts
  <1>2. ~Observes(g, u, v)
    BY <1>1 DEF Open, KnownOccupied
  <1>3. Owner[v] # Owner[u]
    BY <1>2 DEF Observes
  <1> QED BY <1>2, <1>3 DEF HiddenBlocker

-----------------------------------------------------------------------------
(* The candidates: what each accepted command makes of a valid game is a   *)
(* typed, valid game.                                                      *)

Sound(g) == g \in Game /\ ValidGame(g)

\* A unit that moved, waited for the next turn or ran into hidden occupancy.
LEMMA MovedUnitFacts ==
  ASSUME NEW g, Sound(g), NEW u \in Units, NEW target,
         NEW route \in PlannedRoutes(g, u, target),
         NEW k \in ReachedIndex(route, Available(g, u)),
         Queueable(g, u, route, k)
  PROVE  LET unit == MovedUnit(g, u, route, k)
         IN  /\ unit \in Unit
             /\ unit.carried = g.units[u].carried
             /\ unit.excavating = g.units[u].excavating
             /\ unit.posture = "active"
             /\ unit.queued # <<>> =>
                    ValidQueuedPath(unit.queued) /\ unit.queued[1].tile = unit.position
             /\ g.units[u].movement = 0 /\ g.units[u].posture = "active"
                    => unit.movement = 0
             /\ \A v \in Units \ {u} :
                    Position(g, v) = unit.position => Position(g, v) = Position(g, u)
  <1> DEFINE unit == MovedUnit(g, u, route, k)
             old == g.units[u]
             next == AfterMovement(old, route[k].tile,
                         Remaining(Available(g, u), route[k].cumulative),
                         IF k = Len(route) THEN <<>> ELSE Rebased(route, k))
             still == AfterMovement(old, old.position, old.movement, old.queued)
  <1>1. g \in Game /\ ValidUnits(g)
    BY DEF Sound, ValidGame
  <1>2. old \in Unit
    BY <1>1, UnitTyping
  <1>3. /\ route \in Seq(MovementStep) /\ Len(route) >= 1
        /\ route[1].tile = Position(g, u)
    BY <1>1, PlannedFacts
  <1>4. k \in 1 .. Len(route)
    BY <1>3 DEF ReachedIndex
  <1>5. route[k] \in MovementStep
    BY <1>3, <1>4
  <1>6. unit = IF HiddenBlocker(g, u, route, k) THEN still ELSE next
    BY DEF MovedUnit
  <1>7. "active" \in Postures
    BY DEF Postures
  <1>8. CASE HiddenBlocker(g, u, route, k)
    <2>1. still \in Unit
      BY <1>2, <1>7 DEF AfterMovement, Unit
    <2>2. /\ still.position = old.position /\ still.movement = old.movement
          /\ still.queued = old.queued /\ still.carried = old.carried
          /\ still.excavating = old.excavating /\ still.posture = "active"
      BY <1>2 DEF AfterMovement, Unit
    <2>3. still.queued # <<>> =>
              ValidQueuedPath(still.queued) /\ still.queued[1].tile = still.position
      BY <1>1, <2>2 DEF ValidUnits, Position
    <2> QED BY <1>6, <1>8, <2>1, <2>2, <2>3 DEF Position
  <1>9. CASE ~HiddenBlocker(g, u, route, k)
    <2> DEFINE queued == IF k = Len(route) THEN <<>> ELSE Rebased(route, k)
               left == Remaining(Available(g, u), route[k].cumulative)
    <2>1. left \in 0 .. MovementLimit
      <3>1. Available(g, u) \in 0 .. MovementLimit
        BY <1>1, AvailableTyping
      <3>2. route[k].cumulative \in Nat
        BY <1>5, BalanceAssumption DEF MovementStep
      <3> QED BY <3>1, <3>2, RemainingTyping
    <2>2. queued \in Seq(MovementStep)
      BY <1>9 DEF Queueable
    <2>3. route[k].tile \in Tiles
      BY <1>5 DEF MovementStep
    <2>4. next \in Unit
      BY <1>2, <1>7, <2>1, <2>2, <2>3 DEF AfterMovement, Unit
    <2>5. next.position = route[k].tile /\ next.movement = left /\ next.queued = queued
      BY <1>2 DEF AfterMovement, Unit
    <2>6. queued # <<>> => ValidQueuedPath(queued) /\ queued[1].tile = route[k].tile
      <3> SUFFICES ASSUME k # Len(route)
                   PROVE  ValidQueuedPath(queued) /\ queued[1].tile = route[k].tile
        OBVIOUS
      <3>1. ValidQueuedPath(queued)
        BY <1>9 DEF Queueable
      <3>2. queued[1].tile = route[k].tile
        BY <1>3, <1>4 DEF Rebased
      <3> QED BY <3>1, <3>2
    <2>7. old.movement = 0 /\ old.posture = "active" => left = 0
      <3> SUFFICES ASSUME old.movement = 0, old.posture = "active"
                   PROVE  left = 0
        OBVIOUS
      <3>1. Available(g, u) = 0
        BY DEF Available
      <3>2. route[k].cumulative \in Nat
        BY <1>5, BalanceAssumption DEF MovementStep
      <3>3. Available(g, u) \in 0 .. MovementLimit
        BY <1>1, AvailableTyping
      <3> QED BY <3>1, <3>2, <3>3, RemainingTyping
    <2>8. ASSUME NEW v \in Units \ {u}, Position(g, v) = route[k].tile
          PROVE  Position(g, v) = Position(g, u)
      <3>1. CASE k = 1
        BY <1>3, <2>8, <3>1
      <3>2. CASE k # 1
        BY <1>1, <1>3, <1>4, <1>9, <2>8, <3>2, StopsOnFreeTile
      <3> QED BY <3>1, <3>2
    <2>9. /\ next.carried = old.carried /\ next.excavating = old.excavating
          /\ next.posture = "active"
      BY <1>2 DEF AfterMovement, Unit
    <2> QED BY <1>6, <1>9, <2>4, <2>5, <2>6, <2>7, <2>8, <2>9
  <1> QED BY <1>8, <1>9

\* Custody speaks of what the units carry and excavate, of the artifacts and
\* of the cities, and of nothing else.
LEMMA CustodyKept ==
  ASSUME NEW g, NEW h, ValidArtifacts(g),
         h.artifacts = g.artifacts, h.cities = g.cities,
         \A v \in Units : /\ h.units[v].carried = g.units[v].carried
                          /\ h.units[v].excavating = g.units[v].excavating
  PROVE  ValidArtifacts(h)
  <1>1. ASSUME NEW a \in Artifacts
        PROVE  /\ h.artifacts[a].kind = "carried" =>
                     /\ h.artifacts[a].at \in Units
                     /\ h.units[h.artifacts[a].at].carried = a
               /\ h.artifacts[a].kind = "stored" => h.artifacts[a].at \in h.cities
               /\ h.artifacts[a].kind = "excavation" =>
                     /\ h.artifacts[a].at \in Units
                     /\ h.units[h.artifacts[a].at].excavating = a
    BY DEF ValidArtifacts
  <1>2. ASSUME NEW v \in Units
        PROVE  /\ h.units[v].carried # None =>
                     /\ h.artifacts[h.units[v].carried].kind = "carried"
                     /\ h.artifacts[h.units[v].carried].at = v
               /\ h.units[v].excavating # None =>
                     /\ h.artifacts[h.units[v].excavating].kind = "excavation"
                     /\ h.artifacts[h.units[v].excavating].at = v
    BY DEF ValidArtifacts
  <1> QED BY <1>1, <1>2 DEF ValidArtifacts

\* Validity speaks of the units, the artifacts, the cities and the interaction.
LEMMA ValidityKept ==
  ASSUME NEW g, NEW h, ValidGame(g), h.units = g.units, h.artifacts = g.artifacts,
         h.pending = g.pending, h.draft = g.draft, h.cities = g.cities
  PROVE  ValidGame(h)
  <1>1. ValidUnits(h)
    BY DEF ValidGame, ValidUnits, Position
  <1>2. ValidArtifacts(h)
    BY CustodyKept DEF ValidGame
  <1>3. ValidInteraction(h)
    BY DEF ValidGame, ValidInteraction
  <1> QED BY <1>1, <1>2, <1>3 DEF ValidGame

\* The parts of validity other than a unit's own path and occupancy do not
\* depend on where a unit stands, on its movement or on its path.
LEMMA MoveSound ==
  ASSUME NEW g, Sound(g), g.revision < MaxRevision, NEW u \in Units, NEW target,
         NEW route \in PlannedRoutes(g, u, target),
         NEW k \in ReachedIndex(route, Available(g, u)),
         Queueable(g, u, route, k)
  PROVE  Sound(AfterMove(g, u, MovedUnit(g, u, route, k)))
  <1> DEFINE unit == MovedUnit(g, u, route, k)
             moved == [g EXCEPT !.revision = @ + 1, !.units[u] = unit]
             seen == [moved EXCEPT !.fog = RecomputedFog(moved, Owner[u])]
             met == [seen EXCEPT !.contacts = @ \cup SightedPairs(seen)]
  <1>1. g \in Game /\ ValidGame(g)
    BY DEF Sound
  <1>2. /\ unit \in Unit
        /\ unit.carried = g.units[u].carried /\ unit.excavating = g.units[u].excavating
        /\ unit.posture = "active"
        /\ unit.queued # <<>> =>
               ValidQueuedPath(unit.queued) /\ unit.queued[1].tile = unit.position
        /\ g.units[u].movement = 0 /\ g.units[u].posture = "active" => unit.movement = 0
        /\ \A v \in Units \ {u} :
               Position(g, v) = unit.position => Position(g, v) = Position(g, u)
    BY MovedUnitFacts
  <1> HIDE DEF unit
  <1>3. moved \in Game
    <2>1. g.revision + 1 \in 0 .. MaxRevision
      BY <1>1, RevisionTyping
    <2> QED BY <1>1, <1>2, <2>1 DEF Game
  <1>4. /\ moved.units = [g.units EXCEPT ![u] = unit]
        /\ moved.artifacts = g.artifacts /\ moved.pending = g.pending
        /\ moved.draft = g.draft /\ moved.cities = g.cities
    BY <1>1 DEF Game
  <1>5. g.units \in [Units -> Unit]
    BY <1>1 DEF Game
  <1>6. ValidGame(moved)
    <2>1. ValidUnits(moved)
      <3>1. ASSUME NEW v \in Units, NEW w \in Units,
                   Position(moved, v) = Position(moved, w), v # w
            PROVE  Permits(Owner[v], Owner[w])
        <4>1. Position(g, v) = Position(g, w)
          BY <1>2, <1>4, <1>5, <3>1 DEF Position
        <4> QED BY <1>1, <3>1, <4>1 DEF ValidGame, ValidUnits
      <3>2. ASSUME NEW v \in Units, moved.units[v].queued # <<>>
            PROVE  /\ ValidQueuedPath(moved.units[v].queued)
                   /\ moved.units[v].queued[1].tile = Position(moved, v)
        <4>1. CASE v = u
          BY <1>2, <1>4, <1>5, <3>2, <4>1 DEF Position
        <4>2. CASE v # u
          BY <1>1, <1>4, <1>5, <3>2, <4>2 DEF ValidGame, ValidUnits, Position
        <4> QED BY <4>1, <4>2
      <3> QED BY <3>1, <3>2 DEF ValidUnits
    <2>2. ValidArtifacts(moved)
      <3>1. \A v \in Units : /\ moved.units[v].carried = g.units[v].carried
                             /\ moved.units[v].excavating = g.units[v].excavating
        BY <1>2, <1>4, <1>5
      <3> HIDE DEF moved
      <3> QED BY <1>1, <1>4, <3>1, CustodyKept DEF ValidGame
    <2>3. ValidInteraction(moved)
      BY <1>1, <1>2, <1>4, <1>5 DEF ValidGame, ValidInteraction, OwnedUnit
    <2> QED BY <2>1, <2>2, <2>3 DEF ValidGame
  <1>7. Owner[u] \in Players
    BY EntityAssumption
  <1>8. RecomputedFog(moved, Owner[u]) \in [Players -> PlayerFog]
    BY <1>3, <1>7, FogTyping
  <1> HIDE DEF moved
  <1>9. seen \in Game
    BY <1>3, <1>8 DEF Game
  <1>10. met \in Game
    <2>1. SightedPairs(seen) \subseteq SUBSET Players
      BY DEF SightedPairs
    <2> HIDE DEF seen
    <2> QED BY <1>9, <2>1 DEF Game
  <1>11. /\ met.units = moved.units /\ met.artifacts = moved.artifacts
         /\ met.pending = moved.pending /\ met.draft = moved.draft
         /\ met.cities = moved.cities
    BY <1>3 DEF Game
  <1>12. ValidGame(met)
    <2> HIDE DEF met
    <2> QED BY <1>6, <1>11, ValidityKept
  <1>13. AfterMove(g, u, unit) = IF unit.position = Position(g, u) THEN moved ELSE met
    BY DEF AfterMove, moved
  <1> QED BY <1>3, <1>6, <1>10, <1>12, <1>13 DEF Sound, unit

\* The slices every unit action touches: the interaction loses what belongs
\* to the unit, so what remains belongs to units the action left alone.
LEMMA UnitActionTyping ==
  ASSUME NEW g \in Game, NEW u \in Units
  PROVE  /\ PendingWithoutUnit(g, u) \in Pending
         /\ PendingAfterSkip(g, u) \in Pending
         /\ DraftWithoutUnit(g, u) \in Draft
         /\ CancelMovement(g, u) \in 0 .. MovementLimit
  <1>1. g.pending \in Pending /\ g.draft \in Draft
    BY DEF Game
  <1>2. NoPending \in Pending /\ NoDraft \in Draft
    BY BalanceAssumption DEF NoPending, NoDraft, Pending, Draft
  <1>3. PendingAfterSkip(g, u) \in Pending
    BY UnitTyping, EntityAssumption DEF PendingAfterSkip, Pending
  <1>4. CancelMovement(g, u) \in 0 .. MovementLimit
    BY <1>1, UnitTyping, AvailableTyping DEF CancelMovement, Pending
  <1> QED BY <1>1, <1>2, <1>3, <1>4 DEF PendingWithoutUnit, DraftWithoutUnit

LEMMA CancelSound ==
  ASSUME NEW g, Sound(g), g.revision < MaxRevision, NEW u \in Units
  PROVE  Sound(AfterCancel(g, u))
  <1> DEFINE old == g.units[u]
             unit == AfterCancelAction(old, CancelMovement(g, u))
             artifacts == [a \in Artifacts |->
                  IF a = g.units[u].excavating
                  THEN RestoreExcavation(g.artifacts[a], u) ELSE g.artifacts[a]]
             next == AfterCancel(g, u)
  <1>1. g \in Game /\ ValidUnits(g) /\ ValidArtifacts(g) /\ ValidInteraction(g)
    BY DEF Sound, ValidGame
  <1>2. old \in Unit /\ g.units \in [Units -> Unit]
    BY <1>1, UnitTyping
  <1>3. CancelMovement(g, u) \in 0 .. MovementLimit
    BY <1>1, UnitActionTyping
  <1>4. unit \in Unit
    <2>1. "active" \in Postures /\ None \in Artifacts \cup {None}
      BY DEF Postures
    <2> QED BY <1>2, <1>3, <2>1, EmptyPath DEF AfterCancelAction, Unit
  <1>5. /\ unit.position = old.position /\ unit.queued = <<>>
        /\ unit.excavating = None /\ unit.carried = old.carried
    BY <1>2 DEF AfterCancelAction, Unit
  <1>6. g.artifacts \in [Artifacts -> Location]
    BY <1>1 DEF Game
  <1>7. \A a \in Artifacts : RestoreExcavation(g.artifacts[a], u) \in Location
    BY <1>6 DEF RestoreExcavation, Location
  <1>8. artifacts \in [Artifacts -> Location]
    BY <1>6, <1>7
  <1>9. g.revision + 1 \in 0 .. MaxRevision
    BY <1>1, RevisionTyping
  <1>10. next \in Game
    BY <1>1, <1>4, <1>8, <1>9, UnitActionTyping DEF AfterCancel, Game
  <1>11. /\ next.units = [g.units EXCEPT ![u] = unit] /\ next.artifacts = artifacts
         /\ next.pending = PendingWithoutUnit(g, u)
         /\ next.draft = DraftWithoutUnit(g, u) /\ next.cities = g.cities
    BY <1>1 DEF AfterCancel, Game
  <1> HIDE DEF next, unit
  <1>12. ValidUnits(next)
    BY <1>1, <1>2, <1>5, <1>11 DEF ValidUnits, Position
  <1>13. ValidArtifacts(next)
    <2>1. ASSUME NEW a \in Artifacts, a # old.excavating
          PROVE  artifacts[a] = g.artifacts[a]
      BY <2>1
    <2>2. ASSUME NEW a \in Artifacts, a = old.excavating
          PROVE  artifacts[a].kind = "map"
      <3>1. a # None
        BY EntityAssumption
      <3>2. g.artifacts[a].kind = "excavation" /\ g.artifacts[a].at = u
        BY <1>1, <2>2, <3>1 DEF ValidArtifacts
      <3> QED BY <2>2, <3>2 DEF RestoreExcavation
    <2>3. ASSUME NEW a \in Artifacts
          PROVE  /\ artifacts[a].kind = "carried" =>
                       /\ artifacts[a].at \in Units
                       /\ next.units[artifacts[a].at].carried = a
                 /\ artifacts[a].kind = "stored" => artifacts[a].at \in g.cities
                 /\ artifacts[a].kind = "excavation" =>
                       /\ artifacts[a].at \in Units
                       /\ next.units[artifacts[a].at].excavating = a
      <3>1. CASE a = old.excavating
        BY <2>2, <3>1
      <3>2. CASE a # old.excavating
        <4>1. /\ \A v \in Units : next.units[v].carried = g.units[v].carried
              /\ \A v \in Units \ {u} : next.units[v].excavating = g.units[v].excavating
          BY <1>2, <1>5, <1>11
        <4>2. artifacts[a] = g.artifacts[a]
          BY <2>1, <3>2
        <4> HIDE DEF artifacts
        <4>3. artifacts[a].kind = "excavation" =>
                 artifacts[a].at \in Units \ {u} /\ g.units[artifacts[a].at].excavating = a
          BY <1>1, <3>2, <4>2 DEF ValidArtifacts
        <4>4. /\ artifacts[a].kind = "carried" =>
                    artifacts[a].at \in Units /\ g.units[artifacts[a].at].carried = a
              /\ artifacts[a].kind = "stored" => artifacts[a].at \in g.cities
          BY <1>1, <4>2 DEF ValidArtifacts
        <4> QED BY <4>1, <4>3, <4>4
      <3> QED BY <3>1, <3>2
    <2> HIDE DEF artifacts
    <2>4. ASSUME NEW v \in Units, next.units[v].carried # None
          PROVE  /\ artifacts[next.units[v].carried].kind = "carried"
                 /\ artifacts[next.units[v].carried].at = v
      <3>1. next.units[v].carried = g.units[v].carried
        BY <1>2, <1>5, <1>11
      <3>2. g.units[v].carried \in Artifacts
        BY <1>1, <2>4, <3>1, UnitTyping DEF Unit
      <3>3. g.artifacts[g.units[v].carried].kind = "carried"
            /\ g.artifacts[g.units[v].carried].at = v
        BY <1>1, <2>4, <3>1 DEF ValidArtifacts
      <3>4. g.units[v].carried # old.excavating
        <4>1. old.excavating # None => g.artifacts[old.excavating].kind = "excavation"
          BY <1>1 DEF ValidArtifacts
        <4> QED BY <2>4, <3>1, <3>3, <4>1
      <3> QED BY <2>1, <3>1, <3>2, <3>3, <3>4
    <2>5. ASSUME NEW v \in Units, next.units[v].excavating # None
          PROVE  /\ artifacts[next.units[v].excavating].kind = "excavation"
                 /\ artifacts[next.units[v].excavating].at = v
      <3>1. v # u /\ next.units[v].excavating = g.units[v].excavating
        BY <1>2, <1>5, <1>11, <2>5
      <3>2. g.units[v].excavating \in Artifacts
        BY <1>1, <2>5, <3>1, UnitTyping DEF Unit
      <3>3. g.artifacts[g.units[v].excavating].kind = "excavation"
            /\ g.artifacts[g.units[v].excavating].at = v
        BY <1>1, <2>5, <3>1 DEF ValidArtifacts
      <3>4. g.units[v].excavating # old.excavating
        <4>1. old.excavating # None => g.artifacts[old.excavating].at = u
          BY <1>1 DEF ValidArtifacts
        <4> QED BY <2>5, <3>1, <3>3, <4>1
      <3> QED BY <2>1, <3>1, <3>2, <3>3, <3>4
    <2> QED BY <1>11, <2>3, <2>4, <2>5 DEF ValidArtifacts
  <1>14. ValidInteraction(next)
    BY <1>1, <1>2, <1>11, EntityAssumption
       DEF ValidInteraction, OwnedUnit, PendingWithoutUnit, DraftWithoutUnit,
           NoPending, NoDraft
  <1> QED BY <1>10, <1>12, <1>13, <1>14 DEF Sound, ValidGame, next

LEMMA SkipSound ==
  ASSUME NEW g, Sound(g), g.revision < MaxRevision, NEW u \in Units
  PROVE  Sound(AfterSkip(g, u))
  <1> DEFINE old == g.units[u]
             unit == AfterSkipTurn(old)
             next == AfterSkip(g, u)
  <1>1. g \in Game /\ ValidUnits(g) /\ ValidArtifacts(g) /\ ValidInteraction(g)
    BY DEF Sound, ValidGame
  <1>2. old \in Unit /\ g.units \in [Units -> Unit]
    BY <1>1, UnitTyping
  <1>3. unit \in Unit
    <2>1. "active" \in Postures /\ 0 \in 0 .. MovementLimit
      BY BalanceAssumption DEF Postures
    <2> QED BY <1>2, <2>1, EmptyPath DEF AfterSkipTurn, Unit
  <1>4. /\ unit.position = old.position /\ unit.queued = <<>> /\ unit.movement = 0
        /\ unit.posture = "active" /\ unit.excavating = old.excavating
        /\ unit.carried = old.carried
    BY <1>2 DEF AfterSkipTurn, Unit
  <1>5. g.revision + 1 \in 0 .. MaxRevision
    BY <1>1, RevisionTyping
  <1>6. next \in Game
    BY <1>1, <1>3, <1>5, UnitActionTyping DEF AfterSkip, Game
  <1>7. /\ next.units = [g.units EXCEPT ![u] = unit] /\ next.artifacts = g.artifacts
        /\ next.pending = PendingAfterSkip(g, u)
        /\ next.draft = DraftWithoutUnit(g, u) /\ next.cities = g.cities
    BY <1>1 DEF AfterSkip, Game
  <1> HIDE DEF next, unit
  <1>8. ValidUnits(next)
    BY <1>1, <1>2, <1>4, <1>7 DEF ValidUnits, Position
  <1>9. ValidArtifacts(next)
    <2>1. \A v \in Units : /\ next.units[v].carried = g.units[v].carried
                           /\ next.units[v].excavating = g.units[v].excavating
      BY <1>2, <1>4, <1>7
    <2> QED BY <1>1, <1>7, <2>1, CustodyKept
  <1>10. ValidInteraction(next)
    BY <1>1, <1>2, <1>4, <1>7, EntityAssumption
       DEF ValidInteraction, OwnedUnit, PendingAfterSkip, DraftWithoutUnit, NoDraft
  <1> QED BY <1>6, <1>8, <1>9, <1>10 DEF Sound, ValidGame, next

LEMMA FortifySound ==
  ASSUME NEW g, Sound(g), g.revision < MaxRevision, NEW u \in Units
  PROVE  Sound(AfterFortification(g, u))
  <1> DEFINE old == g.units[u]
             unit == AfterFortify(old)
             next == AfterFortification(g, u)
  <1>1. g \in Game /\ ValidUnits(g) /\ ValidArtifacts(g) /\ ValidInteraction(g)
    BY DEF Sound, ValidGame
  <1>2. old \in Unit /\ g.units \in [Units -> Unit]
    BY <1>1, UnitTyping
  <1>3. unit \in Unit
    <2>1. "fortified" \in Postures /\ 0 \in 0 .. MovementLimit
      BY BalanceAssumption DEF Postures
    <2> QED BY <1>2, <2>1, EmptyPath DEF AfterFortify, Unit
  <1>4. /\ unit.position = old.position /\ unit.queued = <<>>
        /\ unit.excavating = old.excavating /\ unit.carried = old.carried
    BY <1>2 DEF AfterFortify, Unit
  <1>5. g.revision + 1 \in 0 .. MaxRevision
    BY <1>1, RevisionTyping
  <1>6. next \in Game
    BY <1>1, <1>3, <1>5, UnitActionTyping DEF AfterFortification, Game
  <1>7. /\ next.units = [g.units EXCEPT ![u] = unit] /\ next.artifacts = g.artifacts
        /\ next.pending = PendingWithoutUnit(g, u)
        /\ next.draft = DraftWithoutUnit(g, u) /\ next.cities = g.cities
    BY <1>1 DEF AfterFortification, Game
  <1> HIDE DEF next, unit
  <1>8. ValidUnits(next)
    BY <1>1, <1>2, <1>4, <1>7 DEF ValidUnits, Position
  <1>9. ValidArtifacts(next)
    <2>1. \A v \in Units : /\ next.units[v].carried = g.units[v].carried
                           /\ next.units[v].excavating = g.units[v].excavating
      BY <1>2, <1>4, <1>7
    <2> QED BY <1>1, <1>7, <2>1, CustodyKept
  <1>10. ValidInteraction(next)
    BY <1>1, <1>2, <1>7, EntityAssumption
       DEF ValidInteraction, OwnedUnit, PendingWithoutUnit, DraftWithoutUnit,
           NoPending, NoDraft
  <1> QED BY <1>6, <1>8, <1>9, <1>10 DEF Sound, ValidGame, next

-----------------------------------------------------------------------------
(* Plans and evidence.                                                     *)

LEMMA NoEvidenceTyping == NoEvidence \in Evidence
  BY EmptyPath DEF NoEvidence, Evidence

\* An accepted plan names a unit of the game.
LEMMA AcceptedPlan ==
  ASSUME NEW g, NEW actor, NEW u, NEW target, NEW expected,
         Plan(g, actor, u, target, expected).refusal = ""
  PROVE  /\ u \in Units
         /\ Plan(g, actor, u, target, expected).routes = PlannedRoutes(g, u, target)
  <1>1. RequestRefusal(g, actor, u, target, expected) = ""
    BY DEF Plan
  <1>2. UnitRefusal(g, actor, u) = ""
    BY <1>1 DEF RequestRefusal
  <1> QED BY <1>1, <1>2 DEF Plan, UnitRefusal

\* A plan that is accepted has a route.
LEMMA PlanHasRoute ==
  ASSUME NEW g, NEW actor, NEW u, NEW target, NEW expected,
         Plan(g, actor, u, target, expected).refusal = ""
  PROVE  Plan(g, actor, u, target, expected).routes # {}
  BY DEF Plan, RouteRefusal

LEMMA EvidenceTyping ==
  ASSUME NEW g \in Game, NEW u \in Units, NEW target,
         NEW route \in PlannedRoutes(g, u, target),
         NEW k \in ReachedIndex(route, Available(g, u))
  PROVE  MoveEvidence(g, u, route, k) \in Evidence
  <1>1. route \in Seq(MovementStep)
    BY PlannedFacts
  <1>2. k \in 1 .. Len(route)
    BY <1>1 DEF ReachedIndex
  <1>3. SubSeq(route, 2, k) \in Seq(MovementStep)
    BY <1>1, <1>2
  <1> QED BY <1>3, UnitTyping DEF MoveEvidence, Evidence, NoEvidence

\* What a turn leaves of a planned route can be queued.
LEMMA PlansQueue ==
  ASSUME NEW g \in Game, NEW u \in Units, NEW target,
         NEW route \in PlannedRoutes(g, u, target),
         NEW k \in ReachedIndex(route, Available(g, u))
  PROVE  /\ Queueable(g, u, route, k)
         /\ k < Len(route) => Rebased(route, k)[1].tile = route[k].tile
  <1>1. Travels(route, g, u) /\ Len(route) \in Nat
    BY PlannedFacts
  <1>2. k \in 1 .. Len(route)
    BY <1>1 DEF ReachedIndex, Travels
  <1> QED BY <1>1, <1>2, RebasedFacts DEF Queueable

-----------------------------------------------------------------------------
(* What a plan depends on.                                                 *)

\* To the owner of u, who plans for it, games g and h are the same.
SameToPlanner(g, h, u) ==
    /\ h.revision = g.revision /\ h.units[u] = g.units[u] /\ h.fog = g.fog
    /\ \A t : KnownBlockers(h, u, t) = KnownBlockers(g, u, t)
    /\ \A t : CityBlockKnown(h, u, t) <=> CityBlockKnown(g, u, t)
    /\ \A s, t : OnKnownRoad(h, Owner[u], s, t) <=> OnKnownRoad(g, Owner[u], s, t)

LEMMA SameWays ==
  ASSUME NEW g, NEW h, NEW u, SameToPlanner(g, h, u)
  PROVE  /\ Position(h, u) = Position(g, u)
         /\ MaximumMovement(h, u) = MaximumMovement(g, u)
         /\ Available(h, u) = Available(g, u)
         /\ Open(h, u) = Open(g, u)
         /\ \A s, t : EnterCost(h, u, s, t) = EnterCost(g, u, s, t)
         /\ \A s, t, m : CanPay(h, u, s, t, m) <=> CanPay(g, u, s, t, m)
  <1>1. /\ h.units[u] = g.units[u] /\ h.fog = g.fog
        /\ \A t : KnownBlockers(h, u, t) = KnownBlockers(g, u, t)
        /\ \A t : CityBlockKnown(h, u, t) <=> CityBlockKnown(g, u, t)
        /\ \A s, t : OnKnownRoad(h, Owner[u], s, t) <=> OnKnownRoad(g, Owner[u], s, t)
    BY DEF SameToPlanner
  <1>2. Position(h, u) = Position(g, u)
    BY <1>1 DEF Position
  <1>3. MaximumMovement(h, u) = MaximumMovement(g, u)
    BY <1>1 DEF MaximumMovement
  <1>4. Available(h, u) = Available(g, u)
    BY <1>1, <1>3 DEF Available
  <1>5. \A t : KnownOccupied(h, u, t) <=> KnownOccupied(g, u, t)
    <2>1. \A k, t : KnownOccupied(k, u, t) <=> KnownBlockers(k, u, t) # {}
      BY DEF KnownOccupied, KnownBlockers
    <2> QED BY <1>1, <2>1
  <1>6. \A t : CanPlanThrough(h, u, t) <=> CanPlanThrough(g, u, t)
    BY <1>1, <1>2 DEF CanPlanThrough, Visibility
  <1>7. Open(h, u) = Open(g, u)
    BY <1>1, <1>5, <1>6 DEF Open
  <1>8. \A s, t : EnterCost(h, u, s, t) = EnterCost(g, u, s, t)
    BY <1>1 DEF EnterCost
  <1>9. \A s, t, m : CanPay(h, u, s, t, m) <=> CanPay(g, u, s, t, m)
    BY <1>1, <1>8 DEF CanPay
  <1> QED BY <1>2, <1>3, <1>4, <1>7, <1>8, <1>9

LEMMA SamePrice ==
  ASSUME NEW g, NEW h, NEW u, SameToPlanner(g, h, u),
         NEW path \in Seq(Tiles), Len(path) >= 1
  PROVE  Priced(h, u, path) = Priced(g, u, path)
  <1> DEFINE N == Len(path)
             mine == CostSoFar(g, u, path)
             theirs == CostSoFar(h, u, path)
             S == {i \in 1 .. N : theirs[i] = mine[i]}
  <1>1. N \in Nat /\ 1 \in Int /\ N \in Int /\ 0 <= 1 /\ 1 \in 1 .. N
    OBVIOUS
  <1>2. mine[1] = 0 /\ theirs[1] = 0
    BY CostFacts
  <1>3. \A i \in 2 .. N :
           /\ mine[i] = mine[i - 1] + EnterCost(g, u, path[i - 1], path[i])
           /\ theirs[i] = theirs[i - 1] + EnterCost(g, u, path[i - 1], path[i])
    BY CostFacts, SameWays
  <1> HIDE DEF N, mine, theirs
  <1>4. 1 \in S
    BY <1>1, <1>2
  <1>5. ASSUME NEW i \in 1 + 1 .. N, i - 1 \in S
        PROVE  i \in S
    <2>1. i \in 2 .. N /\ i \in 1 .. N
      BY <1>1
    <2> QED BY <1>3, <1>5, <2>1
  <1>6. \A i \in 1 .. N : i \in S
    <2> HIDE DEF S
    <2> QED BY <1>1, <1>4, <1>5, Induction
  <1>7. \A i \in 1 .. N : theirs[i] = mine[i]
    BY <1>6
  <1>8. \A s, t : EnterCost(h, u, s, t) = EnterCost(g, u, s, t)
    BY SameWays
  <1> QED BY <1>7, <1>8 DEF Priced, N, mine, theirs

LEMMA SameRoutes ==
  ASSUME NEW g, NEW h, NEW u, SameToPlanner(g, h, u), Position(g, u) \in Tiles,
         NEW targets, NEW maximum
  PROVE  Routes(h, u, targets, maximum) = Routes(g, u, targets, maximum)
  <1> DEFINE paths(k) == {path \in SimplePaths(Position(k, u), Open(k, u)) :
                            /\ path[Len(path)] \in targets
                            /\ \A i \in 2 .. Len(path) :
                                  CanPay(k, u, path[i - 1], path[i], maximum)}
             routes(k) == {Priced(k, u, path) : path \in paths(k)}
  <1>1. paths(h) = paths(g)
    BY SameWays
  <1>2. \A path \in paths(g) : path \in Seq(Tiles) /\ Len(path) >= 1
    BY PathFacts, GridAssumption DEF Walk
  <1> HIDE DEF paths
  <1>3. \A path \in paths(g) : Priced(h, u, path) = Priced(g, u, path)
    BY <1>2, SamePrice
  <1>4. routes(h) = routes(g)
    BY <1>1, <1>3
  <1>5. \A k : Routes(k, u, targets, maximum) = {r \in routes(k) : r \in Seq(MovementStep)}
    BY DEF Routes, paths
  <1> HIDE DEF routes
  <1> QED BY <1>4, <1>5

LEMMA SamePlans ==
  ASSUME NEW g, NEW h, NEW u, SameToPlanner(g, h, u), Position(g, u) \in Tiles
  PROVE  /\ ReachableTiles(h, u) = ReachableTiles(g, u)
         /\ \A actor, target, expected :
               Plan(h, actor, u, target, expected) = Plan(g, actor, u, target, expected)
  <1>1. /\ Position(h, u) = Position(g, u)
        /\ MaximumMovement(h, u) = MaximumMovement(g, u)
        /\ Available(h, u) = Available(g, u)
    BY SameWays
  <1>2. \A targets, maximum :
           Routes(h, u, targets, maximum) = Routes(g, u, targets, maximum)
    BY SameRoutes
  <1>3. ReachableTiles(h, u) = ReachableTiles(g, u)
    BY <1>1, <1>2 DEF ReachableTiles
  <1>4. \A targets : BestRoutes(h, u, targets) = BestRoutes(g, u, targets)
    BY <1>1, <1>2 DEF BestRoutes
  <1>5. \A target : ReachableIgnoringCapacity(h, u, target)
                    <=> ReachableIgnoringCapacity(g, u, target)
    <2>1. DearestTile(h, u) = DearestTile(g, u)
      BY <1>1 DEF DearestTile
    <2> QED BY <1>2, <2>1 DEF ReachableIgnoringCapacity
  <1>6. /\ h.revision = g.revision /\ h.units[u] = g.units[u]
        /\ \A t : KnownBlockers(h, u, t) = KnownBlockers(g, u, t)
        /\ \A t : CityBlockKnown(h, u, t) <=> CityBlockKnown(g, u, t)
    BY DEF SameToPlanner
  <1>7. \A target : PlannedRoutes(h, u, target) = PlannedRoutes(g, u, target)
    <2> SUFFICES ASSUME NEW target
                 PROVE  PlannedRoutes(h, u, target) = PlannedRoutes(g, u, target)
      OBVIOUS
    <2> DEFINE known == KnownBlockers(g, u, target)
               best(k) == BestRoutes(k, u, {target})
               near(k) == BestRoutes(k, u, Neighbors(target))
    <2>1. best(h) = best(g) /\ near(h) = near(g)
      BY <1>4
    <2>2. KnownBlockers(h, u, target) = known
      BY <1>6
    <2> HIDE DEF known, best, near
    <2> QED BY <1>1, <2>1, <2>2 DEF PlannedRoutes, known, best, near
  <1>8. \A target, routes :
           RouteRefusal(h, u, target, routes) = RouteRefusal(g, u, target, routes)
    BY <1>5, <1>6 DEF RouteRefusal
  <1>9. \A actor, target, expected :
           RequestRefusal(h, actor, u, target, expected)
           = RequestRefusal(g, actor, u, target, expected)
    <2>1. \A actor : UnitRefusal(h, actor, u) = UnitRefusal(g, actor, u)
      BY <1>1, <1>6 DEF UnitRefusal
    <2>2. \A target : TargetRefusal(h, u, target) = TargetRefusal(g, u, target)
      BY <1>1, <1>6 DEF TargetRefusal
    <2> QED BY <1>6, <2>1, <2>2 DEF RequestRefusal
  <1>10. \A actor, target, expected :
            Plan(h, actor, u, target, expected) = Plan(g, actor, u, target, expected)
    BY <1>7, <1>8, <1>9 DEF Plan
  <1> QED BY <1>3, <1>10

-----------------------------------------------------------------------------
(* Best routes.                                                            *)

Scores == Nat \X Nat \X Nat

\* Among scores there is always a least one.
LEMMA LeastScore ==
  ASSUME NEW S, S # {}, S \subseteq Scores
  PROVE  \E m \in S : \A s \in S : NoWorse(m, s)
  <1>1. \A s \in S : s[1] \in Nat /\ s[2] \in Nat /\ s[3] \in Nat
    BY DEF Scores
  <1> DEFINE firsts == {s[1] : s \in S}
  <1>2. PICK a \in firsts : \A n \in firsts : a <= n
    <2>1. firsts \subseteq Nat /\ firsts # {}
      BY <1>1
    <2> HIDE DEF firsts
    <2> QED BY <2>1, LeastNatural
  <1>3. \A s \in S : a <= s[1]
    BY <1>2
  <1> DEFINE S2 == {s \in S : s[1] = a}
             seconds == {s[2] : s \in S2}
  <1>4. S2 # {}
    BY <1>2
  <1>5. PICK b \in seconds : \A n \in seconds : b <= n
    <2>1. seconds \subseteq Nat /\ seconds # {}
      BY <1>1, <1>4
    <2> HIDE DEF seconds
    <2> QED BY <2>1, LeastNatural
  <1>6. \A s \in S2 : b <= s[2]
    BY <1>5
  <1> DEFINE S3 == {s \in S2 : s[2] = b}
             thirds == {s[3] : s \in S3}
  <1>7. S3 # {}
    BY <1>5
  <1>8. PICK c \in thirds : \A n \in thirds : c <= n
    <2>1. thirds \subseteq Nat /\ thirds # {}
      BY <1>1, <1>7
    <2> HIDE DEF thirds
    <2> QED BY <2>1, LeastNatural
  <1>9. \A s \in S3 : c <= s[3]
    BY <1>8
  <1>10. PICK m \in S3 : m[3] = c
    BY <1>8
  <1>11. m \in S /\ m[1] = a /\ m[2] = b /\ m[3] = c
    BY <1>10
  <1>12. ASSUME NEW s \in S
         PROVE  NoWorse(m, s)
    <2>1. s[1] = a /\ s[2] = b => s \in S3
      OBVIOUS
    <2>2. s[1] = a => s \in S2
      OBVIOUS
    <2>3. /\ a <= s[1] /\ (s[1] = a => b <= s[2])
          /\ (s[1] = a /\ s[2] = b => c <= s[3])
      BY <1>3, <1>6, <1>9, <2>1, <2>2
    <2>4. /\ s[1] \in Nat /\ s[2] \in Nat /\ s[3] \in Nat
          /\ a \in Nat /\ b \in Nat /\ c \in Nat
      BY <1>1, <1>11
    <2> HIDE DEF S2, S3, firsts, seconds, thirds
    <2> QED BY <1>11, <2>3, <2>4 DEF NoWorse
  <1> QED BY <1>11, <1>12

LEMMA ScoreTyping ==
  ASSUME NEW g \in Game, NEW u \in Units, NEW targets, NEW maximum \in Nat,
         NEW route \in Routes(g, u, targets, maximum)
  PROVE  /\ Travels(route, g, u)
         /\ Score(route, Available(g, u), maximum) \in Scores
  <1>1. Travels(route, g, u)
    BY UnitTyping, RouteFacts
  <1>2. /\ Len(route) \in Nat /\ Len(route) >= 1 /\ Len(route) \in 1 .. Len(route)
        /\ route \in Seq(MovementStep) /\ route[Len(route)].cumulative \in Nat
    BY <1>1, CostTyping DEF Travels
  <1>3. Available(g, u) \in Nat
    BY AllowanceTyping
  <1>4. Pace(route, Available(g, u), maximum)[Len(route)] \in PaceRecord
    BY <1>2, <1>3, PaceFacts
  <1> QED BY <1>1, <1>2, <1>4 DEF Score, Scores, PaceRecord

\* A best route exists where there is a route, and takes no more turns than
\* any other.
LEMMA BestFacts ==
  ASSUME NEW g \in Game, NEW u \in Units, NEW targets
  PROVE  LET maximum == MaximumMovement(g, u)
             routes == Routes(g, u, targets, maximum)
         IN  /\ routes # {} => BestRoutes(g, u, targets) # {}
             /\ \A best \in BestRoutes(g, u, targets) :
                   /\ best \in routes
                   /\ \A route \in routes :
                         Score(best, Available(g, u), maximum)[1]
                         <= Score(route, Available(g, u), maximum)[1]
  <1> DEFINE maximum == MaximumMovement(g, u)
             routes == Routes(g, u, targets, maximum)
             score(route) == Score(route, Available(g, u), maximum)
             scored == {<<score(route), route>> : route \in routes}
             least == {e \in scored : \A other \in scored : NoWorse(e[1], other[1])}
  <1>1. BestRoutes(g, u, targets) = {entry[2] : entry \in least}
    BY DEF BestRoutes
  <1>2. maximum \in Nat
    BY AllowanceTyping
  <1>3. \A route \in routes : score(route) \in Scores
    BY <1>2, ScoreTyping
  <1> HIDE DEF routes, score
  <1>4. ASSUME routes # {}
        PROVE  BestRoutes(g, u, targets) # {}
    <2> DEFINE S == {score(route) : route \in routes}
    <2>1. S # {} /\ S \subseteq Scores
      BY <1>3, <1>4
    <2>2. PICK m \in S : \A s \in S : NoWorse(m, s)
      <3> HIDE DEF S
      <3> QED BY <2>1, LeastScore
    <2>3. PICK route \in routes : m = score(route)
      OBVIOUS
    <2>4. <<score(route), route>> \in least
      <3>1. \A other \in scored : other[1] \in S
        OBVIOUS
      <3> QED BY <2>2, <2>3, <3>1
    <2> HIDE DEF least
    <2> QED BY <1>1, <2>4
  <1>5. ASSUME NEW best \in BestRoutes(g, u, targets)
        PROVE  /\ best \in routes
               /\ \A route \in routes : score(best)[1] <= score(route)[1]
    <2>1. PICK entry \in least : best = entry[2]
      BY <1>1
    <2>2. entry = <<score(best), best>> /\ best \in routes
      BY <2>1
    <2>3. ASSUME NEW route \in routes
          PROVE  score(best)[1] <= score(route)[1]
      <3>1. <<score(route), route>> \in scored
        OBVIOUS
      <3>2. NoWorse(score(best), score(route))
        BY <2>2, <3>1
      <3>3. score(best)[1] \in Nat /\ score(route)[1] \in Nat
        BY <1>3, <2>2 DEF Scores
      <3> QED BY <3>2, <3>3 DEF NoWorse
    <2> QED BY <2>2, <2>3
  <1> QED BY <1>4, <1>5 DEF routes, score

\* Where a route ends decides which targets it is a route to.
LEMMA RouteEnds ==
  ASSUME NEW g \in Game, NEW u \in Units, NEW targets, NEW maximum,
         NEW route \in Routes(g, u, targets, maximum)
  PROVE  /\ route[Len(route)].tile \in targets
         /\ \A others : route[Len(route)].tile \in others =>
               route \in Routes(g, u, others, maximum)
  <1>1. PICK path \in SimplePaths(Position(g, u), Open(g, u)) :
           /\ path[Len(path)] \in targets
           /\ \A i \in 2 .. Len(path) : CanPay(g, u, path[i - 1], path[i], maximum)
           /\ route = Priced(g, u, path)
    BY DEF Routes
  <1>2. route \in Seq(MovementStep)
    BY DEF Routes
  <1>3. path \in Seq(Tiles) /\ Len(path) >= 1 /\ Len(path) \in Nat
    BY UnitTyping, PathFacts, GridAssumption DEF Walk
  <1>4. DOMAIN route = 1 .. Len(path) /\ route[Len(path)].tile = path[Len(path)]
    BY <1>1, <1>3 DEF Priced
  <1>5. Len(route) = Len(path)
    BY <1>2, <1>3, <1>4
  <1>6. ASSUME NEW others, route[Len(route)].tile \in others
        PROVE  route \in Routes(g, u, others, maximum)
    <2>1. path[Len(path)] \in others
      BY <1>4, <1>5, <1>6
    <2> QED BY <1>1, <1>2, <2>1 DEF Routes
  <1> QED BY <1>1, <1>4, <1>5, <1>6

\* A planned route to an unblocked target is a best route to it, and a
\* blocked target is on no route.
LEMMA PlannedEnds ==
  ASSUME NEW g \in Game, NEW u \in Units, NEW target,
         NEW route, Travels(route, g, u), route[Len(route)].tile = target,
         target # Position(g, u)
  PROVE  /\ Len(route) >= 2
         /\ KnownBlockers(g, u, target) = {} /\ ~CityBlockKnown(g, u, target)
         /\ target \in Tiles
  <1>1. Len(route) \in Nat /\ Len(route) >= 1
    BY CostTyping
  <1>2. Len(route) # 1
    BY DEF Travels
  <1>3. Len(route) >= 2 /\ Len(route) \in 2 .. Len(route)
    <2>1. \A n \in Nat : n >= 1 /\ n # 1 => n >= 2 /\ n \in 2 .. n
      OBVIOUS
    <2> QED BY <1>1, <1>2, <2>1
  <1>4. target \in Open(g, u)
    BY <1>3 DEF Travels
  <1> QED BY <1>3, <1>4 DEF Open, KnownOccupied, KnownBlockers

\* The overlay names a tile exactly if the plan for it is the turn's as a
\* whole.
OverlayAgrees(g, u, target) ==
    LET plan == Plan(g, Owner[u], u, target, g.revision)
        available == Available(g, u)
    IN  target \in ReachableTiles(g, u) <=>
        /\ plan.refusal = ""
        /\ \A route \in plan.routes :
              /\ route[Len(route)].tile = target
              /\ Len(route) \in ReachedIndex(route, available)

LEMMA OverlayIsPlanned ==
  ASSUME NEW g \in Game, NEW u \in Units, UnitRefusal(g, Owner[u], u) = "",
         NEW target \in Tiles \ {Position(g, u)}
  PROVE  OverlayAgrees(g, u, target)
  <1> DEFINE maximum == MaximumMovement(g, u)
             available == Available(g, u)
             away == Routes(g, u, Tiles \ {Position(g, u)}, maximum)
             planned == PlannedRoutes(g, u, target)
             plan == Plan(g, Owner[u], u, target, g.revision)
             MovementLeft(route) ==
                \A i \in 1 .. Len(route) - 1 : route[i].cumulative < available
             Whole(route) == /\ route[Len(route)].tile = target
                             /\ Len(route) \in ReachedIndex(route, available)
  <1>1. maximum \in Nat /\ available \in Nat
    BY AllowanceTyping
  <1>2. target \in ReachableTiles(g, u) <=>
          \E route \in away : route[Len(route)].tile = target /\ MovementLeft(route)
    BY DEF ReachableTiles
  <1>3. ASSUME NEW route \in away, route[Len(route)].tile = target, MovementLeft(route)
        PROVE  plan.refusal = "" /\ \A best \in plan.routes : Whole(best)
    <2>1. Travels(route, g, u)
      BY <1>1, ScoreTyping
    <2>2. Len(route) >= 2 /\ KnownBlockers(g, u, target) = {} /\ ~CityBlockKnown(g, u, target)
      BY <1>3, <2>1, PlannedEnds
    <2>3. RequestRefusal(g, Owner[u], u, target, g.revision) = ""
      BY <2>2 DEF RequestRefusal, TargetRefusal
    <2>4. planned = BestRoutes(g, u, {target})
      BY <2>2 DEF PlannedRoutes
    <2>5. route \in Routes(g, u, {target}, maximum)
      BY <1>3, RouteEnds
    <2>6. planned # {}
      BY <2>4, <2>5, BestFacts
    <2>7. plan.refusal = "" /\ plan.routes = planned
      BY <2>3, <2>6 DEF Plan, RouteRefusal
    <2>8. ASSUME NEW best \in planned
          PROVE  Whole(best)
      <3>1. /\ best \in Routes(g, u, {target}, maximum)
            /\ Score(best, available, maximum)[1] <= Score(route, available, maximum)[1]
        BY <2>4, <2>5, BestFacts
      <3>2. Travels(best, g, u) /\ best[Len(best)].tile = target
        <4>1. Travels(best, g, u)
          BY <1>1, <3>1, ScoreTyping
        <4>2. best[Len(best)].tile \in {target}
          BY <3>1, RouteEnds
        <4> QED BY <4>1, <4>2
      <3>3. Len(best) >= 2
        BY <3>2, PlannedEnds
      <3> DEFINE turns(r) == Pace(r, available, maximum)[Len(r)].turns
      <3>4. turns(route) = 1
        BY <1>1, <1>3, <2>1, <2>2, OneTurnIffMovementLeft
      <3>5. turns(best) \in Nat /\ (turns(best) <= 1 => MovementLeft(best))
        BY <1>1, <3>2, <3>3, OneTurnIffMovementLeft
      <3>6. turns(best) <= turns(route)
        BY <3>1 DEF Score
      <3> HIDE DEF turns, MovementLeft
      <3>7. MovementLeft(best)
        BY <3>4, <3>5, <3>6
      <3>8. Len(best) \in ReachedIndex(best, available)
        BY <1>1, <3>2, <3>7, WholeRouteIffMovementLeft DEF MovementLeft
      <3> QED BY <3>2, <3>8
    <2> HIDE DEF Whole, plan, planned
    <2> QED BY <2>7, <2>8
  <1>4. ASSUME plan.refusal = "", \A route \in plan.routes : Whole(route)
        PROVE  \E route \in away : route[Len(route)].tile = target /\ MovementLeft(route)
    <2>1. plan.routes # {} /\ plan.routes = planned
      <3>1. Plan(g, Owner[u], u, target, g.revision).refusal = ""
        BY <1>4
      <3> HIDE DEF planned
      <3>2. Plan(g, Owner[u], u, target, g.revision).routes # {}
        BY <3>1, PlanHasRoute
      <3>3. Plan(g, Owner[u], u, target, g.revision).routes = PlannedRoutes(g, u, target)
        <4>1. RequestRefusal(g, Owner[u], u, target, g.revision) = ""
          BY <3>1 DEF Plan
        <4> QED BY <4>1 DEF Plan
      <3> QED BY <3>2, <3>3 DEF planned
    <2>2. PICK route \in planned : Whole(route)
      <3> HIDE DEF Whole, plan, planned
      <3> QED BY <1>4, <2>1
    <2>3. Travels(route, g, u)
      BY PlannedFacts
    <2>4. KnownBlockers(g, u, target) = {}
      BY <2>2, <2>3, PlannedEnds
    <2>5. route \in BestRoutes(g, u, {target})
      BY <2>4 DEF PlannedRoutes
    <2>6. route \in Routes(g, u, {target}, maximum)
      BY <2>5, BestFacts
    <2>7. route \in away
      BY <2>2, <2>6, RouteEnds
    <2>8. MovementLeft(route)
      BY <1>1, <2>2, <2>3, WholeRouteIffMovementLeft
    <2> QED BY <2>2, <2>7, <2>8
  <1> HIDE DEF away, plan, MovementLeft
  <1>5. target \in ReachableTiles(g, u) <=>
          plan.refusal = "" /\ \A route \in plan.routes : Whole(route)
    <2> HIDE DEF Whole
    <2> QED BY <1>2, <1>3, <1>4
  <1> QED BY <1>5 DEF OverlayAgrees, plan
=============================================================================
