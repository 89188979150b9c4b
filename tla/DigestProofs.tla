---------------------------- MODULE DigestProofs ----------------------------
(***************************************************************************)
(* For every state: the digest tells two games apart exactly when they are *)
(* different games.                                                        *)
(*                                                                         *)
(* The encoding of each part of a state is a prefix code: two encodings,   *)
(* whatever bytes follow them, are the same bytes only if they encode the  *)
(* same part and the same bytes follow.  Prefix codes join, so the lemmas  *)
(* go from numbers and texts through lists, optional values and sets to    *)
(* the whole state.  A set is written in an order, and the order is found  *)
(* again in what was written.                                              *)
(***************************************************************************)
EXTENDS StateDigest, SequenceTheorems, FiniteSetTheorems, WellFoundedInduction, TLAPS

-----------------------------------------------------------------------------
(* Induction and recursion on numbers, for sets and functions.             *)

LEMMA LeastNatural ==
  ASSUME NEW S, S \subseteq Nat, S # {}
  PROVE  \E m \in S : \A n \in S : m <= n
  <1>1. PICK R : IsWellFoundedOn(R, Nat) /\ \A a, b \in Nat : a < b => <<a, b>> \in R
    <2>1. IsWellFoundedOn(OpToRel(<, Nat), Nat)
      BY NatLessThanWellFounded
    <2>2. \A a, b \in Nat : a < b => <<a, b>> \in OpToRel(<, Nat)
      BY Zenon DEF OpToRel
    <2> QED BY <2>1, <2>2, Zenon
  <1>2. IsWellFoundedOn(R, Nat)
    BY <1>1
  <1>3. \E m \in S : \A n \in S : ~(<<n, m>> \in R)
    BY <1>2, WFMin, Zenon
  <1>4. PICK m \in S : \A n \in S : ~(<<n, m>> \in R)
    BY <1>3
  <1>5. \A n \in S : n \in Nat /\ m \in Nat /\ ~(n < m)
    BY <1>1, <1>4
  <1> QED BY <1>4, <1>5

\* A set of numbers that holds the first of an interval, and with each number
\* of the interval the next, holds the interval.
LEMMA Induction ==
  ASSUME NEW a \in Int, NEW b \in Int, NEW S, 0 <= a,
         a \in S, \A n \in a + 1 .. b : n - 1 \in S => n \in S
  PROVE  \A n \in a .. b : n \in S
  <1> DEFINE Missing == {n \in a .. b : n \notin S}
  <1> SUFFICES ASSUME Missing # {} PROVE FALSE
    OBVIOUS
  <1>1. Missing \subseteq Nat
    OBVIOUS
  <1>2. PICK m \in Missing : \A n \in Missing : m <= n
    <2> HIDE DEF Missing
    <2> QED BY <1>1, LeastNatural
  <1>3. m \in a .. b /\ m \notin S
    OBVIOUS
  <1>4. m \in a + 1 .. b /\ m - 1 \in a .. b /\ ~(m <= m - 1)
    BY <1>3
  <1>5. m - 1 \in S
    BY <1>2, <1>4
  <1> QED BY <1>3, <1>4, <1>5

\* f is given by recursion up to b.
Follows(f, a, b, base, step) ==
    \A n \in a .. b : f[n] = IF n = a THEN base ELSE step[<<f[n - 1], n>>]

LEMMA Recursion ==
  ASSUME NEW a \in Int, NEW b \in Int, 0 <= a, a <= b,
         NEW D, NEW base \in D, NEW step \in [D \X Nat -> D]
  PROVE  \E f \in [a .. b -> D] : Follows(f, a, b, base, step)
  <1> DEFINE S == {m \in a .. b : \E f \in [a .. m -> D] : Follows(f, a, m, base, step)}
  <1>1. a \in S
    <2> DEFINE f == [n \in a .. a |-> base]
    <2>1. f \in [a .. a -> D] /\ Follows(f, a, a, base, step)
      BY DEF Follows
    <2> QED BY <2>1
  <1>2. ASSUME NEW m \in a + 1 .. b, m - 1 \in S
        PROVE  m \in S
    <2>1. PICK f \in [a .. m - 1 -> D] : Follows(f, a, m - 1, base, step)
      BY <1>2
    <2>2. f[m - 1] \in D /\ m \in Nat
      OBVIOUS
    <2> DEFINE last == step[<<f[m - 1], m>>]
               g == [n \in a .. m |-> IF n = m THEN last ELSE f[n]]
    <2>3. last \in D
      BY <2>2
    <2> HIDE DEF last
    <2>4. g \in [a .. m -> D]
      BY <2>3
    <2>5. ASSUME NEW n \in a .. m
          PROVE  g[n] = IF n = a THEN base ELSE step[<<g[n - 1], n>>]
      <3>1. CASE n = m
        <4>1. g[n] = last /\ g[n - 1] = f[n - 1] /\ n # a
          BY <3>1
        <4> QED BY <3>1, <4>1 DEF last
      <3>2. CASE n # m
        <4>1. n \in a .. m - 1 /\ g[n] = f[n] /\ (n # a => g[n - 1] = f[n - 1])
          BY <3>2
        <4>2. f[n] = IF n = a THEN base ELSE step[<<f[n - 1], n>>]
          BY <2>1, <4>1 DEF Follows
        <4> QED BY <4>1, <4>2
      <3> QED BY <3>1, <3>2
    <2> HIDE DEF g
    <2>6. Follows(g, a, m, base, step)
      BY <2>5 DEF Follows
    <2>7. m \in a .. b
      OBVIOUS
    <2> QED BY <2>4, <2>6, <2>7
  <1>3. b \in a .. b
    OBVIOUS
  <1> HIDE DEF S
  <1>4. b \in S
    BY <1>1, <1>2, <1>3, Induction
  <1> QED BY <1>4 DEF S

-----------------------------------------------------------------------------
(* Ord of texts and coordinates is a strict total order.                   *)

\* At i, s ends or is the smaller one; before i they agree.
Splits(s, t, i) ==
    /\ i \in 1 .. Len(t) /\ i <= Len(s) + 1
    /\ \A j \in 1 .. i - 1 : s[j] = t[j]
    /\ i <= Len(s) => s[i] < t[i]

LEMMA BeforeSplits ==
  ASSUME NEW s \in Seq(Int), NEW t \in Seq(Int)
  PROVE  Before(s, t) <=> \E i \in Nat : Splits(s, t, i)
  <1>0. Len(s) \in Nat /\ Len(t) \in Nat /\ DOMAIN s = 1 .. Len(s) /\ DOMAIN t = 1 .. Len(t)
    OBVIOUS
  <1>1. ASSUME IsStrictPrefix(s, t)
        PROVE  Splits(s, t, Len(s) + 1)
    <2>1. Len(s) <= Len(t) /\ SubSeq(s, 1, Len(s)) = SubSeq(t, 1, Len(s)) /\ s # t
      BY <1>1 DEF IsStrictPrefix, IsPrefix
    <2>2. \A j \in 1 .. Len(s) : s[j] = t[j]
      <3> SUFFICES ASSUME NEW j \in 1 .. Len(s) PROVE s[j] = t[j]
        OBVIOUS
      <3>1. SubSeq(s, 1, Len(s))[j] = s[j] /\ SubSeq(t, 1, Len(s))[j] = t[j]
        BY <1>0, <2>1
      <3> QED BY <2>1, <3>1
    <2>3. Len(s) # Len(t)
      BY <1>0, <2>1, <2>2, SeqEqual
    <2> DEFINE m == Len(s)  n == Len(t)
    <2>5. m \in Nat /\ n \in Nat /\ m <= n /\ m # n
      BY <1>0, <2>1, <2>3
    <2> HIDE DEF m, n
    <2>6. m + 1 \in 1 .. n /\ m + 1 <= m + 1 /\ (m + 1) - 1 = m /\ ~(m + 1 <= m)
      BY <2>5
    <2>4. /\ Len(s) + 1 \in 1 .. Len(t) /\ Len(s) + 1 <= Len(s) + 1 /\ (Len(s) + 1) - 1 = Len(s)
          /\ ~(Len(s) + 1 <= Len(s))
      BY <2>6 DEF m, n
    <2> QED BY <2>2, <2>4 DEF Splits
  <1>2. ASSUME NEW i \in DOMAIN s \cap DOMAIN t,
               s[i] < t[i] /\ \A j \in 1 .. i - 1 : s[j] = t[j]
        PROVE  Splits(s, t, i) /\ i \in Nat
    BY <1>0, <1>2 DEF Splits
  <1>3. ASSUME NEW i \in Nat, Splits(s, t, i), i = Len(s) + 1
        PROVE  IsStrictPrefix(s, t)
    <2>1. Len(s) <= Len(t) /\ s # t /\ \A j \in 1 .. Len(s) : s[j] = t[j]
      BY <1>0, <1>3 DEF Splits
    <2>2. SubSeq(s, 1, Len(s)) = SubSeq(t, 1, Len(s))
      BY <1>0, <2>1
    <2> QED BY <2>1, <2>2 DEF IsStrictPrefix, IsPrefix
  <1>4. ASSUME NEW i \in Nat, Splits(s, t, i), i # Len(s) + 1
        PROVE  /\ i \in DOMAIN s \cap DOMAIN t
               /\ s[i] < t[i] /\ \A j \in 1 .. i - 1 : s[j] = t[j]
    BY <1>0, <1>4 DEF Splits
  <1>5. Before(s, t) => \E i \in Nat : Splits(s, t, i)
    BY <1>0, <1>1, <1>2 DEF Before
  <1>6. (\E i \in Nat : Splits(s, t, i)) => Before(s, t)
    BY <1>3, <1>4 DEF Before
  <1> QED BY <1>5, <1>6

LEMMA BeforeIrreflexive ==
  ASSUME NEW s \in Seq(Int)
  PROVE  ~ Before(s, s)
  <1>1. \A i \in 1 .. Len(s) : s[i] \in Int /\ ~(s[i] < s[i])
    OBVIOUS
  <1>2. Len(s) \in Nat
    OBVIOUS
  <1>3. \A i \in Nat : ~ Splits(s, s, i)
    BY <1>1, <1>2 DEF Splits
  <1> QED BY <1>3, BeforeSplits

LEMMA BeforeTransitive ==
  ASSUME NEW s \in Seq(Int), NEW t \in Seq(Int), NEW u \in Seq(Int),
         Before(s, t), Before(t, u)
  PROVE  Before(s, u)
  <1>0. Len(s) \in Nat /\ Len(t) \in Nat /\ Len(u) \in Nat
    OBVIOUS
  <1>1. PICK i \in Nat : Splits(s, t, i)
    BY BeforeSplits
  <1>2. PICK k \in Nat : Splits(t, u, k)
    BY BeforeSplits
  <1>3. /\ \A j \in 1 .. Len(s) : s[j] \in Int
        /\ \A j \in 1 .. Len(t) : t[j] \in Int
        /\ \A j \in 1 .. Len(u) : u[j] \in Int
    OBVIOUS
  <1>4. CASE i < k
    <2>1. i \in 1 .. Len(u) /\ t[i] = u[i] /\ i <= Len(s) + 1
      BY <1>0, <1>1, <1>2, <1>4 DEF Splits
    <2>2. \A j \in 1 .. i - 1 : s[j] = u[j]
      BY <1>0, <1>1, <1>2, <1>4 DEF Splits
    <2>3. Splits(s, u, i)
      BY <2>1, <2>2, <1>1 DEF Splits
    <2> QED BY <2>3, BeforeSplits
  <1>5. CASE k < i
    <2>0. /\ i \in 1 .. Len(t) /\ i <= Len(s) + 1 /\ k \in 1 .. Len(u)
          /\ \A j \in 1 .. i - 1 : s[j] = t[j]
          /\ k <= Len(t) => t[k] < u[k]
      BY <1>1, <1>2 DEF Splits
    <2>9. k <= Len(t) /\ k <= Len(s) /\ k \in 1 .. i - 1
      <3> DEFINE ls == Len(s)
                 lt == Len(t)
                 lu == Len(u)
      <3>1. /\ ls \in Nat /\ lt \in Nat /\ lu \in Nat
            /\ i \in 1 .. lt /\ i <= ls + 1 /\ k \in 1 .. lu
        BY <1>0, <2>0
      <3> HIDE DEF ls, lt, lu
      <3>2. k <= lt /\ k <= ls /\ k \in 1 .. i - 1
        BY <1>5, <3>1
      <3> QED BY <3>2 DEF ls, lt
    <2>1. k \in 1 .. Len(u) /\ k <= Len(t) /\ k <= Len(s) /\ s[k] = t[k] /\ t[k] < u[k]
      BY <2>0, <2>9
    <2>2. \A j \in 1 .. k - 1 : s[j] = u[j]
      BY <1>0, <1>1, <1>2, <1>5 DEF Splits
    <2>3. Splits(s, u, k)
      BY <1>0, <2>1, <2>2 DEF Splits
    <2> QED BY <2>3, BeforeSplits
  <1>6. CASE i = k
    <2>1. i \in 1 .. Len(u) /\ i \in 1 .. Len(t) /\ i <= Len(s) + 1 /\ t[i] < u[i]
      BY <1>0, <1>1, <1>2, <1>6 DEF Splits
    <2>2. i <= Len(s) => s[i] < u[i]
      <3> SUFFICES ASSUME i <= Len(s) PROVE s[i] < u[i]
        OBVIOUS
      <3>1. s[i] < t[i] /\ t[i] < u[i]
        BY <1>1, <2>1 DEF Splits
      <3>2. s[i] \in Int /\ t[i] \in Int /\ u[i] \in Int
        <4>1. i \in 1 .. Len(s)
          BY <1>0, <2>1
        <4> QED BY <1>3, <2>1, <4>1
      <3> DEFINE a == s[i]
                 b == t[i]
                 c == u[i]
      <3>3. a \in Int /\ b \in Int /\ c \in Int /\ a < b /\ b < c
        BY <3>1, <3>2
      <3> HIDE DEF a, b, c
      <3>4. a < c
        BY <3>3
      <3> QED BY <3>4 DEF a, c
    <2>3. \A j \in 1 .. i - 1 : s[j] = u[j]
      BY <1>0, <1>1, <1>2, <1>6 DEF Splits
    <2>4. Splits(s, u, i)
      BY <2>1, <2>2, <2>3 DEF Splits
    <2> QED BY <2>4, BeforeSplits
  <1> QED BY <1>4, <1>5, <1>6

LEMMA BeforeTotal ==
  ASSUME NEW s \in Seq(Int), NEW t \in Seq(Int), s # t
  PROVE  Before(s, t) \/ Before(t, s)
  <1>0. Len(s) \in Nat /\ Len(t) \in Nat
    OBVIOUS
  <1> DEFINE Differ == {i \in Nat : i > 0 /\ (i > Len(s) \/ i > Len(t) \/ s[i] # t[i])}
  <1>1. Differ \subseteq Nat /\ Len(s) + 1 \in Differ
    BY <1>0
  <1>2. PICK m \in Differ : \A n \in Differ : m <= n
    <2> HIDE DEF Differ
    <2> QED BY <1>1, LeastNatural
  <1>3. m \in Nat /\ m > 0 /\ (m > Len(s) \/ m > Len(t) \/ s[m] # t[m])
    OBVIOUS
  <1>4. \A j \in 1 .. m - 1 : j <= Len(s) /\ j <= Len(t) /\ s[j] = t[j]
    BY <1>0, <1>2, <1>3
  <1>5. m <= Len(s) + 1 /\ m <= Len(t) + 1
    BY <1>0, <1>2, <1>4, <1>3
  <1>6. ~(m > Len(s) /\ m > Len(t))
    <2> SUFFICES ASSUME m > Len(s) /\ m > Len(t) PROVE FALSE
      OBVIOUS
    <2>1. Len(s) = m - 1 /\ Len(t) = m - 1
      BY <1>0, <1>3, <1>5
    <2>2. s = t
      BY <1>4, <2>1
    <2> QED BY <2>2
  <1>7. CASE m > Len(s)
    <2>1. Splits(s, t, m)
      BY <1>0, <1>3, <1>4, <1>5, <1>6, <1>7 DEF Splits
    <2> QED BY <2>1, <1>3, BeforeSplits
  <1>8. CASE m > Len(t)
    <2>1. Splits(t, s, m)
      BY <1>0, <1>3, <1>4, <1>5, <1>6, <1>8 DEF Splits
    <2> QED BY <2>1, <1>3, BeforeSplits
  <1>9. CASE ~(m > Len(s)) /\ ~(m > Len(t))
    <2>1. m \in 1 .. Len(s) /\ m \in 1 .. Len(t) /\ s[m] # t[m]
      BY <1>0, <1>3, <1>9
    <2>2. s[m] \in Int /\ t[m] \in Int /\ (s[m] < t[m] \/ t[m] < s[m])
      BY <2>1
    <2>3. Splits(s, t, m) \/ Splits(t, s, m)
      BY <1>0, <1>4, <1>5, <2>1, <2>2 DEF Splits
    <2> QED BY <2>3, <1>3, BeforeSplits
  <1> QED BY <1>7, <1>8, <1>9

-----------------------------------------------------------------------------
(* Numbers and lists.                                                      *)

LEMMA NumberTyping ==
  /\ \A n \in Nat : n < 65536 => n \in Numbers /\ n \in LongNumbers /\ n \in Lengths
  /\ 0 \in Numbers /\ 0 \in LongNumbers /\ 0 \in Lengths /\ 0 \in 0 .. 3
  <1>1. ASSUME NEW n \in Nat, n < 65536
        PROVE  n \in Numbers /\ n \in LongNumbers /\ n \in Lengths
    <2>1. n \div 65536 = 0
      BY <1>1
    <2>2. 0 \div 65536 = 0 /\ 0 < 65536 /\ 0 < 32768
      OBVIOUS
    <2> QED BY <2>1, <2>2 DEF Numbers, LongNumbers, Lengths
  <1>2. 0 \in Nat /\ 0 < 65536 /\ 0 \in 0 .. 3
    OBVIOUS
  <1> QED BY <1>1, <1>2

\* What a list of a document is mapped to is a list, and a set of as many
\* elements at most.
LEMMA EachIsList ==
  ASSUME NEW S, NEW s, IsList(s), NEW f, f = [i \in DOMAIN s |-> f[i]],
         \A i \in DOMAIN s : f[i] \in S
  PROVE  f \in ListsOf(S) /\ Len(f) = Len(s) /\ DOMAIN f = DOMAIN s
  <1> DEFINE n == Len(s)
  <1>1. n \in Nat /\ n \in Lengths /\ DOMAIN s = 1 .. n
    BY DEF IsList, Lengths
  <1> HIDE DEF n
  <1>2. f \in Seq(S)
    BY <1>1
  <1>3. Len(f) = n /\ DOMAIN f = 1 .. n
    BY <1>1, <1>2
  <1> QED BY <1>1, <1>2, <1>3 DEF ListsOf, n

\* A smaller set is a set.
LEMMA ShorterLength == \A m \in Lengths, n \in Nat : n <= m => n \in Lengths
  <1> SUFFICES ASSUME NEW m \in Lengths, NEW n \in Nat, n <= m PROVE n \in Lengths
    OBVIOUS
  <1>1. \A a, b \in Nat : a <= b => a \div 65536 \in Nat /\ b \div 65536 \in Nat
                                   /\ a \div 65536 <= b \div 65536
    OBVIOUS
  <1>2. m \in Nat
    BY DEF Lengths
  <1>3. n \div 65536 \in Nat /\ m \div 65536 \in Nat /\ n \div 65536 <= m \div 65536
    BY <1>1, <1>2
  <1>4. /\ (n \div 65536) \div 65536 \in Nat /\ (m \div 65536) \div 65536 \in Nat
        /\ (n \div 65536) \div 65536 <= (m \div 65536) \div 65536
    BY <1>1, <1>3
  <1>5. /\ ((n \div 65536) \div 65536) \div 65536 \in Nat
        /\ ((m \div 65536) \div 65536) \div 65536 \in Nat
        /\ ((n \div 65536) \div 65536) \div 65536 <= ((m \div 65536) \div 65536) \div 65536
    BY <1>1, <1>4
  <1> QED BY <1>5 DEF Lengths

LEMMA PartsAreSets ==
  ASSUME NEW S, NEW T \in SortedSets(S), NEW U \in SUBSET T
  PROVE  U \in SortedSets(S)
  <1>1. IsFiniteSet(T) /\ Cardinality(T) \in Lengths /\ T \subseteq S
    BY DEF SortedSets
  <1>2. IsFiniteSet(U) /\ Cardinality(U) <= Cardinality(T) /\ Cardinality(U) \in Nat
    BY <1>1, FS_Subset, FS_CardinalityType
  <1> QED BY <1>1, <1>2, ShorterLength DEF SortedSets

\* The elements of a list.
LEMMA ElementsAreSet ==
  ASSUME NEW S, NEW s, IsList(s), NEW f, f = [i \in DOMAIN s |-> f[i]],
         \A i \in DOMAIN s : f[i] \in S
  PROVE  ToSet(f) \in SortedSets(S)
  <1> DEFINE n == Len(s)
  <1>1. n \in Nat /\ n \in Lengths /\ DOMAIN s = 1 .. n
    BY DEF IsList, Lengths
  <1> HIDE DEF n
  <1>2. DOMAIN f = 1 .. n
    BY <1>1
  <1>3. ToSet(f) = {f[i] : i \in 1 .. n}
    BY <1>2 DEF ToSet
  <1>4. f \in [1 .. n -> ToSet(f)]
    BY <1>1, <1>3
  <1>5. \A x \in ToSet(f) : \E i \in 1 .. n : f[i] = x
    BY <1>3
  <1>6. f \in Surjection(1 .. n, ToSet(f))
    BY <1>4, <1>5 DEF Surjection
  <1>7. IsFiniteSet(1 .. n) /\ Cardinality(1 .. n) = n
    BY <1>1, FS_Interval
  <1>8. IsFiniteSet(ToSet(f)) /\ Cardinality(ToSet(f)) <= n
    BY <1>6, <1>7, FS_Surjection
  <1>9. Cardinality(ToSet(f)) \in Lengths
    BY <1>1, <1>8, ShorterLength, FS_CardinalityType
  <1>10. ToSet(f) \subseteq S
    BY <1>1, <1>3
  <1> QED BY <1>8, <1>9, <1>10 DEF SortedSets

LEMMA TextsAreSequences ==
  Texts \subseteq Seq(Int) /\ Ids \subseteq Seq(Int) /\ HexCoord \subseteq Seq(Int)
  <1>1. Byte \subseteq Int
    BY DEF Byte
  <1>2. Seq(Byte) \subseteq Seq(Int)
    BY <1>1, SeqMonotonic
  <1>3. \A a, b \in Int : <<a, b>> \in Seq(Int)
    OBVIOUS
  <1>4. Texts \subseteq Seq(Int)
    BY <1>2 DEF Texts, ListsOf
  <1>5. HexCoord \subseteq Seq(Int)
    <2>1. SignedNumbers \subseteq Int
      BY DEF SignedNumbers
    <2>2. \A c \in HexCoord : c \in Int \X Int
      BY <2>1 DEF HexCoord
    <2>3. \A c \in Int \X Int : c \in Seq(Int)
      <3> SUFFICES ASSUME NEW c \in Int \X Int PROVE c \in Seq(Int)
        OBVIOUS
      <3>1. c = <<c[1], c[2]>> /\ c[1] \in Int /\ c[2] \in Int
        OBVIOUS
      <3>2. <<c[1], c[2]>> \in Seq(Int)
        BY <1>3, <3>1
      <3> QED BY <3>1, <3>2, Zenon
    <2> QED BY <2>2, <2>3
  <1> QED BY <1>4, <1>5 DEF Ids

-----------------------------------------------------------------------------
(* Sorting a set by a strict total order.                                  *)

\* R[x] holds what is before x in a strict total order of S.
Orders(R, S) ==
    /\ R \in [S -> SUBSET S]
    /\ \A x \in S : x \notin R[x]
    /\ \A x, y, z \in S : x \in R[y] /\ y \in R[z] => x \in R[z]
    /\ \A x, y \in S : x # y => x \in R[y] \/ y \in R[x]

Arranged(R, S) ==
    [i \in 1 .. Cardinality(S) |-> CHOOSE x \in S : Cardinality(R[x]) = i - 1]

\* The sorted sequence has every element of the set, once, and in order.
LEMMA ArrangedFacts ==
  ASSUME NEW S, IsFiniteSet(S), NEW R, Orders(R, S)
  PROVE  /\ Cardinality(S) \in Nat
         /\ Arranged(R, S) \in Seq(S) /\ Len(Arranged(R, S)) = Cardinality(S)
         /\ ToSet(Arranged(R, S)) = S
         /\ \A x, y \in S : Cardinality(R[x]) < Cardinality(R[y])
                               <=> x \in R[y]
  <1> DEFINE n == Cardinality(S)
             ranks == [x \in S |-> Cardinality(R[x])]
  <1>1. n \in Nat
    BY FS_CardinalityType
  <1>2. ASSUME NEW x \in S
        PROVE  IsFiniteSet(R[x]) /\ ranks[x] \in Nat /\ ranks[x] < n
    <2>1. R[x] \in SUBSET S /\ R[x] # S
      BY DEF Orders
    <2>2. /\ IsFiniteSet(R[x])
          /\ Cardinality(R[x]) <= Cardinality(S)
          /\ Cardinality(R[x]) # Cardinality(S)
      BY <2>1, FS_Subset
    <2>3. Cardinality(R[x]) \in Nat
      BY <2>2, FS_CardinalityType
    <2>4. ranks[x] = Cardinality(R[x])
      OBVIOUS
    <2> QED BY <1>1, <2>2, <2>3, <2>4
  <1>3. ASSUME NEW x \in S, NEW y \in S, x \in R[y]
        PROVE  ranks[x] < ranks[y]
    <2>1. R[x] \in SUBSET R[y] /\ R[x] # R[y]
      BY <1>3 DEF Orders
    <2>2. /\ Cardinality(R[x]) <= Cardinality(R[y])
          /\ Cardinality(R[x]) # Cardinality(R[y])
      BY <1>2, <2>1, FS_Subset
    <2>3. ranks[x] = Cardinality(R[x]) /\ ranks[y] = Cardinality(R[y])
      OBVIOUS
    <2>4. ranks[x] \in Nat /\ ranks[y] \in Nat
      BY <1>2
    <2> QED BY <2>2, <2>3, <2>4
  <1>20. \A x \in S : ranks[x] = Cardinality(R[x])
    OBVIOUS
  <1>21. ranks \in [S -> 0 .. n - 1]
    BY <1>1, <1>2
  <1> HIDE DEF n, ranks
  <1>22. \A x, y \in S : x # y => x \in R[y] \/ y \in R[x]
    BY DEF Orders
  <1>23. \A x, y \in S : ranks[x] \in Int /\ (x \in R[y] => ranks[x] < ranks[y])
    BY <1>2, <1>3
  <1>4. \A x, y \in S : ranks[x] < ranks[y] <=> x \in R[y]
    BY <1>22, <1>23
  <1>24. \A x, y \in S : ranks[x] = ranks[y] => x = y
    BY <1>22, <1>23
  <1>5. ranks \in Injection(S, 0 .. n - 1)
    <2>1. DOMAIN ranks = S
      BY <1>21
    <2> QED BY <1>21, <1>24, <2>1 DEF Injection, IsInjective
  <1>6. IsFiniteSet(0 .. n - 1) /\ Cardinality(0 .. n - 1) = n
    BY <1>1, FS_Interval
  <1>7. ranks \in Surjection(S, 0 .. n - 1)
    BY <1>5, <1>6, FS_Injection DEF n
  <1>8. \A i \in 1 .. n : \E x \in S : ranks[x] = i - 1
    <2>1. \A k \in 0 .. n - 1 : \E x \in S : ranks[x] = k
      BY <1>7 DEF Surjection
    <2>2. \A i \in 1 .. n : i - 1 \in 0 .. n - 1
      BY <1>1
    <2> QED BY <2>1, <2>2
  <1> DEFINE f == [i \in 1 .. n |-> CHOOSE x \in S : ranks[x] = i - 1]
  <1>9. \A i \in 1 .. n : f[i] \in S /\ ranks[f[i]] = i - 1
    BY <1>8
  <1>10. f \in Seq(S) /\ Len(f) = n
    BY <1>1, <1>9
  <1>11. S \subseteq {f[i] : i \in 1 .. n}
    <2> SUFFICES ASSUME NEW x \in S PROVE \E i \in 1 .. n : f[i] = x
      OBVIOUS
    <2>1. ranks[x] + 1 \in 1 .. n /\ (ranks[x] + 1) - 1 = ranks[x]
      BY <1>1, <1>2
    <2>2. f[ranks[x] + 1] \in S /\ ranks[f[ranks[x] + 1]] = ranks[x]
      BY <1>9, <2>1
    <2>3. f[ranks[x] + 1] = x
      BY <1>24, <2>2
    <2> QED BY <2>1, <2>3
  <1>12. ToSet(f) = S
    BY <1>9, <1>10, <1>11 DEF ToSet
  <1>13. Arranged(R, S) = f
    <2>1. Arranged(R, S) = [i \in 1 .. n |-> CHOOSE x \in S : Cardinality(R[x]) = i - 1]
      BY DEF Arranged, n
    <2>2. \A i \in 1 .. n : (CHOOSE x \in S : ranks[x] = i - 1)
                           = (CHOOSE x \in S : Cardinality(R[x]) = i - 1)
      BY <1>20
    <2> QED BY <2>1, <2>2
  <1> HIDE DEF f
  <1> QED BY <1>1, <1>4, <1>10, <1>12, <1>13, <1>20 DEF n

-----------------------------------------------------------------------------
(* Prefix codes.  Whatever bytes follow them, two encodings can only agree *)
(* when what they encode agrees, and then what follows them agrees too.    *)

Code == Seq(Byte)
Join(s, t) == s \o t

Agree(a, b, x, y) ==
    /\ a \in Code /\ b \in Code
    /\ \A r, q \in Code : Join(a, r) = Join(b, q) => x = y /\ r = q

LEMMA Joined == \A s, t \in Code : Join(s, t) \in Code
  BY ConcatProperties DEF Code, Join

LEMMA Associates ==
  \A s, t, u \in Code : Join(Join(s, t), u) = Join(s, Join(t, u))
  BY ConcatAssociative DEF Code, Join

\* One encoding after another, of parts that may depend on the first.
LEMMA AgreeThen ==
  ASSUME NEW a, NEW b, NEW x, NEW y, Agree(a, b, x, y),
         NEW c \in Code, NEW d \in Code, NEW z, NEW w,
         x = y => Agree(c, d, z, w)
  PROVE  Agree(a \o c, b \o d, <<x, z>>, <<y, w>>)
  <1>1. a \in Code /\ b \in Code
    BY DEF Agree
  <1>2. Join(a, c) \in Code /\ Join(b, d) \in Code
    BY <1>1, Joined
  <1>3. ASSUME NEW r \in Code, NEW q \in Code, Join(Join(a, c), r) = Join(Join(b, d), q)
        PROVE  <<x, z>> = <<y, w>> /\ r = q
    <2>1. Join(c, r) \in Code /\ Join(Join(a, c), r) = Join(a, Join(c, r))
      BY <1>1, Associates, Joined
    <2>2. Join(d, q) \in Code /\ Join(Join(b, d), q) = Join(b, Join(d, q))
      BY <1>1, Associates, Joined
    <2>3. x = y /\ Join(c, r) = Join(d, q)
      BY <1>3, <2>1, <2>2 DEF Agree
    <2>4. z = w /\ r = q
      BY <2>3 DEF Agree
    <2> QED BY <2>3, <2>4
  <1>4. Agree(Join(a, c), Join(b, d), <<x, z>>, <<y, w>>)
    BY <1>2, <1>3 DEF Agree
  <1> QED BY <1>4, Zenon DEF Join

\* What decides one value decides another that depends on it.
LEMMA AgreeOn ==
  ASSUME NEW a, NEW b, NEW x, NEW y, Agree(a, b, x, y), NEW z, NEW w, x = y => z = w
  PROVE  Agree(a, b, z, w)
  BY DEF Agree

LEMMA AgreeOnEqual ==
  ASSUME NEW x, NEW y, x = y
  PROVE  Agree(<<>>, <<>>, x, y)
  <1>1. \A r \in Code : Join(<<>>, r) = r
    BY ConcatEmptySeq DEF Join, Code
  <1> QED BY <1>1, EmptySeq DEF Agree, Code

LEMMA AgreeOnNothing == Agree(<<>>, <<>>, TRUE, TRUE)
  <1>1. <<>> \in Code /\ \A r \in Code : Join(<<>>, r) = r
    BY ConcatEmptySeq DEF Code, Join
  <1> QED BY <1>1 DEF Agree

\* Encodings of one length agree where their bytes do.
LEMMA AgreeOnLength ==
  ASSUME NEW a \in Code, NEW b \in Code, Len(a) = Len(b),
         NEW x, NEW y, a = b => x = y
  PROVE  Agree(a, b, x, y)
  <1>1. ASSUME NEW r \in Seq(Byte), NEW q \in Seq(Byte), a \o r = b \o q
        PROVE  a = b /\ r = q
    <2>0. a \in Seq(Byte) /\ b \in Seq(Byte)
      BY DEF Code
    <2>1. \A i \in 1 .. Len(a) : (a \o r)[i] = a[i] /\ (b \o q)[i] = b[i]
      BY <2>0
    <2>2. a = b
      BY <1>1, <2>0, <2>1, SeqEqual
    <2>3. Len(a \o r) = Len(a) + Len(r) /\ Len(b \o q) = Len(b) + Len(q)
      BY <2>0, ConcatProperties
    <2>4. Len(r) = Len(q)
      BY <1>1, <2>3
    <2>5. \A i \in 1 .. Len(r) : r[i] = (a \o r)[Len(a) + i]
      BY <2>0
    <2>6. \A i \in 1 .. Len(r) : q[i] = (b \o q)[Len(b) + i]
      BY <2>0, <2>4
    <2>7. \A i \in 1 .. Len(r) : r[i] = q[i]
      BY <1>1, <2>5, <2>6
    <2>8. r = q
      BY <2>4, <2>7, SeqEqual
    <2> QED BY <2>2, <2>8
  <1> QED BY <1>1, Zenon DEF Agree, Code, Join

-----------------------------------------------------------------------------
(* Numbers.                                                                *)

\* A number is its lowest byte and the rest, or its lowest word and the rest.
LEMMA Digits ==
  /\ \A n \in Int : n % 256 \in Byte /\ n = 256 * (n \div 256) + (n % 256) /\ n \div 256 \in Int
  /\ \A n \in Int : /\ n % 65536 \in Nat /\ n = 65536 * (n \div 65536) + (n % 65536)
                    /\ n \div 65536 \in Int
  BY DEF Byte

LEMMA NumberBytes ==
  \A n \in Int : /\ U8(n) \in Seq(Byte) /\ Len(U8(n)) = 1
                 /\ U16(n) \in Seq(Byte) /\ Len(U16(n)) = 2
                 /\ U32(n) \in Seq(Byte) /\ Len(U32(n)) = 4
                 /\ U64(n) \in Seq(Byte) /\ Len(U64(n)) = 8
  <1>1. \A n \in Int : U8(n) \in Seq(Byte) /\ Len(U8(n)) = 1
    BY Digits DEF U8
  <1>2. \A n \in Int : U16(n) \in Seq(Byte) /\ Len(U16(n)) = 2
    BY Digits DEF U16
  <1>3. \A n \in Int : U32(n) \in Seq(Byte) /\ Len(U32(n)) = 4
    <2> SUFFICES ASSUME NEW n \in Int PROVE U32(n) \in Seq(Byte) /\ Len(U32(n)) = 4
      OBVIOUS
    <2> DEFINE a == U16(n)  b == U16(n \div 65536)
    <2>1. a \in Seq(Byte) /\ b \in Seq(Byte) /\ Len(a) = 2 /\ Len(b) = 2
      BY <1>2, Digits
    <2>2. U32(n) = a \o b
      BY DEF U32
    <2> HIDE DEF a, b
    <2>3. a \o b \in Seq(Byte) /\ Len(a \o b) = Len(a) + Len(b)
      BY <2>1, ConcatProperties
    <2> QED BY <2>1, <2>2, <2>3
  <1>4. \A n \in Int : U64(n) \in Seq(Byte) /\ Len(U64(n)) = 8
    <2> SUFFICES ASSUME NEW n \in Int PROVE U64(n) \in Seq(Byte) /\ Len(U64(n)) = 8
      OBVIOUS
    <2> DEFINE a == U32(n)  b == U32((n \div 65536) \div 65536)
    <2>1. (n \div 65536) \div 65536 \in Int
      BY Digits
    <2>2. a \in Seq(Byte) /\ b \in Seq(Byte) /\ Len(a) = 4 /\ Len(b) = 4
      BY <1>3, <2>1
    <2>3. U64(n) = a \o b
      BY DEF U64
    <2> HIDE DEF a, b
    <2>4. a \o b \in Seq(Byte) /\ Len(a \o b) = Len(a) + Len(b)
      BY <2>2, ConcatProperties
    <2> QED BY <2>2, <2>3, <2>4
  <1> QED BY <1>1, <1>2, <1>3, <1>4

LEMMA U8Agree == \A m, n \in Byte : Agree(U8(m), U8(n), m, n)
  <1> SUFFICES ASSUME NEW m \in Byte, NEW n \in Byte PROVE Agree(U8(m), U8(n), m, n)
    OBVIOUS
  <1>1. m \in Int /\ n \in Int /\ m % 256 = m /\ n % 256 = n
    BY DEF Byte
  <1>2. U8(m) = U8(n) => m = n
    BY <1>1 DEF U8
  <1>3. U8(m) \in Code /\ U8(n) \in Code /\ Len(U8(m)) = Len(U8(n))
    BY <1>1, NumberBytes DEF Code
  <1> QED BY <1>2, <1>3, AgreeOnLength

\* Two bytes hold the lowest word.
LEMMA U16Holds == \A m, n \in Int : U16(m) = U16(n) => m % 65536 = n % 65536
  <1> SUFFICES ASSUME NEW m \in Int, NEW n \in Int, U16(m) = U16(n)
               PROVE  m % 65536 = n % 65536
    OBVIOUS
  <1>1. m % 256 = n % 256 /\ (m \div 256) % 256 = (n \div 256) % 256
    BY DEF U16
  <1>2. \A k \in Int : k % 65536 = 256 * ((k \div 256) % 256) + (k % 256)
    OBVIOUS
  <1> QED BY <1>1, <1>2

LEMMA U32Holds ==
  \A m, n \in Int : U32(m) = U32(n) =>
      m % 65536 = n % 65536 /\ (m \div 65536) % 65536 = (n \div 65536) % 65536
  <1> SUFFICES ASSUME NEW m \in Int, NEW n \in Int, U32(m) = U32(n)
               PROVE  m % 65536 = n % 65536 /\ (m \div 65536) % 65536 = (n \div 65536) % 65536
    OBVIOUS
  <1> DEFINE a == U16(m)  b == U16(m \div 65536)  c == U16(n)  d == U16(n \div 65536)
  <1>1. /\ a \in Code /\ b \in Code /\ c \in Code /\ d \in Code
        /\ Len(a) = Len(c) /\ m \div 65536 \in Int /\ n \div 65536 \in Int
    BY NumberBytes, Digits DEF Code
  <1>2. a \o b = c \o d
    BY DEF U32
  <1> HIDE DEF a, b, c, d
  <1>3. Agree(a, c, a, c)
    BY <1>1, AgreeOnLength
  <1>4. a = c /\ b = d
    <2>1. \A r, q \in Code : Join(a, r) = Join(c, q) => a = c /\ r = q
      BY <1>3 DEF Agree
    <2>2. Join(a, b) = Join(c, d)
      BY <1>2 DEF Join
    <2> QED BY <1>1, <2>1, <2>2
  <1> QED BY <1>1, <1>4, U16Holds DEF a, b, c, d

LEMMA U16Agree == \A m, n \in ShortNumbers : Agree(U16(m), U16(n), m, n)
  <1> SUFFICES ASSUME NEW m \in ShortNumbers, NEW n \in ShortNumbers
               PROVE  Agree(U16(m), U16(n), m, n)
    OBVIOUS
  <1>1. m \in Int /\ n \in Int /\ m % 65536 = m /\ n % 65536 = n
    BY DEF ShortNumbers
  <1>2. U16(m) = U16(n) => m = n
    BY <1>1, U16Holds
  <1>3. U16(m) \in Code /\ U16(n) \in Code /\ Len(U16(m)) = Len(U16(n))
    BY <1>1, NumberBytes DEF Code
  <1> QED BY <1>2, <1>3, AgreeOnLength

LEMMA U32Agree == \A m, n \in Numbers : Agree(U32(m), U32(n), m, n)
  <1> SUFFICES ASSUME NEW m \in Numbers, NEW n \in Numbers PROVE Agree(U32(m), U32(n), m, n)
    OBVIOUS
  <1>1. \A k \in Numbers : k \in Int /\ (k \div 65536) % 65536 = k \div 65536
    <2>1. \A k \in Nat : k \div 65536 \in Nat
      OBVIOUS
    <2>2. \A k \in Nat : k < 65536 => k % 65536 = k
      OBVIOUS
    <2> QED BY <2>1, <2>2 DEF Numbers
  <1>2. U32(m) = U32(n) => m = n
    <2> SUFFICES ASSUME U32(m) = U32(n) PROVE m = n
      OBVIOUS
    <2>1. m % 65536 = n % 65536 /\ m \div 65536 = n \div 65536
      BY <1>1, U32Holds
    <2> QED BY <1>1, <2>1, Digits
  <1>3. U32(m) \in Code /\ U32(n) \in Code /\ Len(U32(m)) = Len(U32(n))
    BY <1>1, NumberBytes DEF Code
  <1> QED BY <1>2, <1>3, AgreeOnLength

\* A word with a sign is known by its low word.
LEMMA SignedWords ==
  ASSUME NEW i \in Int, NEW j \in Int,
         0 - 32768 <= i, i < 32768, 0 - 32768 <= j, j < 32768, i % 65536 = j % 65536
  PROVE  i = j
  <1>1. PICK p \in Int, k \in Int : p = i \div 65536 /\ k = i % 65536 /\ i = 65536 * p + k
    BY Digits
  <1>2. PICK q \in Int : q = j \div 65536 /\ j = 65536 * q + k
    BY <1>1, Digits
  <1>3. i - j = 65536 * (p - q)
    BY <1>1, <1>2
  <1>4. p - q = 0
    <2>1. 0 - 65536 < 65536 * (p - q) /\ 65536 * (p - q) < 65536
      BY <1>3
    <2> QED BY <2>1
  <1> QED BY <1>3, <1>4

LEMMA SignedAgree == \A m, n \in SignedNumbers : Agree(U32(m), U32(n), m, n)
  <1> SUFFICES ASSUME NEW m \in SignedNumbers, NEW n \in SignedNumbers
               PROVE  Agree(U32(m), U32(n), m, n)
    OBVIOUS
  <1>1. \A k \in SignedNumbers : /\ k \in Int /\ k \div 65536 \in Int
                                /\ 0 - 32768 <= k \div 65536 /\ k \div 65536 < 32768
    BY Digits DEF SignedNumbers
  <1>3. U32(m) = U32(n) => m = n
    <2> SUFFICES ASSUME U32(m) = U32(n) PROVE m = n
      OBVIOUS
    <2>1. m % 65536 = n % 65536 /\ (m \div 65536) % 65536 = (n \div 65536) % 65536
      BY <1>1, U32Holds
    <2>2. m \div 65536 = n \div 65536
      BY <1>1, <2>1, SignedWords
    <2> QED BY <1>1, <2>1, <2>2, Digits
  <1>4. U32(m) \in Code /\ U32(n) \in Code /\ Len(U32(m)) = Len(U32(n))
    BY <1>1, NumberBytes DEF Code
  <1> QED BY <1>3, <1>4, AgreeOnLength

LEMMA U64Agree == \A m, n \in LongNumbers : Agree(U64(m), U64(n), m, n)
  <1> SUFFICES ASSUME NEW m \in LongNumbers, NEW n \in LongNumbers
               PROVE  Agree(U64(m), U64(n), m, n)
    OBVIOUS
  <1> DEFINE up(k) == (k \div 65536) \div 65536
  <1>1. \A k \in LongNumbers : /\ k \in Int /\ up(k) \in Numbers
    <2>1. \A k \in Nat : k \div 65536 \in Nat
      OBVIOUS
    <2> QED BY <2>1 DEF LongNumbers, Numbers
  <1> DEFINE a == U32(m)  b == U32(up(m))  c == U32(n)  d == U32(up(n))
  <1>2. /\ a \in Code /\ b \in Code /\ c \in Code /\ d \in Code
        /\ Len(a) = Len(c)
    <2>1. up(m) \in Int /\ up(n) \in Int
      BY <1>1 DEF Numbers
    <2> QED BY <1>1, <2>1, NumberBytes DEF Code
  <1>3. Agree(a, c, a, c) /\ Agree(b, d, up(m), up(n))
    BY <1>1, <1>2, AgreeOnLength, U32Agree
  <1>4. Agree(a \o b, c \o d, <<a, up(m)>>, <<c, up(n)>>)
    <2> HIDE DEF a, b, c, d, up
    <2> QED BY <1>2, <1>3, AgreeThen
  <1>5. a = c /\ up(m) = up(n) => m = n
    <2> SUFFICES ASSUME a = c, up(m) = up(n) PROVE m = n
      OBVIOUS
    <2>1. m % 65536 = n % 65536 /\ (m \div 65536) % 65536 = (n \div 65536) % 65536
      BY <1>1, U32Holds
    <2>2. m \div 65536 = n \div 65536
      BY <1>1, <2>1, Digits
    <2> QED BY <1>1, <2>1, <2>2, Digits
  <1>6. <<a, up(m)>> = <<c, up(n)>> => m = n
    BY <1>5
  <1>7. Agree(a \o b, c \o d, m, n)
    <2> HIDE DEF a, b, c, d, up
    <2> QED BY <1>4, <1>6, AgreeOn
  <1> QED BY <1>7 DEF U64

-----------------------------------------------------------------------------
(* Lists and optional values, of elements that have a prefix code f.       *)

Codes(f, S) == \A x, y \in S : Agree(f[x], f[y], x, y)

ItemsOf(f, s) == U64(Len(s)) \o FlattenSeq([i \in DOMAIN s |-> f[s[i]]])
MaybeOf(f, x) == IF x = None THEN U8(0) ELSE U8(1) \o f[x]

LEMMA Flattens ==
  ASSUME NEW p \in Seq(Code), Len(p) # 0
  PROVE  \E g : /\ g = [i \in 1 .. Len(p) |-> IF i = 1 THEN p[i] ELSE g[i - 1] \o p[i]]
                /\ FlattenSeq(p) = g[Len(p)]
  <1> DEFINE n == Len(p)
             Flat(g) == g = [i \in 1 .. n |-> IF i = 1 THEN p[i] ELSE g[i - 1] \o p[i]]
             step == [z \in Code \X Nat |->
                        IF z[2] \in 1 .. n THEN Join(z[1], p[z[2]]) ELSE z[1]]
  <1>1. n \in Nat /\ n >= 1 /\ \A i \in 1 .. n : p[i] \in Code
    OBVIOUS
  <1> HIDE DEF n
  <1>2. step \in [Code \X Nat -> Code]
    BY <1>1, Joined
  <1>3. \A c \in Code, i \in 1 .. n : step[<<c, i>>] = Join(c, p[i])
    BY <1>1
  <1> HIDE DEF step
  <1>4. PICK f \in [1 .. n -> Code] : Follows(f, 1, n, p[1], step)
    <2>1. 1 \in Int /\ n \in Int /\ 0 <= 1 /\ 1 <= n /\ p[1] \in Code
      BY <1>1
    <2> QED BY <1>2, <2>1, Recursion
  <1>5. \A i \in 1 .. n : f[i] = IF i = 1 THEN p[i] ELSE f[i - 1] \o p[i]
    <2> SUFFICES ASSUME NEW i \in 1 .. n, i # 1 PROVE f[i] = Join(f[i - 1], p[i])
      BY <1>4 DEF Follows, Join
    <2>1. i - 1 \in 1 .. n
      BY <1>1
    <2>2. f[i - 1] \in Code
      BY <1>4, <2>1
    <2> QED BY <1>3, <1>4, <2>2 DEF Follows
  <1>6. Flat(f)
    BY <1>4, <1>5, Zenon
  <1>7. Flat(CHOOSE g : Flat(g))
    BY <1>6, Zenon
  <1>8. FlattenSeq(p) = (CHOOSE g : Flat(g))[n]
    BY Zenon DEF FlattenSeq, n
  <1> QED BY <1>7, <1>8, Zenon DEF n

LEMMA Flat ==
  ASSUME NEW p \in Seq(Code)
  PROVE  FlattenSeq(p) \in Code
  <1>1. CASE Len(p) = 0
    BY <1>1 DEF FlattenSeq, Code
  <1>2. CASE Len(p) # 0
    <2> DEFINE n == Len(p)
    <2>1. PICK g : /\ g = [i \in 1 .. n |-> IF i = 1 THEN p[i] ELSE g[i - 1] \o p[i]]
                   /\ FlattenSeq(p) = g[n]
      BY <1>2, Flattens
    <2>2. n \in Nat /\ n >= 1 /\ \A i \in 1 .. n : p[i] \in Code
      BY <1>2
    <2> HIDE DEF n
    <2>3. \A i \in 1 .. n : g[i] = IF i = 1 THEN p[i] ELSE Join(g[i - 1], p[i])
      BY <2>1 DEF Join
    <2> DEFINE S == {i \in 1 .. n : g[i] \in Code}
    <2>4. 1 \in S
      BY <2>2, <2>3
    <2>5. ASSUME NEW i \in 1 + 1 .. n, i - 1 \in S PROVE i \in S
      <3>1. i \in 1 .. n /\ i # 1 /\ g[i - 1] \in Code
        BY <2>2, <2>5
      <3> QED BY <2>2, <2>3, <3>1, Joined
    <2> HIDE DEF S
    <2>6. \A i \in 1 .. n : i \in S
      <3>1. 1 \in Int /\ n \in Int /\ 0 <= 1
        BY <2>2
      <3> QED BY <2>4, <2>5, <3>1, Induction
    <2> QED BY <2>1, <2>2, <2>6 DEF S
  <1> QED BY <1>1, <1>2

\* Encodings of as many elements, one after another.
LEMMA FlatAgree ==
  ASSUME NEW S, NEW f, Codes(f, S), NEW s \in Seq(S), NEW t \in Seq(S), Len(s) = Len(t)
  PROVE  Agree(FlattenSeq([i \in DOMAIN s |-> f[s[i]]]),
               FlattenSeq([i \in DOMAIN t |-> f[t[i]]]), s, t)
  <1> DEFINE n == Len(s)
             p == [i \in DOMAIN s |-> f[s[i]]]
             q == [i \in DOMAIN t |-> f[t[i]]]
  <1>1. /\ n \in Nat /\ DOMAIN s = 1 .. n /\ DOMAIN t = 1 .. n
        /\ \A i \in 1 .. n : s[i] \in S /\ t[i] \in S
    OBVIOUS
  <1>2. \A x \in S : f[x] \in Code
    BY DEF Codes, Agree
  <1>3. p \in Seq(Code) /\ q \in Seq(Code) /\ Len(p) = n /\ Len(q) = n
    <2> HIDE DEF n
    <2> QED BY <1>1, <1>2
  <1>4. \A i \in 1 .. n : Agree(p[i], q[i], s[i], t[i])
    BY <1>1 DEF Codes
  <1> HIDE DEF n, p, q
  <1>5. CASE n = 0
    <2>1. p = <<>> /\ q = <<>> /\ s = <<>> /\ t = <<>>
      BY <1>1, <1>3, <1>5 DEF n
    <2>2. FlattenSeq(p) = <<>> /\ FlattenSeq(q) = <<>>
      BY <2>1 DEF FlattenSeq
    <2>3. Agree(<<>>, <<>>, s, t)
      BY <2>1, AgreeOnNothing, AgreeOn
    <2> QED BY <2>2, <2>3 DEF p, q
  <1>6. CASE n # 0
    <2>1. PICK g : /\ g = [i \in 1 .. n |-> IF i = 1 THEN p[i] ELSE g[i - 1] \o p[i]]
                   /\ FlattenSeq(p) = g[n]
      BY <1>3, <1>6, Flattens
    <2>2. PICK h : /\ h = [i \in 1 .. n |-> IF i = 1 THEN q[i] ELSE h[i - 1] \o q[i]]
                   /\ FlattenSeq(q) = h[n]
      BY <1>3, <1>6, Flattens
    <2>3. \A i \in 1 .. n : /\ g[i] = IF i = 1 THEN p[i] ELSE g[i - 1] \o p[i]
                            /\ h[i] = IF i = 1 THEN q[i] ELSE h[i - 1] \o q[i]
      BY <2>1, <2>2
    <2> DEFINE U == {i \in 1 .. n : Agree(g[i], h[i], [k \in 1 .. i |-> s[k]],
                                                      [k \in 1 .. i |-> t[k]])}
    <2>4. 1 \in U
      <3>1. 1 \in 1 .. n /\ g[1] = p[1] /\ h[1] = q[1] /\ Agree(p[1], q[1], s[1], t[1])
        BY <1>1, <1>4, <1>6, <2>3
      <3>2. s[1] = t[1] => [k \in 1 .. 1 |-> s[k]] = [k \in 1 .. 1 |-> t[k]]
        OBVIOUS
      <3>3. Agree(g[1], h[1], [k \in 1 .. 1 |-> s[k]], [k \in 1 .. 1 |-> t[k]])
        BY <3>1, <3>2, AgreeOn
      <3> QED BY <3>1, <3>3
    <2>5. ASSUME NEW i \in 1 + 1 .. n, i - 1 \in U PROVE i \in U
      <3> DEFINE j == i - 1
                 a == [k \in 1 .. j |-> s[k]]  b == [k \in 1 .. j |-> t[k]]
                 c == [k \in 1 .. i |-> s[k]]  d == [k \in 1 .. i |-> t[k]]
      <3>1. /\ i \in 1 .. n /\ i # 1 /\ g[i] = g[j] \o p[i] /\ h[i] = h[j] \o q[i]
            /\ Agree(p[i], q[i], s[i], t[i])
        <4>1. i \in 1 .. n /\ i # 1
          BY <1>1
        <4>2. Agree(p[i], q[i], s[i], t[i])
          BY <1>4, <4>1
        <4> QED BY <2>3, <4>1, <4>2
      <3>2. Agree(g[j], h[j], a, b)
        BY <2>5
      <3>3. <<a, s[i]>> = <<b, t[i]>> => c = d
        <4> SUFFICES ASSUME a = b, s[i] = t[i], NEW k \in 1 .. i PROVE s[k] = t[k]
          BY Zenon
        <4>1. CASE k = i
          BY <4>1
        <4>2. CASE k # i
          <5>1. k \in 1 .. j
            BY <1>1, <4>2
          <5>2. a[k] = s[k] /\ b[k] = t[k]
            BY <5>1
          <5> QED BY <5>2
        <4> QED BY <4>1, <4>2
      <3> HIDE DEF j, a, b, c, d
      <3>4. p[i] \in Code /\ q[i] \in Code
        BY <3>1 DEF Agree
      <3>5. Agree(g[j] \o p[i], h[j] \o q[i], <<a, s[i]>>, <<b, t[i]>>)
        BY <3>1, <3>2, <3>4, AgreeThen
      <3>6. Agree(g[i], h[i], c, d)
        BY <3>1, <3>3, <3>5, AgreeOn
      <3> QED BY <3>1, <3>6 DEF c, d
    <2> HIDE DEF U
    <2>6. \A i \in 1 .. n : i \in U
      <3>1. 1 \in Int /\ n \in Int /\ 0 <= 1
        BY <1>1
      <3> QED BY <2>4, <2>5, <3>1, Induction
    <2>7. Agree(g[n], h[n], [k \in 1 .. n |-> s[k]], [k \in 1 .. n |-> t[k]])
      <3>1. n \in 1 .. n
        BY <1>1, <1>6
      <3> QED BY <2>6, <3>1 DEF U
    <2>8. s = [k \in 1 .. n |-> s[k]] /\ t = [k \in 1 .. n |-> t[k]]
      BY <1>1
    <2> QED BY <2>1, <2>2, <2>7, <2>8 DEF p, q
  <1> QED BY <1>5, <1>6

LEMMA ItemsAgree ==
  ASSUME NEW S, NEW f, Codes(f, S), NEW s \in ListsOf(S), NEW t \in ListsOf(S)
  PROVE  Agree(ItemsOf(f, s), ItemsOf(f, t), s, t)
  <1> DEFINE p == FlattenSeq([i \in DOMAIN s |-> f[s[i]]])
             q == FlattenSeq([i \in DOMAIN t |-> f[t[i]]])
  <1>1. s \in Seq(S) /\ t \in Seq(S) /\ Len(s) \in LongNumbers /\ Len(t) \in LongNumbers
    BY DEF ListsOf, Lengths, LongNumbers
  <1>2. Agree(U64(Len(s)), U64(Len(t)), Len(s), Len(t))
    BY <1>1, U64Agree
  <1>3. \A x \in S : f[x] \in Code
    BY DEF Codes, Agree
  <1>4. p \in Code /\ q \in Code
    <2>1. ASSUME NEW v \in Seq(S)
          PROVE  [i \in DOMAIN v |-> f[v[i]]] \in Seq(Code)
      <3>1. Len(v) \in Nat /\ DOMAIN v = 1 .. Len(v) /\ \A i \in DOMAIN v : v[i] \in S
        OBVIOUS
      <3>2. [i \in 1 .. Len(v) |-> f[v[i]]] \in [1 .. Len(v) -> Code]
        BY <1>3, <3>1
      <3> QED BY <3>1, <3>2
    <2>2. FlattenSeq([i \in DOMAIN s |-> f[s[i]]]) \in Code
      BY <1>1, <2>1, Flat
    <2>3. FlattenSeq([i \in DOMAIN t |-> f[t[i]]]) \in Code
      BY <1>1, <2>1, Flat
    <2> QED BY <2>2, <2>3
  <1>5. Len(s) = Len(t) => Agree(p, q, s, t)
    BY <1>1, FlatAgree
  <1> HIDE DEF p, q
  <1>6. Agree(U64(Len(s)) \o p, U64(Len(t)) \o q, <<Len(s), s>>, <<Len(t), t>>)
    BY <1>2, <1>4, <1>5, AgreeThen
  <1>7. Agree(U64(Len(s)) \o p, U64(Len(t)) \o q, s, t)
    BY <1>6, AgreeOn
  <1> QED BY <1>7 DEF ItemsOf, p, q

LEMMA MaybeAgree ==
  ASSUME NEW S, NEW f, Codes(f, S), NEW x \in Optional(S), NEW y \in Optional(S)
  PROVE  Agree(MaybeOf(f, x), MaybeOf(f, y), x, y)
  <1>1. 0 \in Byte /\ 1 \in Byte
    BY DEF Byte
  <1>2. /\ Agree(U8(0), U8(0), 0, 0) /\ Agree(U8(0), U8(1), 0, 1)
        /\ Agree(U8(1), U8(0), 1, 0) /\ Agree(U8(1), U8(1), 1, 1)
    BY <1>1, U8Agree
  <1>3. <<>> \in Code /\ U8(0) \o <<>> = U8(0)
    BY DEF Code, U8
  <1>4. x # None => x \in S /\ f[x] \in Code
    BY DEF Optional, Codes, Agree
  <1>5. y # None => y \in S /\ f[y] \in Code
    BY DEF Optional, Codes, Agree
  <1> DEFINE v == IF x = None THEN 0 ELSE 1
             w == IF y = None THEN 0 ELSE 1
             p == IF x = None THEN <<>> ELSE f[x]
             q == IF y = None THEN <<>> ELSE f[y]
  <1>6. MaybeOf(f, x) = U8(v) \o p /\ MaybeOf(f, y) = U8(w) \o q
    BY <1>3 DEF MaybeOf
  <1>7. Agree(U8(v), U8(w), v, w)
    BY <1>2
  <1>8. p \in Code /\ q \in Code
    BY <1>3, <1>4, <1>5
  <1>9. v = w => Agree(p, q, x, y)
    <2>1. CASE x = None /\ y = None
      <3>1. Agree(<<>>, <<>>, x, y)
        BY <2>1, AgreeOnNothing, AgreeOn
      <3> QED BY <2>1, <3>1
    <2>2. CASE x # None /\ y # None
      BY <1>4, <1>5, <2>2 DEF Codes
    <2> QED BY <2>1, <2>2
  <1> HIDE DEF v, w, p, q
  <1>10. Agree(U8(v) \o p, U8(w) \o q, <<v, x>>, <<w, y>>)
    BY <1>7, <1>8, <1>9, AgreeThen
  <1>11. Agree(U8(v) \o p, U8(w) \o q, x, y)
    BY <1>10, AgreeOn
  <1> QED BY <1>6, <1>11

\* Encodings of two values, one after the other.
LEMMA AgreeBoth ==
  ASSUME NEW a, NEW b, NEW x, NEW y, Agree(a, b, x, y),
         NEW c, NEW d, NEW z, NEW w, Agree(c, d, z, w)
  PROVE  Agree(a \o c, b \o d, <<x, z>>, <<y, w>>)
  <1>1. c \in Code /\ d \in Code
    BY DEF Agree
  <1> QED BY <1>1, AgreeThen

LEMMA TextAgree == \A s, t \in Texts : Agree(Text(s), Text(t), s, t)
  <1> SUFFICES ASSUME NEW s \in Texts, NEW t \in Texts PROVE Agree(Text(s), Text(t), s, t)
    OBVIOUS
  <1>1. s \in Code /\ t \in Code /\ Len(s) \in LongNumbers /\ Len(t) \in LongNumbers
    BY DEF Texts, ListsOf, Lengths, LongNumbers, Code
  <1>2. Agree(U64(Len(s)), U64(Len(t)), Len(s), Len(t))
    BY <1>1, U64Agree
  <1>3. Len(s) = Len(t) => Agree(s, t, s, t)
    BY <1>1, AgreeOnLength
  <1>4. Agree(U64(Len(s)) \o s, U64(Len(t)) \o t, <<Len(s), s>>, <<Len(t), t>>)
    BY <1>1, <1>2, <1>3, AgreeThen
  <1>5. Agree(U64(Len(s)) \o s, U64(Len(t)) \o t, s, t)
    BY <1>4, AgreeOn
  <1> QED BY <1>5 DEF Text

LEMMA IdAgree == \A s, t \in Ids : Agree(Text(s), Text(t), s, t)
  BY TextAgree DEF Ids

LEMMA CoordinateAgree == \A c, d \in HexCoord : Agree(Coordinate(c), Coordinate(d), c, d)
  <1> SUFFICES ASSUME NEW c \in HexCoord, NEW d \in HexCoord
               PROVE  Agree(Coordinate(c), Coordinate(d), c, d)
    OBVIOUS
  <1>1. /\ c[1] \in SignedNumbers /\ c[2] \in SignedNumbers /\ c = <<c[1], c[2]>>
        /\ d[1] \in SignedNumbers /\ d[2] \in SignedNumbers /\ d = <<d[1], d[2]>>
    BY DEF HexCoord
  <1>2. Agree(U32(c[1]), U32(d[1]), c[1], d[1]) /\ Agree(U32(c[2]), U32(d[2]), c[2], d[2])
    BY <1>1, SignedAgree
  <1>3. Agree(U32(c[1]) \o U32(c[2]), U32(d[1]) \o U32(d[2]), <<c[1], c[2]>>, <<d[1], d[2]>>)
    BY <1>2, AgreeBoth
  <1> QED BY <1>1, <1>3 DEF Coordinate

-----------------------------------------------------------------------------
(* Sets, in an order.                                                      *)

LEMMA SetAgree ==
  ASSUME NEW S, NEW f, Codes(f, S), NEW T \in SortedSets(S), NEW U \in SortedSets(S),
         NEW Q, Orders(Q, T), NEW R, Orders(R, U)
  PROVE  Agree(ItemsOf(f, Arranged(Q, T)), ItemsOf(f, Arranged(R, U)), T, U)
  <1>1. /\ T \subseteq S /\ IsFiniteSet(T) /\ Cardinality(T) \in Lengths
        /\ U \subseteq S /\ IsFiniteSet(U) /\ Cardinality(U) \in Lengths
    BY DEF SortedSets
  <1>2. /\ Arranged(Q, T) \in Seq(T) /\ Len(Arranged(Q, T)) = Cardinality(T)
        /\ ToSet(Arranged(Q, T)) = T
    BY <1>1, ArrangedFacts
  <1>3. /\ Arranged(R, U) \in Seq(U) /\ Len(Arranged(R, U)) = Cardinality(U)
        /\ ToSet(Arranged(R, U)) = U
    BY <1>1, ArrangedFacts
  <1>4. Arranged(Q, T) \in ListsOf(S) /\ Arranged(R, U) \in ListsOf(S)
    <2>1. Arranged(Q, T) \in Seq(S)
      BY <1>1, <1>2
    <2>2. Arranged(R, U) \in Seq(S)
      BY <1>1, <1>3
    <2> QED BY <1>1, <1>2, <1>3, <2>1, <2>2 DEF ListsOf
  <1>5. Agree(ItemsOf(f, Arranged(Q, T)), ItemsOf(f, Arranged(R, U)),
              Arranged(Q, T), Arranged(R, U))
    BY <1>4, ItemsAgree
  <1>6. Arranged(Q, T) = Arranged(R, U) => T = U
    BY <1>2, <1>3
  <1> QED BY <1>5, <1>6, AgreeOn

\* What is before x by its key.
Preceding(key, T) == [x \in T |-> {y \in T : Before(key[y], key[x])}]

LEMMA KeysOrder ==
  ASSUME NEW T, NEW key, \A x \in T : key[x] \in Seq(Int),
         \A x, y \in T : key[x] = key[y] => x = y
  PROVE  Orders(Preceding(key, T), T)
  <1> DEFINE R == Preceding(key, T)
  <1>1. R \in [T -> SUBSET T] /\ \A x, y \in T : x \in R[y] <=> Before(key[x], key[y])
    BY DEF Preceding
  <1> HIDE DEF R
  <1>2. \A x \in T : x \notin R[x]
    BY <1>1, BeforeIrreflexive
  <1>3. ASSUME NEW x \in T, NEW y \in T, NEW z \in T, x \in R[y], y \in R[z]
        PROVE  x \in R[z]
    BY <1>1, <1>3, BeforeTransitive
  <1>4. ASSUME NEW x \in T, NEW y \in T, x # y
        PROVE  x \in R[y] \/ y \in R[x]
    BY <1>1, <1>4, BeforeTotal
  <1> QED BY <1>1, <1>2, <1>3, <1>4 DEF Orders, R

-----------------------------------------------------------------------------
(* The parts of a unit.                                                    *)

LEMMA StepAgree == \A x, y \in MovementStep : Agree(HashStep(x), HashStep(y), x, y)
  <1> SUFFICES ASSUME NEW x \in MovementStep,
                      NEW y \in MovementStep PROVE Agree(HashStep(x), HashStep(y), x, y)
    OBVIOUS
  <1>1. Agree(Coordinate(x.tile), Coordinate(y.tile), x.tile, y.tile)
    BY CoordinateAgree DEF MovementStep
  <1>2. Agree(U32(x.enter), U32(y.enter), x.enter, y.enter)
    BY U32Agree DEF MovementStep
  <1>3. Agree(U32(x.total), U32(y.total), x.total, y.total)
    BY U32Agree DEF MovementStep
  <1>4. /\ x = [tile |-> x.tile, enter |-> x.enter, total |-> x.total]
        /\ y = [tile |-> y.tile, enter |-> y.enter, total |-> y.total]
    BY DEF MovementStep
  <1>5. Agree(HashStep(x), HashStep(y),
              <<<<x.tile, x.enter>>, x.total>>,
              <<<<y.tile, y.enter>>, y.total>>)
    BY <1>1, <1>2, <1>3, AgreeBoth DEF HashStep
  <1>6. <<<<x.tile, x.enter>>, x.total>> = <<<<y.tile, y.enter>>, y.total>> => x = y
    BY <1>4
  <1> QED BY <1>5, <1>6, AgreeOn

LEMMA StepsAgree == \A s, t \in ListsOf(MovementStep) : Agree(Steps(s), Steps(t), s, t)
  <1> SUFFICES ASSUME NEW s \in ListsOf(MovementStep), NEW t \in ListsOf(MovementStep)
               PROVE  Agree(Steps(s), Steps(t), s, t)
    OBVIOUS
  <1> DEFINE f == [x \in MovementStep |-> HashStep(x)]
  <1>1. Codes(f, MovementStep)
    BY StepAgree DEF Codes
  <1>2. \A r \in ListsOf(MovementStep) : Steps(r) = ItemsOf(f, r)
    <2> SUFFICES ASSUME NEW r \in ListsOf(MovementStep) PROVE Steps(r) = ItemsOf(f, r)
      OBVIOUS
    <2>1. \A i \in DOMAIN r : f[r[i]] = HashStep(r[i])
      BY DEF ListsOf
    <2>2. Each(HashStep, r) = [i \in DOMAIN r |-> f[r[i]]]
      BY <2>1 DEF Each
    <2> HIDE DEF f
    <2> QED BY <2>2 DEF Steps, Items, ItemsOf
  <1> HIDE DEF f
  <1> QED BY <1>1, <1>2, ItemsAgree

LEMMA QueuedAgree == \A x, y \in QueuedMovePath : Agree(HashQueued(x), HashQueued(y), x, y)
  <1> SUFFICES ASSUME NEW x \in QueuedMovePath,
                      NEW y \in QueuedMovePath PROVE Agree(HashQueued(x), HashQueued(y), x, y)
    OBVIOUS
  <1>1. Agree(Coordinate(x.target), Coordinate(y.target), x.target, y.target)
    BY CoordinateAgree DEF QueuedMovePath
  <1>2. Agree(Steps(x.steps), Steps(y.steps), x.steps, y.steps)
    BY StepsAgree DEF QueuedMovePath
  <1>3. /\ x = [target |-> x.target, steps |-> x.steps]
        /\ y = [target |-> y.target, steps |-> y.steps]
    BY DEF QueuedMovePath
  <1>4. Agree(HashQueued(x), HashQueued(y), <<x.target, x.steps>>, <<y.target, y.steps>>)
    BY <1>1, <1>2, AgreeBoth DEF HashQueued
  <1>5. <<x.target, x.steps>> = <<y.target, y.steps>> => x = y
    BY <1>3
  <1> QED BY <1>4, <1>5, AgreeOn

LEMMA MerchantAgree ==
  \A x, y \in MerchantTradeRoute : Agree(HashMerchant(x), HashMerchant(y), x, y)
  <1> SUFFICES ASSUME NEW x \in MerchantTradeRoute,
                      NEW y \in MerchantTradeRoute
               PROVE  Agree(HashMerchant(x), HashMerchant(y), x, y)
    OBVIOUS
  <1>1. Agree(Text(x.origin), Text(y.origin), x.origin, y.origin)
    BY IdAgree DEF MerchantTradeRoute
  <1>2. Agree(Text(x.destination), Text(y.destination), x.destination, y.destination)
    BY IdAgree DEF MerchantTradeRoute
  <1>3. Agree(Steps(x.steps), Steps(y.steps), x.steps, y.steps)
    BY StepsAgree DEF MerchantTradeRoute
  <1>4. Agree(Text(x.fingerprint), Text(y.fingerprint), x.fingerprint, y.fingerprint)
    BY TextAgree DEF MerchantTradeRoute
  <1>5. /\ x = [origin |-> x.origin, destination |-> x.destination, steps |-> x.steps,
                fingerprint |-> x.fingerprint]
        /\ y = [origin |-> y.origin, destination |-> y.destination, steps |-> y.steps,
                fingerprint |-> y.fingerprint]
    BY DEF MerchantTradeRoute
  <1>6. Agree(HashMerchant(x), HashMerchant(y),
              <<<<<<x.origin, x.destination>>, x.steps>>, x.fingerprint>>,
              <<<<<<y.origin, y.destination>>, y.steps>>, y.fingerprint>>)
    BY <1>1, <1>2, <1>3, <1>4, AgreeBoth DEF HashMerchant
  <1>7. <<<<<<x.origin, x.destination>>, x.steps>>, x.fingerprint>>
          = <<<<<<y.origin, y.destination>>, y.steps>>, y.fingerprint>>
            => x = y
    BY <1>5
  <1> QED BY <1>6, <1>7, AgreeOn

LEMMA CoordinatesAgree ==
  \A s, t \in ListsOf(HexCoord) : Agree(Items(Coordinate, s), Items(Coordinate, t), s, t)
  <1> SUFFICES ASSUME NEW s \in ListsOf(HexCoord), NEW t \in ListsOf(HexCoord)
               PROVE  Agree(Items(Coordinate, s), Items(Coordinate, t), s, t)
    OBVIOUS
  <1> DEFINE f == [x \in HexCoord |-> Coordinate(x)]
  <1>1. Codes(f, HexCoord)
    BY CoordinateAgree DEF Codes
  <1>2. \A r \in ListsOf(HexCoord) : Items(Coordinate, r) = ItemsOf(f, r)
    <2> SUFFICES ASSUME NEW r \in ListsOf(HexCoord) PROVE Items(Coordinate, r) = ItemsOf(f, r)
      OBVIOUS
    <2>1. \A i \in DOMAIN r : f[r[i]] = Coordinate(r[i])
      BY DEF ListsOf
    <2>2. Each(Coordinate, r) = [i \in DOMAIN r |-> f[r[i]]]
      BY <2>1 DEF Each
    <2> HIDE DEF f
    <2> QED BY <2>2 DEF Items, ItemsOf
  <1> HIDE DEF f
  <1> QED BY <1>1, <1>2, ItemsAgree

LEMMA MaybeQueuedAgree ==
  \A x, y \in Optional(QueuedMovePath) : Agree(Maybe(HashQueued, x), Maybe(HashQueued, y), x, y)
  <1> SUFFICES ASSUME NEW x \in Optional(QueuedMovePath), NEW y \in Optional(QueuedMovePath)
               PROVE  Agree(Maybe(HashQueued, x), Maybe(HashQueued, y), x, y)
    OBVIOUS
  <1> DEFINE f == [z \in QueuedMovePath |-> HashQueued(z)]
  <1>1. Codes(f, QueuedMovePath)
    BY QueuedAgree DEF Codes
  <1>2. \A z \in Optional(QueuedMovePath) : Maybe(HashQueued, z) = MaybeOf(f, z)
    BY DEF Optional, Maybe, MaybeOf
  <1> HIDE DEF f
  <1> QED BY <1>1, <1>2, MaybeAgree

LEMMA MaybeMerchantAgree ==
  \A x, y \in Optional(MerchantTradeRoute) :
        Agree(Maybe(HashMerchant, x), Maybe(HashMerchant, y), x, y)
  <1> SUFFICES ASSUME NEW x \in Optional(MerchantTradeRoute),
                      NEW y \in Optional(MerchantTradeRoute)
               PROVE  Agree(Maybe(HashMerchant, x), Maybe(HashMerchant, y), x, y)
    OBVIOUS
  <1> DEFINE f == [z \in MerchantTradeRoute |-> HashMerchant(z)]
  <1>1. Codes(f, MerchantTradeRoute)
    BY MerchantAgree DEF Codes
  <1>2. \A z \in Optional(MerchantTradeRoute) : Maybe(HashMerchant, z) = MaybeOf(f, z)
    BY DEF Optional, Maybe, MaybeOf
  <1> HIDE DEF f
  <1> QED BY <1>1, <1>2, MaybeAgree

LEMMA MaybeCoordinateAgree ==
  \A x, y \in Optional(HexCoord) : Agree(Maybe(Coordinate, x), Maybe(Coordinate, y), x, y)
  <1> SUFFICES ASSUME NEW x \in Optional(HexCoord), NEW y \in Optional(HexCoord)
               PROVE  Agree(Maybe(Coordinate, x), Maybe(Coordinate, y), x, y)
    OBVIOUS
  <1> DEFINE f == [z \in HexCoord |-> Coordinate(z)]
  <1>1. Codes(f, HexCoord)
    BY CoordinateAgree DEF Codes
  <1>2. \A z \in Optional(HexCoord) : Maybe(Coordinate, z) = MaybeOf(f, z)
    BY DEF Optional, Maybe, MaybeOf
  <1> HIDE DEF f
  <1> QED BY <1>1, <1>2, MaybeAgree

LEMMA MaybeTextAgree ==
  \A x, y \in Optional(Texts) : Agree(Maybe(Text, x), Maybe(Text, y), x, y)
  <1> SUFFICES ASSUME NEW x \in Optional(Texts), NEW y \in Optional(Texts)
               PROVE  Agree(Maybe(Text, x), Maybe(Text, y), x, y)
    OBVIOUS
  <1> DEFINE f == [z \in Texts |-> Text(z)]
  <1>1. Codes(f, Texts)
    BY TextAgree DEF Codes
  <1>2. \A z \in Optional(Texts) : Maybe(Text, z) = MaybeOf(f, z)
    BY DEF Optional, Maybe, MaybeOf
  <1> HIDE DEF f
  <1> QED BY <1>1, <1>2, MaybeAgree

LEMMA MaybeIdAgree ==
  \A x, y \in Optional(Ids) : Agree(Maybe(Text, x), Maybe(Text, y), x, y)
  BY MaybeTextAgree DEF Optional, Ids

LEMMA MaybeNumberAgree ==
  \A x, y \in Optional(Numbers) : Agree(Maybe(U32, x), Maybe(U32, y), x, y)
  <1> SUFFICES ASSUME NEW x \in Optional(Numbers), NEW y \in Optional(Numbers)
               PROVE  Agree(Maybe(U32, x), Maybe(U32, y), x, y)
    OBVIOUS
  <1> DEFINE f == [z \in Numbers |-> U32(z)]
  <1>1. Codes(f, Numbers)
    BY U32Agree DEF Codes
  <1>2. \A z \in Optional(Numbers) : Maybe(U32, z) = MaybeOf(f, z)
    BY DEF Optional, Maybe, MaybeOf
  <1> HIDE DEF f
  <1> QED BY <1>1, <1>2, MaybeAgree

\* A tag, and what its values hold.
LEMMA TagAgree ==
  ASSUME NEW v \in Byte, NEW w \in Byte, NEW p \in Code, NEW q \in Code,
         NEW x, NEW y, v = w => Agree(p, q, x, y)
  PROVE  Agree(U8(v) \o p, U8(w) \o q, x, y)
  <1>1. Agree(U8(v), U8(w), v, w)
    BY U8Agree
  <1>2. Agree(U8(v) \o p, U8(w) \o q, <<v, x>>, <<w, y>>)
    BY <1>1, AgreeThen
  <1> QED BY <1>2, AgreeOn

LEMMA Regroups ==
  \A a, b, c, d \in Code :
      Join(Join(Join(a, b), c), d) = Join(a, Join(Join(b, c), d))
  <1> SUFFICES ASSUME NEW a \in Code, NEW b \in Code, NEW c \in Code, NEW d \in Code
               PROVE  Join(Join(Join(a, b), c), d) = Join(a, Join(Join(b, c), d))
    OBVIOUS
  <1>1. Join(Join(a, b), c) = Join(a, Join(b, c)) /\ Join(b, c) \in Code
    BY Associates, Joined
  <1> QED BY <1>1, Associates

LEMMA SmallBytes ==
  \A n : n \in 0 .. 1 \/ n \in 0 .. 2 \/ n \in 0 .. 3 \/ n \in 0 .. 7 \/ n \in 0 .. 16
         \/ n \in 0 .. 18 => n \in Byte
  BY DEF Byte

LEMMA NumberCodes ==
  /\ \A v \in Byte : U8(v) \in Code
  /\ \A n \in Numbers : U32(n) \in Code
  /\ \A c \in HexCoord : Coordinate(c) \in Code
  /\ \A t \in Texts : Text(t) \in Code
  /\ \A t \in Ids : Text(t) \in Code
  /\ \A s \in ListsOf(HexCoord) : Items(Coordinate, s) \in Code
  <1>1. \A a, b, x, y : Agree(a, b, x, y) => a \in Code
    BY DEF Agree
  <1> QED BY <1>1, U8Agree, U32Agree, CoordinateAgree, TextAgree, CoordinatesAgree,
            IdAgree

LEMMA TroopAgree == \A x, y \in ArmyTroop : Agree(HashTroop(x), HashTroop(y), x, y)
  <1> SUFFICES ASSUME NEW x \in ArmyTroop,
                      NEW y \in ArmyTroop PROVE Agree(HashTroop(x), HashTroop(y), x, y)
    OBVIOUS
  <1>1. Agree(U8(x.kind), U8(y.kind), x.kind, y.kind)
    <2>1. x.kind \in Byte /\ y.kind \in Byte
      BY SmallBytes DEF ArmyTroop
    <2> QED BY <2>1, U8Agree
  <1>2. Agree(U32(x.count), U32(y.count), x.count, y.count)
    BY U32Agree DEF ArmyTroop
  <1>3. /\ x = [kind |-> x.kind, count |-> x.count]
        /\ y = [kind |-> y.kind, count |-> y.count]
    BY DEF ArmyTroop
  <1>4. Agree(HashTroop(x), HashTroop(y), <<x.kind, x.count>>, <<y.kind, y.count>>)
    BY <1>1, <1>2, AgreeBoth DEF HashTroop
  <1>5. <<x.kind, x.count>> = <<y.kind, y.count>> => x = y
    BY <1>3
  <1> QED BY <1>4, <1>5, AgreeOn

LEMMA TroopsAgree ==
  \A s, t \in ListsOf(ArmyTroop) : Agree(Items(HashTroop, s), Items(HashTroop, t), s, t)
  <1> SUFFICES ASSUME NEW s \in ListsOf(ArmyTroop), NEW t \in ListsOf(ArmyTroop)
               PROVE  Agree(Items(HashTroop, s), Items(HashTroop, t), s, t)
    OBVIOUS
  <1> DEFINE f == [x \in ArmyTroop |-> HashTroop(x)]
  <1>1. Codes(f, ArmyTroop)
    BY TroopAgree DEF Codes
  <1>2. \A r \in ListsOf(ArmyTroop) : Items(HashTroop, r) = ItemsOf(f, r)
    <2> SUFFICES ASSUME NEW r \in ListsOf(ArmyTroop) PROVE Items(HashTroop, r) = ItemsOf(f, r)
      OBVIOUS
    <2>1. \A i \in DOMAIN r : f[r[i]] = HashTroop(r[i])
      BY DEF ListsOf
    <2>2. Each(HashTroop, r) = [i \in DOMAIN r |-> f[r[i]]]
      BY <2>1 DEF Each
    <2> HIDE DEF f
    <2> QED BY <2>2 DEF Items, ItemsOf
  <1> HIDE DEF f
  <1> QED BY <1>1, <1>2, ItemsAgree

LEMMA TimedAgree ==
  ASSUME NEW x, NEW y, x.remaining \in Numbers, x.total \in Numbers,
         y.remaining \in Numbers, y.total \in Numbers
  PROVE  Agree(HashTimed(x), HashTimed(y), <<x.remaining, x.total>>, <<y.remaining, y.total>>)
  <1>1. /\ Agree(U32(x.remaining), U32(y.remaining), x.remaining, y.remaining)
        /\ Agree(U32(x.total), U32(y.total), x.total, y.total)
    BY U32Agree
  <1> QED BY <1>1, AgreeBoth DEF HashTimed

LEMMA FoundingAgree == \A x, y \in CityFoundingJob : Agree(HashFounding(x), HashFounding(y), x, y)
  <1> SUFFICES ASSUME NEW x \in CityFoundingJob, NEW y \in CityFoundingJob
               PROVE  Agree(HashFounding(x), HashFounding(y), x, y)
    OBVIOUS
  <1>1. Agree(Coordinate(x.center), Coordinate(y.center), x.center, y.center)
    BY CoordinateAgree DEF CityFoundingJob
  <1>2. Agree(Items(Coordinate, x.hexes), Items(Coordinate, y.hexes), x.hexes, y.hexes)
    BY CoordinatesAgree DEF CityFoundingJob
  <1>3. Agree(HashTimed(x), HashTimed(y), <<x.remaining, x.total>>, <<y.remaining, y.total>>)
    BY TimedAgree DEF CityFoundingJob
  <1>4. Agree(HashFounding(x), HashFounding(y),
              <<<<x.center, x.hexes>>, <<x.remaining, x.total>>>>,
              <<<<y.center, y.hexes>>, <<y.remaining, y.total>>>>)
    BY <1>1, <1>2, <1>3, AgreeBoth DEF HashFounding
  <1>5. /\ x = [center |-> x.center, hexes |-> x.hexes, remaining |-> x.remaining,
                total |-> x.total]
        /\ y = [center |-> y.center, hexes |-> y.hexes, remaining |-> y.remaining,
                total |-> y.total]
    BY DEF CityFoundingJob
  <1>6. <<<<x.center, x.hexes>>, <<x.remaining, x.total>>>>
            = <<<<y.center, y.hexes>>, <<y.remaining, y.total>>>> => x = y
    BY <1>5
  <1> QED BY <1>4, <1>6, AgreeOn

LEMMA MaybeFoundingAgree ==
  \A x, y \in Optional(CityFoundingJob) :
        Agree(Maybe(HashFounding, x), Maybe(HashFounding, y), x, y)
  <1> SUFFICES ASSUME NEW x \in Optional(CityFoundingJob), NEW y \in Optional(CityFoundingJob)
               PROVE  Agree(Maybe(HashFounding, x), Maybe(HashFounding, y), x, y)
    OBVIOUS
  <1> DEFINE f == [z \in CityFoundingJob |-> HashFounding(z)]
  <1>1. Codes(f, CityFoundingJob)
    BY FoundingAgree DEF Codes
  <1>2. \A z \in Optional(CityFoundingJob) : Maybe(HashFounding, z) = MaybeOf(f, z)
    BY DEF Optional, Maybe, MaybeOf
  <1> HIDE DEF f
  <1> QED BY <1>1, <1>2, MaybeAgree

\* A job is written after a tag: none, a field improvement or a road.
JobTag(j) == IF j = None THEN 0 ELSE IF j.improvement = None THEN 2 ELSE 1
JobBody(j) ==
    IF j = None THEN <<>>
    ELSE IF j.improvement = None THEN Coordinate(j.target) \o HashTimed(j)
         ELSE Coordinate(j.target) \o U8(j.improvement) \o HashTimed(j)

LEMMA JobAgree == \A x, y \in Optional(WorkerJob) : Agree(HashJob(x), HashJob(y), x, y)
  <1> SUFFICES ASSUME NEW x \in Optional(WorkerJob), NEW y \in Optional(WorkerJob)
               PROVE  Agree(HashJob(x), HashJob(y), x, y)
    OBVIOUS
  <1>1. \A j \in WorkerJob :
          /\ j.target \in HexCoord /\ j.remaining \in Numbers /\ j.total \in Numbers
          /\ j.improvement # None => j.improvement \in Byte
          /\ j = [target |-> j.target, improvement |-> j.improvement,
                  remaining |-> j.remaining, total |-> j.total]
    BY DEF WorkerJob, Optional, Byte
  <1>2. \A j \in Optional(WorkerJob) : j # None => j \in WorkerJob
    BY DEF Optional
  <1>3. \A j \in WorkerJob : HashTimed(j) \in Code
    BY <1>1, TimedAgree DEF Agree
  <1>4. \A j \in Optional(WorkerJob) :
          JobTag(j) \in Byte /\ JobBody(j) \in Code /\ HashJob(j) = U8(JobTag(j)) \o JobBody(j)
    <2> SUFFICES ASSUME NEW j \in Optional(WorkerJob)
                 PROVE  /\ JobTag(j) \in Byte /\ JobBody(j) \in Code
                        /\ HashJob(j) = U8(JobTag(j)) \o JobBody(j)
      OBVIOUS
    <2>1. 0 \in Byte /\ 1 \in Byte /\ 2 \in Byte
      BY DEF Byte
    <2>2. JobTag(j) \in Byte
      BY <2>1 DEF JobTag
    <2>3. U8(0) \in Code /\ U8(1) \in Code /\ U8(2) \in Code
      BY <2>1, NumberCodes
    <2>4. CASE j = None
      <3>1. <<>> \in Code /\ U8(0) \o <<>> = U8(0)
        BY DEF Code, U8
      <3> QED BY <2>2, <2>4, <3>1 DEF JobTag, JobBody, HashJob
    <2>5. CASE j # None /\ j.improvement = None
      <3>1. Coordinate(j.target) \in Code /\ HashTimed(j) \in Code
        BY <1>1, <1>2, <1>3, <2>5, NumberCodes
      <3>2. Coordinate(j.target) \o HashTimed(j) \in Code
        BY <3>1, Joined, Zenon DEF Join
      <3>3. HashJob(j) = (U8(2) \o Coordinate(j.target)) \o HashTimed(j)
        BY <2>5 DEF HashJob
      <3>4. JobTag(j) = 2 /\ JobBody(j) = Coordinate(j.target) \o HashTimed(j)
        BY <2>5 DEF JobTag, JobBody
      <3>5. (U8(2) \o Coordinate(j.target)) \o HashTimed(j)
              = U8(2) \o (Coordinate(j.target) \o HashTimed(j))
        <4>1. Join(Join(U8(2), Coordinate(j.target)), HashTimed(j))
                = Join(U8(2), Join(Coordinate(j.target), HashTimed(j)))
          BY <2>3, <3>1, Associates
        <4> QED BY <4>1, Zenon DEF Join
      <3> QED BY <2>2, <3>2, <3>3, <3>4, <3>5
    <2>6. CASE j # None /\ j.improvement # None
      <3>1. Coordinate(j.target) \in Code /\ HashTimed(j) \in Code /\ U8(j.improvement) \in Code
        BY <1>1, <1>2, <1>3, <2>6, NumberCodes
      <3>2. (Coordinate(j.target) \o U8(j.improvement)) \o HashTimed(j) \in Code
        BY <3>1, Joined, Zenon DEF Join
      <3>3. HashJob(j) = ((U8(1) \o Coordinate(j.target)) \o U8(j.improvement)) \o HashTimed(j)
        BY <2>6 DEF HashJob
      <3>4. /\ JobTag(j) = 1
            /\ JobBody(j) = (Coordinate(j.target) \o U8(j.improvement)) \o HashTimed(j)
        BY <2>6 DEF JobTag, JobBody
      <3>5. ((U8(1) \o Coordinate(j.target)) \o U8(j.improvement)) \o HashTimed(j)
              = U8(1) \o ((Coordinate(j.target) \o U8(j.improvement)) \o HashTimed(j))
        <4>1. Join(Join(Join(U8(1), Coordinate(j.target)), U8(j.improvement)), HashTimed(j))
                = Join(U8(1), Join(Join(Coordinate(j.target), U8(j.improvement)), HashTimed(j)))
          BY <2>3, <3>1, Regroups
        <4> QED BY <4>1, Zenon DEF Join
      <3> QED BY <2>2, <3>2, <3>3, <3>4, <3>5
    <2> QED BY <2>4, <2>5, <2>6
  <1>5. ASSUME JobTag(x) = JobTag(y)
        PROVE  Agree(JobBody(x), JobBody(y), x, y)
    <2>1. CASE x = None
      <3>1. y = None
        BY <1>5, <2>1 DEF JobTag
      <3>2. Agree(<<>>, <<>>, x, y)
        BY <2>1, <3>1, AgreeOnNothing, AgreeOn
      <3> QED BY <2>1, <3>1, <3>2 DEF JobBody
    <2>2. CASE x # None
      <3>1. /\ y # None /\ x \in WorkerJob /\ y \in WorkerJob
            /\ x.improvement = None <=> y.improvement = None
        BY <1>2, <1>5, <2>2 DEF JobTag
      <3>2. Agree(Coordinate(x.target), Coordinate(y.target), x.target, y.target)
        BY <1>1, <3>1, CoordinateAgree
      <3>3. Agree(HashTimed(x), HashTimed(y),
                  <<x.remaining, x.total>>, <<y.remaining, y.total>>)
        BY <1>1, <3>1, TimedAgree
      <3>4. x.target = y.target /\ x.improvement = y.improvement
            /\ <<x.remaining, x.total>> = <<y.remaining, y.total>> => x = y
        BY <1>1, <3>1
      <3>5. CASE x.improvement = None
        <4>1. Agree(JobBody(x), JobBody(y), <<x.target, <<x.remaining, x.total>>>>,
                    <<y.target, <<y.remaining, y.total>>>>)
          BY <2>2, <3>1, <3>2, <3>3, <3>5, AgreeBoth DEF JobBody
        <4>2. <<x.target, <<x.remaining, x.total>>>> = <<y.target, <<y.remaining, y.total>>>>
                => x = y
          BY <3>1, <3>4, <3>5
        <4> QED BY <4>1, <4>2, AgreeOn
      <3>6. CASE x.improvement # None
        <4>1. Agree(U8(x.improvement), U8(y.improvement), x.improvement, y.improvement)
          BY <1>1, <3>1, <3>6, U8Agree
        <4>2. Agree(JobBody(x), JobBody(y),
                    <<<<x.target, x.improvement>>, <<x.remaining, x.total>>>>,
                    <<<<y.target, y.improvement>>, <<y.remaining, y.total>>>>)
          BY <2>2, <3>1, <3>2, <3>3, <3>6, <4>1, AgreeBoth DEF JobBody
        <4>3. <<<<x.target, x.improvement>>, <<x.remaining, x.total>>>>
                = <<<<y.target, y.improvement>>, <<y.remaining, y.total>>>> => x = y
          BY <3>4
        <4> QED BY <4>2, <4>3, AgreeOn
      <3> QED BY <3>5, <3>6
    <2> QED BY <2>1, <2>2
  <1> QED BY <1>4, <1>5, TagAgree

LEMMA ActivityAgree == \A x, y \in UnitActivity : Agree(HashActivity(x), HashActivity(y), x, y)
  <1> SUFFICES ASSUME NEW x \in UnitActivity,
                      NEW y \in UnitActivity PROVE Agree(HashActivity(x), HashActivity(y), x, y)
    OBVIOUS
  <1>1. Agree(HashJob(x.job), HashJob(y.job), x.job, y.job)
    BY JobAgree DEF UnitActivity
  <1>2. Agree(Maybe(HashFounding, x.founding), Maybe(HashFounding, y.founding),
              x.founding, y.founding)
    BY MaybeFoundingAgree DEF UnitActivity
  <1>3. Agree(Maybe(Coordinate, x.assignment), Maybe(Coordinate, y.assignment),
              x.assignment, y.assignment)
    BY MaybeCoordinateAgree DEF UnitActivity
  <1>4. Agree(Maybe(Text, x.excavating), Maybe(Text, y.excavating), x.excavating, y.excavating)
    BY MaybeIdAgree DEF UnitActivity
  <1>5. /\ x = [job |-> x.job, founding |-> x.founding, assignment |-> x.assignment,
                excavating |-> x.excavating]
        /\ y = [job |-> y.job, founding |-> y.founding, assignment |-> y.assignment,
                excavating |-> y.excavating]
    BY DEF UnitActivity
  <1>6. Agree(HashActivity(x), HashActivity(y),
              <<<<<<x.job, x.founding>>, x.assignment>>, x.excavating>>,
              <<<<<<y.job, y.founding>>, y.assignment>>, y.excavating>>)
    BY <1>1, <1>2, <1>3, <1>4, AgreeBoth DEF HashActivity
  <1>7. <<<<<<x.job, x.founding>>, x.assignment>>, x.excavating>>
          = <<<<<<y.job, y.founding>>, y.assignment>>, y.excavating>>
            => x = y
    BY <1>5
  <1> QED BY <1>6, <1>7, AgreeOn

LEMMA UnitAgree == \A x, y \in Unit : Agree(HashUnit(x), HashUnit(y), x, y)
  <1> SUFFICES ASSUME NEW x \in Unit, NEW y \in Unit PROVE Agree(HashUnit(x), HashUnit(y), x, y)
    OBVIOUS
  <1>1. Agree(Text(x.id), Text(y.id), x.id, y.id)
    BY IdAgree DEF Unit
  <1>2. Agree(Text(x.owner), Text(y.owner), x.owner, y.owner)
    BY IdAgree DEF Unit
  <1>3. Agree(U8(x.kind), U8(y.kind), x.kind, y.kind)
    <2>1. x.kind \in Byte /\ y.kind \in Byte
      BY SmallBytes DEF Unit
    <2> QED BY <2>1, U8Agree
  <1>4. Agree(Text(x.name), Text(y.name), x.name, y.name)
    BY TextAgree DEF Unit
  <1>5. Agree(Coordinate(x.position), Coordinate(y.position), x.position, y.position)
    BY CoordinateAgree DEF Unit
  <1>6. Agree(U32(x.movement), U32(y.movement), x.movement, y.movement)
    BY U32Agree DEF Unit
  <1>7. Agree(Items(HashTroop, x.army), Items(HashTroop, y.army), x.army, y.army)
    BY TroopsAgree DEF Unit
  <1>8. Agree(Maybe(HashQueued, x.queued), Maybe(HashQueued, y.queued), x.queued, y.queued)
    BY MaybeQueuedAgree DEF Unit
  <1>9. Agree(Maybe(HashMerchant, x.merchant), Maybe(HashMerchant, y.merchant),
              x.merchant, y.merchant)
    BY MaybeMerchantAgree DEF Unit
  <1>10. Agree(HashActivity(x.activity), HashActivity(y.activity), x.activity, y.activity)
    BY ActivityAgree DEF Unit
  <1>11. Agree(U32(x.charges), U32(y.charges), x.charges, y.charges)
    BY U32Agree DEF Unit
  <1>12. Agree(Maybe(U32, x.hitPoints), Maybe(U32, y.hitPoints), x.hitPoints, y.hitPoints)
    BY MaybeNumberAgree DEF Unit
  <1>13. Agree(U32(x.experience), U32(y.experience), x.experience, y.experience)
    BY U32Agree DEF Unit
  <1>14. Agree(U8(x.posture), U8(y.posture), x.posture, y.posture)
    <2>1. x.posture \in Byte /\ y.posture \in Byte
      BY SmallBytes DEF Unit
    <2> QED BY <2>1, U8Agree
  <1>15. Agree(Maybe(Text, x.carried), Maybe(Text, y.carried), x.carried, y.carried)
    BY MaybeIdAgree DEF Unit
  <1>16. /\ x = [id |-> x.id, owner |-> x.owner, kind |-> x.kind, name |-> x.name,
                 position |-> x.position, movement |-> x.movement, army |-> x.army,
                 queued |-> x.queued, merchant |-> x.merchant, activity |-> x.activity,
                 charges |-> x.charges, hitPoints |-> x.hitPoints,
                 experience |-> x.experience, posture |-> x.posture, carried |-> x.carried]
         /\ y = [id |-> y.id, owner |-> y.owner, kind |-> y.kind, name |-> y.name,
                 position |-> y.position, movement |-> y.movement, army |-> y.army,
                 queued |-> y.queued, merchant |-> y.merchant, activity |-> y.activity,
                 charges |-> y.charges, hitPoints |-> y.hitPoints,
                 experience |-> y.experience, posture |-> y.posture, carried |-> y.carried]
    BY DEF Unit
  <1> DEFINE code1(u) == Text(u.id) \o Text(u.owner) \o U8(u.kind) \o Text(u.name)
             values1(u) == <<<<<<u.id, u.owner>>, u.kind>>, u.name>>
             code2(u) == code1(u) \o Coordinate(u.position) \o U32(u.movement)
                         \o Items(HashTroop, u.army)
             values2(u) == <<<<<<values1(u), u.position>>, u.movement>>, u.army>>
             code3(u) == code2(u) \o Maybe(HashQueued, u.queued)
                         \o Maybe(HashMerchant, u.merchant)
                         \o HashActivity(u.activity)
             values3(u) == <<<<<<values2(u), u.queued>>, u.merchant>>, u.activity>>
             code4(u) == code3(u) \o U32(u.charges) \o Maybe(U32, u.hitPoints)
                         \o U32(u.experience)
             values4(u) == <<<<<<values3(u), u.charges>>, u.hitPoints>>, u.experience>>
             code5(u) == code4(u) \o U8(u.posture) \o Maybe(Text, u.carried)
             values5(u) == <<<<values4(u), u.posture>>, u.carried>>
  <1>17. Agree(code1(x), code1(y), values1(x), values1(y))
    BY <1>1, <1>2, <1>3, <1>4, AgreeBoth
  <1> HIDE DEF code1, values1
  <1>18. Agree(code2(x), code2(y), values2(x), values2(y))
    BY <1>17, <1>5, <1>6, <1>7, AgreeBoth
  <1> HIDE DEF code2, values2
  <1>19. Agree(code3(x), code3(y), values3(x), values3(y))
    BY <1>18, <1>8, <1>9, <1>10, AgreeBoth
  <1> HIDE DEF code3, values3
  <1>20. Agree(code4(x), code4(y), values4(x), values4(y))
    BY <1>19, <1>11, <1>12, <1>13, AgreeBoth
  <1> HIDE DEF code4, values4
  <1>21. Agree(code5(x), code5(y), values5(x), values5(y))
    BY <1>20, <1>14, <1>15, AgreeBoth
  <1>22. values5(x) = values5(y) => x = y
    BY <1>16 DEF values1, values2, values3, values4
  <1>23. HashUnit(x) = code5(x) /\ HashUnit(y) = code5(y)
    BY DEF HashUnit, code1, code2, code3, code4
  <1> HIDE DEF code5, values5
  <1> QED BY <1>21, <1>22, <1>23, AgreeOn

-----------------------------------------------------------------------------
(* Cities, artifacts, interactions, fog, contacts and roads.               *)

LEMMA ListElements == \A S : \A s \in ListsOf(S) : ToSet(s) \in SortedSets(S)
  <1> SUFFICES ASSUME NEW S, NEW s \in ListsOf(S) PROVE ToSet(s) \in SortedSets(S)
    OBVIOUS
  <1>1. s \in Seq(S) /\ Len(s) \in Lengths
    BY DEF ListsOf
  <1>2. IsList(s) /\ s = [i \in DOMAIN s |-> s[i]] /\ \A i \in DOMAIN s : s[i] \in S
    BY <1>1 DEF IsList
  <1> QED BY <1>2, ElementsAreSet

LEMMA KeyedAgree ==
  ASSUME NEW S, NEW f, Codes(f, S), NEW key, \A x \in S : key[x] \in Seq(Int),
         NEW T \in SortedSets(S), \A x, y \in T : key[x] = key[y] => x = y,
         NEW U \in SortedSets(S), \A x, y \in U : key[x] = key[y] => x = y
  PROVE  Agree(ItemsOf(f, Arranged(Preceding(key, T), T)),
               ItemsOf(f, Arranged(Preceding(key, U), U)), T, U)
  <1>1. T \subseteq S /\ U \subseteq S
    BY DEF SortedSets
  <1>2. Orders(Preceding(key, T), T) /\ Orders(Preceding(key, U), U)
    BY <1>1, KeysOrder
  <1> QED BY <1>2, SetAgree

\* The lists of coordinates, fog and roads are in the order of a key.
LEMMA HexesArranged ==
  ASSUME NEW r \in SortedSets(HexCoord)
  PROVE  LET T == r
             key == [x \in HexCoord |-> x]
         IN  /\ Orders(Preceding(key, T), T)
             /\ Sorted(Before, r) = Arranged(Preceding(key, T), T)
  <1> DEFINE T == r
             key == [x \in HexCoord |-> x]
  <1>1. T \subseteq HexCoord /\ IsFiniteSet(T)
    BY DEF SortedSets
  <1>2. \A x \in T : key[x] \in Seq(Int)
    BY <1>1, TextsAreSequences
  <1>3. \A x, y \in T : key[x] = key[y] => x = y
    <2>1. \A x, y \in T : x = y => x = y
      OBVIOUS
    <2> QED BY <1>1, <2>1
  <1>4. \A x \in T : {y \in T : Before(y, x)} = Preceding(key, T)[x]
    BY <1>1 DEF Preceding
  <1>5. Sorted(Before, r)
          = [i \in 1 .. Cardinality(T) |->
               CHOOSE x \in T : Cardinality({y \in T : Before(y, x)}) = i - 1]
    BY Zenon DEF Sorted, T
  <1> HIDE DEF T, key
  <1>6. Orders(Preceding(key, T), T)
    BY <1>2, <1>3, KeysOrder
  <1>7. \A i \in 1 .. Cardinality(T) :
            (CHOOSE x \in T : Cardinality({y \in T : Before(y, x)}) = i - 1)
              = (CHOOSE x \in T : Cardinality(Preceding(key, T)[x]) = i - 1)
    BY <1>4
  <1>8. Sorted(Before, r) = Arranged(Preceding(key, T), T)
    BY <1>5, <1>7 DEF Arranged
  <1> QED BY <1>6, <1>8 DEF T, key

LEMMA HexesAgree ==
  ASSUME NEW s \in SortedSets(HexCoord),
         NEW t \in SortedSets(HexCoord)
  PROVE  Agree(Hexes(s), Hexes(t), s, t)
  <1> DEFINE f == [x \in HexCoord |-> Coordinate(x)]
             key == [x \in HexCoord |-> x]
  <1>1. Codes(f, HexCoord)
    BY CoordinateAgree DEF Codes
  <1>2. \A x \in HexCoord : key[x] \in Seq(Int)
    BY TextsAreSequences
  <1>3. ASSUME NEW r \in SortedSets(HexCoord)
        PROVE  /\ r \in SortedSets(HexCoord)
               /\ \A x, y \in r : key[x] = key[y] => x = y
               /\ Hexes(r)
                    = ItemsOf(f, Arranged(Preceding(key, r), r))
    <2> DEFINE T == r
               list == Arranged(Preceding(key, T), T)
    <2>1. T \in SortedSets(HexCoord) /\ T \subseteq HexCoord /\ IsFiniteSet(T)
      BY <1>3 DEF SortedSets
    <2>2. \A x, y \in T : key[x] = key[y] => x = y
      <3>1. \A x, y \in T : x = y => x = y
        OBVIOUS
      <3> QED BY <2>1, <3>1
    <2>3. Sorted(Before, r) = list
      BY <1>3, HexesArranged
    <2>4. list \in Seq(T)
      <3>1. Orders(Preceding(key, T), T)
        BY <1>3, HexesArranged
      <3> QED BY <2>1, <3>1, ArrangedFacts
    <2> HIDE DEF list
    <2>5. Items(Coordinate, list) = ItemsOf(f, list)
      <3>1. \A i \in DOMAIN list : f[list[i]] = Coordinate(list[i])
        BY <2>1, <2>4
      <3>2. Each(Coordinate, list) = [i \in DOMAIN list |-> f[list[i]]]
        BY <3>1 DEF Each
      <3> HIDE DEF f
      <3> QED BY <3>2 DEF Items, ItemsOf
    <2> QED BY <2>1, <2>2, <2>3, <2>5 DEF list, Hexes
  <1> HIDE DEF f, key
  <1> QED BY <1>1, <1>2, <1>3, KeyedAgree

LEMMA CityAgree == \A x, y \in City : Agree(HashCity(x), HashCity(y), x, y)
  <1> SUFFICES ASSUME NEW x \in City, NEW y \in City PROVE Agree(HashCity(x), HashCity(y), x, y)
    OBVIOUS
  <1>1. Agree(Text(x.id), Text(y.id), x.id, y.id)
    BY IdAgree DEF City
  <1>2. Agree(Text(x.owner), Text(y.owner), x.owner, y.owner)
    BY IdAgree DEF City
  <1>3. Agree(Coordinate(x.center), Coordinate(y.center), x.center, y.center)
    BY CoordinateAgree DEF City
  <1>4. Agree(Hexes(x.hexes), Hexes(y.hexes), x.hexes, y.hexes)
    BY HexesAgree DEF City
  <1>5. /\ x = [id |-> x.id, owner |-> x.owner, center |-> x.center, hexes |-> x.hexes]
        /\ y = [id |-> y.id, owner |-> y.owner, center |-> y.center, hexes |-> y.hexes]
    BY DEF City
  <1>6. Agree(HashCity(x), HashCity(y),
              <<<<<<x.id, x.owner>>, x.center>>, x.hexes>>,
              <<<<<<y.id, y.owner>>, y.center>>, y.hexes>>)
    BY <1>1, <1>2, <1>3, <1>4, AgreeBoth DEF HashCity
  <1>7. <<<<<<x.id, x.owner>>, x.center>>, x.hexes>>
          = <<<<<<y.id, y.owner>>, y.center>>, y.hexes>>
            => x = y
    BY <1>5
  <1> QED BY <1>6, <1>7, AgreeOn

LEMMA UnitsAgree ==
  ASSUME NEW s \in ListsOf(Unit), Unique(s),
         NEW t \in ListsOf(Unit), Unique(t)
  PROVE  Agree(Items(HashUnit, ById(s)), Items(HashUnit, ById(t)), ToSet(s), ToSet(t))
  <1> DEFINE f == [x \in Unit |-> HashUnit(x)]
             key == [x \in Unit |-> x.id]
  <1>1. Codes(f, Unit)
    BY UnitAgree DEF Codes
  <1>2. \A x \in Unit : key[x] \in Seq(Int)
    BY TextsAreSequences DEF Unit
  <1>3. ASSUME NEW r \in ListsOf(Unit), Unique(r)
        PROVE  /\ ToSet(r) \in SortedSets(Unit)
               /\ \A x, y \in ToSet(r) : key[x] = key[y] => x = y
               /\ Items(HashUnit, ById(r))
                    = ItemsOf(f, Arranged(Preceding(key, ToSet(r)), ToSet(r)))
    <2> DEFINE T == ToSet(r)
               list == Arranged(Preceding(key, T), T)
    <2>1. T \in SortedSets(Unit) /\ T \subseteq Unit /\ IsFiniteSet(T)
      BY <1>3, ListElements DEF SortedSets
    <2>2. \A x, y \in T : key[x] = key[y] => x = y
      <3>1. \A x, y \in T : x.id = y.id => x = y
        BY <1>3 DEF Unique, Distinct, ToSet
      <3> QED BY <2>1, <3>1
    <2>3. ById(r) = list
      <3>1. \A x \in T : {y \in T : Before(y.id, x.id)} = Preceding(key, T)[x]
        BY <2>1 DEF Preceding
      <3> HIDE DEF T, key
      <3>2. \A i \in 1 .. Cardinality(T) :
              (CHOOSE x \in T : Cardinality({y \in T : Before(y.id, x.id)}) = i - 1)
                = (CHOOSE x \in T : Cardinality(Preceding(key, T)[x]) = i - 1)
        BY <3>1
      <3>3. ById(r)
              = [i \in 1 .. Cardinality(T) |->
                   CHOOSE x \in T : Cardinality({y \in T : Before(y.id, x.id)}) = i - 1]
        BY Zenon DEF ById, Sorted, T
      <3> QED BY <3>2, <3>3 DEF Arranged
    <2>4. list \in Seq(T)
      <3>1. Orders(Preceding(key, T), T)
        BY <1>2, <2>1, <2>2, KeysOrder
      <3> QED BY <2>1, <3>1, ArrangedFacts
    <2> HIDE DEF list
    <2>5. Items(HashUnit, list) = ItemsOf(f, list)
      <3>1. \A i \in DOMAIN list : f[list[i]] = HashUnit(list[i])
        BY <2>1, <2>4
      <3>2. Each(HashUnit, list) = [i \in DOMAIN list |-> f[list[i]]]
        BY <3>1 DEF Each
      <3> HIDE DEF f
      <3> QED BY <3>2 DEF Items, ItemsOf
    <2> QED BY <2>1, <2>2, <2>3, <2>5 DEF list
  <1> HIDE DEF f, key
  <1> QED BY <1>1, <1>2, <1>3, KeyedAgree

LEMMA CitiesAgree ==
  ASSUME NEW s \in ListsOf(City), Unique(s),
         NEW t \in ListsOf(City), Unique(t)
  PROVE  Agree(Items(HashCity, ById(s)), Items(HashCity, ById(t)), ToSet(s), ToSet(t))
  <1> DEFINE f == [x \in City |-> HashCity(x)]
             key == [x \in City |-> x.id]
  <1>1. Codes(f, City)
    BY CityAgree DEF Codes
  <1>2. \A x \in City : key[x] \in Seq(Int)
    BY TextsAreSequences DEF City
  <1>3. ASSUME NEW r \in ListsOf(City), Unique(r)
        PROVE  /\ ToSet(r) \in SortedSets(City)
               /\ \A x, y \in ToSet(r) : key[x] = key[y] => x = y
               /\ Items(HashCity, ById(r))
                    = ItemsOf(f, Arranged(Preceding(key, ToSet(r)), ToSet(r)))
    <2> DEFINE T == ToSet(r)
               list == Arranged(Preceding(key, T), T)
    <2>1. T \in SortedSets(City) /\ T \subseteq City /\ IsFiniteSet(T)
      BY <1>3, ListElements DEF SortedSets
    <2>2. \A x, y \in T : key[x] = key[y] => x = y
      <3>1. \A x, y \in T : x.id = y.id => x = y
        BY <1>3 DEF Unique, Distinct, ToSet
      <3> QED BY <2>1, <3>1
    <2>3. ById(r) = list
      <3>1. \A x \in T : {y \in T : Before(y.id, x.id)} = Preceding(key, T)[x]
        BY <2>1 DEF Preceding
      <3> HIDE DEF T, key
      <3>2. \A i \in 1 .. Cardinality(T) :
              (CHOOSE x \in T : Cardinality({y \in T : Before(y.id, x.id)}) = i - 1)
                = (CHOOSE x \in T : Cardinality(Preceding(key, T)[x]) = i - 1)
        BY <3>1
      <3>3. ById(r)
              = [i \in 1 .. Cardinality(T) |->
                   CHOOSE x \in T : Cardinality({y \in T : Before(y.id, x.id)}) = i - 1]
        BY Zenon DEF ById, Sorted, T
      <3> QED BY <3>2, <3>3 DEF Arranged
    <2>4. list \in Seq(T)
      <3>1. Orders(Preceding(key, T), T)
        BY <1>2, <2>1, <2>2, KeysOrder
      <3> QED BY <2>1, <3>1, ArrangedFacts
    <2> HIDE DEF list
    <2>5. Items(HashCity, list) = ItemsOf(f, list)
      <3>1. \A i \in DOMAIN list : f[list[i]] = HashCity(list[i])
        BY <2>1, <2>4
      <3>2. Each(HashCity, list) = [i \in DOMAIN list |-> f[list[i]]]
        BY <3>1 DEF Each
      <3> HIDE DEF f
      <3> QED BY <3>2 DEF Items, ItemsOf
    <2> QED BY <2>1, <2>2, <2>3, <2>5 DEF list
  <1> HIDE DEF f, key
  <1> QED BY <1>1, <1>2, <1>3, KeyedAgree

LEMMA FogAgree == \A x, y \in PlayerFog : Agree(HashFog(x), HashFog(y), x, y)
  <1> SUFFICES ASSUME NEW x \in PlayerFog,
                      NEW y \in PlayerFog PROVE Agree(HashFog(x), HashFog(y), x, y)
    OBVIOUS
  <1>1. Agree(Text(x.player), Text(y.player), x.player, y.player)
    BY IdAgree DEF PlayerFog
  <1>2. Agree(Hexes(x.discovered), Hexes(y.discovered), x.discovered, y.discovered)
    BY HexesAgree DEF PlayerFog
  <1>3. Agree(Hexes(x.visible), Hexes(y.visible), x.visible, y.visible)
    BY HexesAgree DEF PlayerFog
  <1>4. /\ x = [player |-> x.player, discovered |-> x.discovered, visible |-> x.visible]
        /\ y = [player |-> y.player, discovered |-> y.discovered, visible |-> y.visible]
    BY DEF PlayerFog
  <1>5. Agree(HashFog(x), HashFog(y),
              <<<<x.player, x.discovered>>, x.visible>>,
              <<<<y.player, y.discovered>>, y.visible>>)
    BY <1>1, <1>2, <1>3, AgreeBoth DEF HashFog
  <1>6. <<<<x.player, x.discovered>>, x.visible>>
          = <<<<y.player, y.discovered>>, y.visible>>
            => x = y
    BY <1>4
  <1> QED BY <1>5, <1>6, AgreeOn

LEMMA RoadAgree == \A x, y \in TransportSegment : Agree(HashRoad(x), HashRoad(y), x, y)
  <1> SUFFICES ASSUME NEW x \in TransportSegment,
                      NEW y \in TransportSegment PROVE Agree(HashRoad(x), HashRoad(y), x, y)
    OBVIOUS
  <1>1. Agree(Coordinate(x.coordinate), Coordinate(y.coordinate), x.coordinate, y.coordinate)
    BY CoordinateAgree DEF TransportSegment
  <1>2. Agree(U8(x.condition), U8(y.condition), x.condition, y.condition)
    <2>1. x.condition \in Byte /\ y.condition \in Byte
      BY SmallBytes DEF TransportSegment
    <2> QED BY <2>1, U8Agree
  <1>3. Agree(Text(x.builder), Text(y.builder), x.builder, y.builder)
    BY IdAgree DEF TransportSegment
  <1>4. Agree(Maybe(Text, x.city), Maybe(Text, y.city), x.city, y.city)
    BY MaybeIdAgree DEF TransportSegment
  <1>5. /\ x = [coordinate |-> x.coordinate, condition |-> x.condition,
                builder |-> x.builder, city |-> x.city]
        /\ y = [coordinate |-> y.coordinate, condition |-> y.condition,
                builder |-> y.builder, city |-> y.city]
    BY DEF TransportSegment
  <1>6. Agree(HashRoad(x), HashRoad(y),
              <<<<<<x.coordinate, x.condition>>, x.builder>>, x.city>>,
              <<<<<<y.coordinate, y.condition>>, y.builder>>, y.city>>)
    BY <1>1, <1>2, <1>3, <1>4, AgreeBoth DEF HashRoad
  <1>7. <<<<<<x.coordinate, x.condition>>, x.builder>>, x.city>>
          = <<<<<<y.coordinate, y.condition>>, y.builder>>, y.city>>
            => x = y
    BY <1>5
  <1> QED BY <1>6, <1>7, AgreeOn

LEMMA DraftAgree == \A x, y \in CityFoundingDraft : Agree(HashDraft(x), HashDraft(y), x, y)
  <1> SUFFICES ASSUME NEW x \in CityFoundingDraft,
                      NEW y \in CityFoundingDraft PROVE Agree(HashDraft(x), HashDraft(y), x, y)
    OBVIOUS
  <1>1. Agree(Text(x.unit), Text(y.unit), x.unit, y.unit)
    BY IdAgree DEF CityFoundingDraft
  <1>2. Agree(Text(x.owner), Text(y.owner), x.owner, y.owner)
    BY IdAgree DEF CityFoundingDraft
  <1>3. Agree(Coordinate(x.center), Coordinate(y.center), x.center, y.center)
    BY CoordinateAgree DEF CityFoundingDraft
  <1>4. Agree(Items(Coordinate, x.hexes), Items(Coordinate, y.hexes), x.hexes, y.hexes)
    BY CoordinatesAgree DEF CityFoundingDraft
  <1>5. /\ x = [unit |-> x.unit, owner |-> x.owner, center |-> x.center, hexes |-> x.hexes]
        /\ y = [unit |-> y.unit, owner |-> y.owner, center |-> y.center, hexes |-> y.hexes]
    BY DEF CityFoundingDraft
  <1>6. Agree(HashDraft(x), HashDraft(y),
              <<<<<<x.unit, x.owner>>, x.center>>, x.hexes>>,
              <<<<<<y.unit, y.owner>>, y.center>>, y.hexes>>)
    BY <1>1, <1>2, <1>3, <1>4, AgreeBoth DEF HashDraft
  <1>7. <<<<<<x.unit, x.owner>>, x.center>>, x.hexes>>
          = <<<<<<y.unit, y.owner>>, y.center>>, y.hexes>>
            => x = y
    BY <1>5
  <1> QED BY <1>6, <1>7, AgreeOn

LEMMA MaybeDraftAgree ==
  \A x, y \in Optional(CityFoundingDraft) : Agree(Maybe(HashDraft, x), Maybe(HashDraft, y), x, y)
  <1> SUFFICES ASSUME NEW x \in Optional(CityFoundingDraft), NEW y \in Optional(CityFoundingDraft)
               PROVE  Agree(Maybe(HashDraft, x), Maybe(HashDraft, y), x, y)
    OBVIOUS
  <1> DEFINE f == [z \in CityFoundingDraft |-> HashDraft(z)]
  <1>1. Codes(f, CityFoundingDraft)
    BY DraftAgree DEF Codes
  <1>2. \A z \in Optional(CityFoundingDraft) : Maybe(HashDraft, z) = MaybeOf(f, z)
    BY DEF Optional, Maybe, MaybeOf
  <1> HIDE DEF f
  <1> QED BY <1>1, <1>2, MaybeAgree

LEMMA FogsArranged ==
  ASSUME NEW r, r.fog \in SortedSets(PlayerFog),
         \A x, y \in r.fog : x.player = y.player => x = y
  PROVE  LET T == r.fog
             key == [x \in PlayerFog |-> x.player]
         IN  /\ Orders(Preceding(key, T), T)
             /\ FogList(r) = Arranged(Preceding(key, T), T)
  <1> DEFINE T == r.fog
             key == [x \in PlayerFog |-> x.player]
  <1>1. T \subseteq PlayerFog /\ IsFiniteSet(T)
    BY DEF SortedSets
  <1>2. \A x \in T : key[x] \in Seq(Int)
    BY <1>1, TextsAreSequences DEF PlayerFog
  <1>3. \A x, y \in T : key[x] = key[y] => x = y
    <2>1. \A x, y \in T : x.player = y.player => x = y
      OBVIOUS
    <2> QED BY <1>1, <2>1
  <1>4. \A x \in T : {y \in T : Before(y.player, x.player)} = Preceding(key, T)[x]
    BY <1>1 DEF Preceding
  <1>5. FogList(r)
          = [i \in 1 .. Cardinality(T) |->
               CHOOSE x \in T : Cardinality({y \in T : Before(y.player, x.player)}) = i - 1]
    BY Zenon DEF FogList, Sorted, T
  <1> HIDE DEF T, key
  <1>6. Orders(Preceding(key, T), T)
    BY <1>2, <1>3, KeysOrder
  <1>7. \A i \in 1 .. Cardinality(T) :
            (CHOOSE x \in T : Cardinality({y \in T : Before(y.player, x.player)}) = i - 1)
              = (CHOOSE x \in T : Cardinality(Preceding(key, T)[x]) = i - 1)
    BY <1>4
  <1>8. FogList(r) = Arranged(Preceding(key, T), T)
    BY <1>5, <1>7 DEF Arranged
  <1> QED BY <1>6, <1>8 DEF T, key

LEMMA FogsAgree ==
  ASSUME NEW s, s.fog \in SortedSets(PlayerFog),
         \A x, y \in s.fog : x.player = y.player => x = y,
         NEW t, t.fog \in SortedSets(PlayerFog),
         \A x, y \in t.fog : x.player = y.player => x = y
  PROVE  Agree(Items(HashFog, FogList(s)), Items(HashFog, FogList(t)), s.fog, t.fog)
  <1> DEFINE f == [x \in PlayerFog |-> HashFog(x)]
             key == [x \in PlayerFog |-> x.player]
  <1>1. Codes(f, PlayerFog)
    BY FogAgree DEF Codes
  <1>2. \A x \in PlayerFog : key[x] \in Seq(Int)
    BY TextsAreSequences DEF PlayerFog
  <1>3. ASSUME NEW r, r.fog \in SortedSets(PlayerFog),
         \A x, y \in r.fog : x.player = y.player => x = y
        PROVE  /\ r.fog \in SortedSets(PlayerFog)
               /\ \A x, y \in r.fog : key[x] = key[y] => x = y
               /\ Items(HashFog, FogList(r))
                    = ItemsOf(f, Arranged(Preceding(key, r.fog), r.fog))
    <2> DEFINE T == r.fog
               list == Arranged(Preceding(key, T), T)
    <2>1. T \in SortedSets(PlayerFog) /\ T \subseteq PlayerFog /\ IsFiniteSet(T)
      BY <1>3 DEF SortedSets
    <2>2. \A x, y \in T : key[x] = key[y] => x = y
      <3>1. \A x, y \in T : x.player = y.player => x = y
        BY <1>3
      <3> QED BY <2>1, <3>1
    <2>3. FogList(r) = list
      BY <1>3, FogsArranged
    <2>4. list \in Seq(T)
      <3>1. Orders(Preceding(key, T), T)
        BY <1>3, FogsArranged
      <3> QED BY <2>1, <3>1, ArrangedFacts
    <2> HIDE DEF list
    <2>5. Items(HashFog, list) = ItemsOf(f, list)
      <3>1. \A i \in DOMAIN list : f[list[i]] = HashFog(list[i])
        BY <2>1, <2>4
      <3>2. Each(HashFog, list) = [i \in DOMAIN list |-> f[list[i]]]
        BY <3>1 DEF Each
      <3> HIDE DEF f
      <3> QED BY <3>2 DEF Items, ItemsOf
    <2> QED BY <2>1, <2>2, <2>3, <2>5 DEF list
  <1> HIDE DEF f, key
  <1> QED BY <1>1, <1>2, <1>3, KeyedAgree

LEMMA RoadsArranged ==
  ASSUME NEW r, r.roads \in SortedSets(TransportSegment),
         \A x, y \in r.roads : x.coordinate = y.coordinate => x = y
  PROVE  LET T == r.roads
             key == [x \in TransportSegment |-> x.coordinate]
         IN  /\ Orders(Preceding(key, T), T)
             /\ RoadList(r) = Arranged(Preceding(key, T), T)
  <1> DEFINE T == r.roads
             key == [x \in TransportSegment |-> x.coordinate]
  <1>1. T \subseteq TransportSegment /\ IsFiniteSet(T)
    BY DEF SortedSets
  <1>2. \A x \in T : key[x] \in Seq(Int)
    BY <1>1, TextsAreSequences DEF TransportSegment
  <1>3. \A x, y \in T : key[x] = key[y] => x = y
    <2>1. \A x, y \in T : x.coordinate = y.coordinate => x = y
      OBVIOUS
    <2> QED BY <1>1, <2>1
  <1>4. \A x \in T : {y \in T : Before(y.coordinate, x.coordinate)} = Preceding(key, T)[x]
    BY <1>1 DEF Preceding
  <1>5. RoadList(r)
          = [i \in 1 .. Cardinality(T) |->
               CHOOSE x \in T :
                 Cardinality({y \in T : Before(y.coordinate, x.coordinate)}) = i - 1]
    BY Zenon DEF RoadList, Sorted, T
  <1> HIDE DEF T, key
  <1>6. Orders(Preceding(key, T), T)
    BY <1>2, <1>3, KeysOrder
  <1>7. \A i \in 1 .. Cardinality(T) :
            (CHOOSE x \in T : Cardinality({y \in T : Before(y.coordinate, x.coordinate)}) = i - 1)
              = (CHOOSE x \in T : Cardinality(Preceding(key, T)[x]) = i - 1)
    BY <1>4
  <1>8. RoadList(r) = Arranged(Preceding(key, T), T)
    BY <1>5, <1>7 DEF Arranged
  <1> QED BY <1>6, <1>8 DEF T, key

LEMMA RoadsAgree ==
  ASSUME NEW s, s.roads \in SortedSets(TransportSegment),
         \A x, y \in s.roads : x.coordinate = y.coordinate => x = y,
         NEW t, t.roads \in SortedSets(TransportSegment),
         \A x, y \in t.roads : x.coordinate = y.coordinate => x = y
  PROVE  Agree(Items(HashRoad, RoadList(s)), Items(HashRoad, RoadList(t)), s.roads, t.roads)
  <1> DEFINE f == [x \in TransportSegment |-> HashRoad(x)]
             key == [x \in TransportSegment |-> x.coordinate]
  <1>1. Codes(f, TransportSegment)
    BY RoadAgree DEF Codes
  <1>2. \A x \in TransportSegment : key[x] \in Seq(Int)
    BY TextsAreSequences DEF TransportSegment
  <1>3. ASSUME NEW r, r.roads \in SortedSets(TransportSegment),
         \A x, y \in r.roads : x.coordinate = y.coordinate => x = y
        PROVE  /\ r.roads \in SortedSets(TransportSegment)
               /\ \A x, y \in r.roads : key[x] = key[y] => x = y
               /\ Items(HashRoad, RoadList(r))
                    = ItemsOf(f, Arranged(Preceding(key, r.roads), r.roads))
    <2> DEFINE T == r.roads
               list == Arranged(Preceding(key, T), T)
    <2>1. T \in SortedSets(TransportSegment) /\ T \subseteq TransportSegment /\ IsFiniteSet(T)
      BY <1>3 DEF SortedSets
    <2>2. \A x, y \in T : key[x] = key[y] => x = y
      <3>1. \A x, y \in T : x.coordinate = y.coordinate => x = y
        BY <1>3
      <3> QED BY <2>1, <3>1
    <2>3. RoadList(r) = list
      BY <1>3, RoadsArranged
    <2>4. list \in Seq(T)
      <3>1. Orders(Preceding(key, T), T)
        BY <1>3, RoadsArranged
      <3> QED BY <2>1, <3>1, ArrangedFacts
    <2> HIDE DEF list
    <2>5. Items(HashRoad, list) = ItemsOf(f, list)
      <3>1. \A i \in DOMAIN list : f[list[i]] = HashRoad(list[i])
        BY <2>1, <2>4
      <3>2. Each(HashRoad, list) = [i \in DOMAIN list |-> f[list[i]]]
        BY <3>1 DEF Each
      <3> HIDE DEF f
      <3> QED BY <3>2 DEF Items, ItemsOf
    <2> QED BY <2>1, <2>2, <2>3, <2>5 DEF list
  <1> HIDE DEF f, key
  <1> QED BY <1>1, <1>2, <1>3, KeyedAgree

LEMMA PairAgree == \A x, y \in PlayerPair : Agree(HashPair(x), HashPair(y), x, y)
  <1> SUFFICES ASSUME NEW x \in PlayerPair, NEW y \in PlayerPair
               PROVE  Agree(HashPair(x), HashPair(y), x, y)
    OBVIOUS
  <1>1. /\ x[1] \in Ids /\ x[2] \in Ids /\ x = <<x[1], x[2]>>
        /\ y[1] \in Ids /\ y[2] \in Ids /\ y = <<y[1], y[2]>>
    BY DEF PlayerPair
  <1>2. Agree(Text(x[1]), Text(y[1]), x[1], y[1]) /\ Agree(Text(x[2]), Text(y[2]), x[2], y[2])
    BY <1>1, IdAgree
  <1>3. Agree(HashPair(x), HashPair(y), <<x[1], x[2]>>, <<y[1], y[2]>>)
    BY <1>2, AgreeBoth DEF HashPair
  <1> QED BY <1>1, <1>3

LEMMA PairsOrder ==
  ASSUME NEW T, T \subseteq PlayerPair
  PROVE  Orders([x \in T |-> {y \in T : PairBefore(y, x)}], T)
  <1> DEFINE R == [x \in T |-> {y \in T : PairBefore(y, x)}]
  <1>1. \A x \in T : x[1] \in Seq(Int) /\ x[2] \in Seq(Int) /\ x = <<x[1], x[2]>>
    BY TextsAreSequences DEF PlayerPair
  <1>2. /\ R \in [T -> SUBSET T]
        /\ \A x, y \in T : x \in R[y]
              <=> Before(x[1], y[1]) \/ (x[1] = y[1] /\ Before(x[2], y[2]))
    BY DEF PairBefore
  <1> HIDE DEF R
  <1>3. \A x \in T : x \notin R[x]
    BY <1>1, <1>2, BeforeIrreflexive
  <1>4. ASSUME NEW x \in T, NEW y \in T, NEW z \in T, x \in R[y], y \in R[z]
        PROVE  x \in R[z]
    <2>1. CASE Before(x[1], y[1]) /\ Before(y[1], z[1])
      BY <1>1, <1>2, <2>1, BeforeTransitive
    <2>2. CASE Before(x[1], y[1]) /\ y[1] = z[1]
      BY <1>2, <2>2
    <2>3. CASE x[1] = y[1] /\ Before(y[1], z[1])
      BY <1>2, <2>3
    <2>4. CASE x[1] = y[1] /\ Before(x[2], y[2]) /\ y[1] = z[1] /\ Before(y[2], z[2])
      BY <1>1, <1>2, <2>4, BeforeTransitive
    <2> QED BY <1>2, <1>4, <2>1, <2>2, <2>3, <2>4
  <1>5. ASSUME NEW x \in T, NEW y \in T, x # y
        PROVE  x \in R[y] \/ y \in R[x]
    <2>1. x[1] # y[1] \/ x[2] # y[2]
      BY <1>1, <1>5
    <2>2. CASE x[1] # y[1]
      BY <1>1, <1>2, <2>2, BeforeTotal
    <2>3. CASE x[1] = y[1]
      BY <1>1, <1>2, <2>1, <2>3, BeforeTotal
    <2> QED BY <2>2, <2>3
  <1> QED BY <1>2, <1>3, <1>4, <1>5 DEF Orders, R

LEMMA ContactsArranged ==
  ASSUME NEW r, r.contacts \in SortedSets(PlayerPair)
  PROVE  LET T == r.contacts
             R == [x \in T |-> {y \in T : PairBefore(y, x)}]
         IN  Orders(R, T) /\ ContactList(r) = Arranged(R, T)
  <1> DEFINE T == r.contacts
             R == [x \in T |-> {y \in T : PairBefore(y, x)}]
  <1>1. T \subseteq PlayerPair /\ IsFiniteSet(T)
    BY DEF SortedSets
  <1>2. Orders(R, T)
    BY <1>1, PairsOrder
  <1>3. \A x \in T : {y \in T : PairBefore(y, x)} = R[x]
    OBVIOUS
  <1>4. ContactList(r)
          = [i \in 1 .. Cardinality(T) |->
               CHOOSE x \in T : Cardinality({y \in T : PairBefore(y, x)}) = i - 1]
    BY Zenon DEF ContactList, Sorted, T
  <1> HIDE DEF T, R
  <1>5. \A i \in 1 .. Cardinality(T) :
            (CHOOSE x \in T : Cardinality({y \in T : PairBefore(y, x)}) = i - 1)
              = (CHOOSE x \in T : Cardinality(R[x]) = i - 1)
    BY <1>3
  <1>6. ContactList(r) = Arranged(R, T)
    BY <1>4, <1>5 DEF Arranged
  <1> QED BY <1>2, <1>6 DEF T, R

LEMMA ContactsAgree ==
  ASSUME NEW s, s.contacts \in SortedSets(PlayerPair),
         NEW t, t.contacts \in SortedSets(PlayerPair)
  PROVE  Agree(Items(HashPair, ContactList(s)), Items(HashPair, ContactList(t)),
               s.contacts, t.contacts)
  <1> DEFINE f == [x \in PlayerPair |-> HashPair(x)]
             order(T) == [x \in T |-> {y \in T : PairBefore(y, x)}]
  <1>1. Codes(f, PlayerPair)
    BY PairAgree DEF Codes
  <1>2. ASSUME NEW r, r.contacts \in SortedSets(PlayerPair)
        PROVE  /\ Orders(order(r.contacts), r.contacts)
               /\ Items(HashPair, ContactList(r))
                    = ItemsOf(f, Arranged(order(r.contacts), r.contacts))
    <2> DEFINE T == r.contacts
               R == order(T)
               list == Arranged(R, T)
    <2>1. T \subseteq PlayerPair /\ IsFiniteSet(T)
      BY <1>2 DEF SortedSets
    <2>2. Orders(R, T)
      BY <2>1, PairsOrder
    <2>3. ContactList(r) = list
      BY <1>2, ContactsArranged
    <2>4. list \in Seq(T)
      BY <2>1, <2>2, ArrangedFacts
    <2> HIDE DEF list
    <2>5. Items(HashPair, list) = ItemsOf(f, list)
      <3>1. \A i \in DOMAIN list : f[list[i]] = HashPair(list[i])
        BY <2>1, <2>4
      <3>2. Each(HashPair, list) = [i \in DOMAIN list |-> f[list[i]]]
        BY <3>1 DEF Each
      <3> HIDE DEF f
      <3> QED BY <3>2 DEF Items, ItemsOf
    <2> QED BY <2>2, <2>3, <2>5 DEF list
  <1> HIDE DEF f, order
  <1> QED BY <1>1, <1>2, SetAgree

\* Where an artifact is, by the tag of its kind.
Places == {"map", "carried", "stored", "excavation"}
PlaceTag(l) ==
    IF l.kind = "map" THEN 0
    ELSE IF l.kind = "carried" THEN 1 ELSE IF l.kind = "stored" THEN 2 ELSE 3
PlaceBody(l) ==
    IF l.kind = "map" THEN Coordinate(l.tile)
    ELSE IF l.kind = "carried" THEN Text(l.unit)
    ELSE IF l.kind = "stored" THEN Text(l.city)
    ELSE Text(l.unit) \o Coordinate(l.tile) \o U32(l.remaining)

LEMMA PlaceFacts ==
  ASSUME NEW l \in WorldArtifactLocation
  PROVE  /\ l.kind \in Places
         /\ l.kind \in {"carried", "excavation"} => l.unit \in Ids
         /\ l.kind \notin {"carried", "excavation"} => l.unit = None
         /\ l.kind = "stored" => l.city \in Ids
         /\ l.kind # "stored" => l.city = None
         /\ l.kind \in {"map", "excavation"} => l.tile \in HexCoord
         /\ l.kind \notin {"map", "excavation"} => l.tile = None
         /\ l.kind = "excavation" => l.remaining \in Numbers
         /\ l.kind # "excavation" => l.remaining = None
         /\ l = [kind |-> l.kind, unit |-> l.unit, city |-> l.city, tile |-> l.tile,
                 remaining |-> l.remaining]
  BY DEF WorldArtifactLocation, Only, Places

LEMMA LocationAgree ==
  \A x, y \in WorldArtifactLocation : Agree(HashLocation(x), HashLocation(y), x, y)
  <1> SUFFICES ASSUME NEW x \in WorldArtifactLocation, NEW y \in WorldArtifactLocation
               PROVE  Agree(HashLocation(x), HashLocation(y), x, y)
    OBVIOUS
  <1>1. 0 \in Byte /\ 1 \in Byte /\ 2 \in Byte /\ 3 \in Byte
    BY DEF Byte
  <1>2. \A l \in WorldArtifactLocation : PlaceTag(l) \in Byte
    BY <1>1 DEF PlaceTag
  <1>3. ASSUME NEW l \in WorldArtifactLocation
        PROVE  PlaceBody(l) \in Code /\ HashLocation(l) = U8(PlaceTag(l)) \o PlaceBody(l)
    <2>1. CASE l.kind = "map"
      BY <2>1, PlaceFacts, NumberCodes DEF PlaceBody, PlaceTag, HashLocation
    <2>2. CASE l.kind = "carried"
      BY <2>2, PlaceFacts, NumberCodes DEF PlaceBody, PlaceTag, HashLocation
    <2>3. CASE l.kind = "stored"
      BY <2>3, PlaceFacts, NumberCodes DEF PlaceBody, PlaceTag, HashLocation
    <2>4. CASE l.kind = "excavation"
      <3>1. U8(3) \in Code /\ Text(l.unit) \in Code /\ Coordinate(l.tile) \in Code
            /\ U32(l.remaining) \in Code
        BY <1>1, <2>4, PlaceFacts, NumberCodes
      <3>2. (Text(l.unit) \o Coordinate(l.tile)) \o U32(l.remaining) \in Code
        BY <3>1, Joined, Zenon DEF Join
      <3>3. HashLocation(l) = ((U8(3) \o Text(l.unit)) \o Coordinate(l.tile)) \o U32(l.remaining)
        BY <2>4 DEF HashLocation
      <3>4. /\ PlaceTag(l) = 3
            /\ PlaceBody(l) = (Text(l.unit) \o Coordinate(l.tile)) \o U32(l.remaining)
        BY <2>4 DEF PlaceTag, PlaceBody
      <3>5. ((U8(3) \o Text(l.unit)) \o Coordinate(l.tile)) \o U32(l.remaining)
              = U8(3) \o ((Text(l.unit) \o Coordinate(l.tile)) \o U32(l.remaining))
        <4>1. Join(Join(Join(U8(3), Text(l.unit)), Coordinate(l.tile)), U32(l.remaining))
                = Join(U8(3), Join(Join(Text(l.unit), Coordinate(l.tile)), U32(l.remaining)))
          BY <3>1, Regroups
        <4> QED BY <4>1, Zenon DEF Join
      <3> QED BY <3>2, <3>3, <3>4, <3>5
    <2> QED BY <2>1, <2>2, <2>3, <2>4, PlaceFacts DEF Places
  <1>4. ASSUME PlaceTag(x) = PlaceTag(y)
        PROVE  Agree(PlaceBody(x), PlaceBody(y), x, y)
    <2>1. x.kind = y.kind
      BY <1>4, PlaceFacts DEF PlaceTag, Places
    <2>2. /\ x = [kind |-> x.kind, unit |-> x.unit, city |-> x.city, tile |-> x.tile,
                  remaining |-> x.remaining]
          /\ y = [kind |-> x.kind, unit |-> y.unit, city |-> y.city, tile |-> y.tile,
                  remaining |-> y.remaining]
      BY <2>1, PlaceFacts
    <2>3. CASE x.kind = "map"
      <3>1. Agree(Coordinate(x.tile), Coordinate(y.tile), x.tile, y.tile)
        BY <2>1, <2>3, PlaceFacts, CoordinateAgree
      <3>2. /\ x.unit = None /\ y.unit = None /\ x.city = None /\ y.city = None
            /\ x.remaining = None /\ y.remaining = None
        BY <2>1, <2>3, PlaceFacts
      <3>3. x.tile = y.tile => x = y
        BY <2>2, <3>2
      <3> QED BY <2>1, <2>3, <3>1, <3>3, AgreeOn DEF PlaceBody
    <2>4. CASE x.kind = "carried"
      <3>1. Agree(Text(x.unit), Text(y.unit), x.unit, y.unit)
        BY <2>1, <2>4, PlaceFacts, IdAgree
      <3>2. /\ x.tile = None /\ y.tile = None /\ x.city = None /\ y.city = None
            /\ x.remaining = None /\ y.remaining = None
        BY <2>1, <2>4, PlaceFacts
      <3>3. x.unit = y.unit => x = y
        BY <2>2, <3>2
      <3> QED BY <2>1, <2>4, <3>1, <3>3, AgreeOn DEF PlaceBody
    <2>5. CASE x.kind = "stored"
      <3>1. Agree(Text(x.city), Text(y.city), x.city, y.city)
        BY <2>1, <2>5, PlaceFacts, IdAgree
      <3>2. /\ x.tile = None /\ y.tile = None /\ x.unit = None /\ y.unit = None
            /\ x.remaining = None /\ y.remaining = None
        BY <2>1, <2>5, PlaceFacts
      <3>3. x.city = y.city => x = y
        BY <2>2, <3>2
      <3> QED BY <2>1, <2>5, <3>1, <3>3, AgreeOn DEF PlaceBody
    <2>6. CASE x.kind = "excavation"
      <3>1. /\ Agree(Text(x.unit), Text(y.unit), x.unit, y.unit)
            /\ Agree(Coordinate(x.tile), Coordinate(y.tile), x.tile, y.tile)
            /\ Agree(U32(x.remaining), U32(y.remaining), x.remaining, y.remaining)
        BY <2>1, <2>6, PlaceFacts, IdAgree, CoordinateAgree, U32Agree
      <3>2. /\ PlaceBody(x) = Text(x.unit) \o Coordinate(x.tile) \o U32(x.remaining)
            /\ PlaceBody(y) = Text(y.unit) \o Coordinate(y.tile) \o U32(y.remaining)
        BY <2>1, <2>6 DEF PlaceBody
      <3>3. Agree(PlaceBody(x), PlaceBody(y), <<<<x.unit, x.tile>>, x.remaining>>,
                  <<<<y.unit, y.tile>>, y.remaining>>)
        BY <3>1, <3>2, AgreeBoth
      <3>4. x.city = None /\ y.city = None
        BY <2>1, <2>6, PlaceFacts
      <3>5. <<<<x.unit, x.tile>>, x.remaining>> = <<<<y.unit, y.tile>>, y.remaining>> => x = y
        BY <2>2, <3>4
      <3> QED BY <3>3, <3>5, AgreeOn
    <2> QED BY <2>3, <2>4, <2>5, <2>6, PlaceFacts DEF Places
  <1> QED BY <1>2, <1>3, <1>4, TagAgree

LEMMA ArtifactAgree == \A x, y \in WorldArtifact : Agree(HashArtifact(x), HashArtifact(y), x, y)
  <1> SUFFICES ASSUME NEW x \in WorldArtifact,
                      NEW y \in WorldArtifact PROVE Agree(HashArtifact(x), HashArtifact(y), x, y)
    OBVIOUS
  <1>1. Agree(Text(x.id), Text(y.id), x.id, y.id)
    BY IdAgree DEF WorldArtifact
  <1>2. Agree(U8(x.type), U8(y.type), x.type, y.type)
    <2>1. x.type \in Byte /\ y.type \in Byte
      BY SmallBytes DEF WorldArtifact
    <2> QED BY <2>1, U8Agree
  <1>3. Agree(HashLocation(x.location), HashLocation(y.location), x.location, y.location)
    BY LocationAgree DEF WorldArtifact
  <1>4. /\ x = [id |-> x.id, type |-> x.type, location |-> x.location]
        /\ y = [id |-> y.id, type |-> y.type, location |-> y.location]
    BY DEF WorldArtifact
  <1>5. Agree(HashArtifact(x), HashArtifact(y),
              <<<<x.id, x.type>>, x.location>>,
              <<<<y.id, y.type>>, y.location>>)
    BY <1>1, <1>2, <1>3, AgreeBoth DEF HashArtifact
  <1>6. <<<<x.id, x.type>>, x.location>> = <<<<y.id, y.type>>, y.location>> => x = y
    BY <1>4
  <1> QED BY <1>5, <1>6, AgreeOn

LEMMA ArtifactsAgree ==
  ASSUME NEW s \in ListsOf(WorldArtifact), Unique(s),
         NEW t \in ListsOf(WorldArtifact), Unique(t)
  PROVE  Agree(Items(HashArtifact, ById(s)), Items(HashArtifact, ById(t)), ToSet(s), ToSet(t))
  <1> DEFINE f == [x \in WorldArtifact |-> HashArtifact(x)]
             key == [x \in WorldArtifact |-> x.id]
  <1>1. Codes(f, WorldArtifact)
    BY ArtifactAgree DEF Codes
  <1>2. \A x \in WorldArtifact : key[x] \in Seq(Int)
    BY TextsAreSequences DEF WorldArtifact
  <1>3. ASSUME NEW r \in ListsOf(WorldArtifact), Unique(r)
        PROVE  /\ ToSet(r) \in SortedSets(WorldArtifact)
               /\ \A x, y \in ToSet(r) : key[x] = key[y] => x = y
               /\ Items(HashArtifact, ById(r))
                    = ItemsOf(f, Arranged(Preceding(key, ToSet(r)), ToSet(r)))
    <2> DEFINE T == ToSet(r)
               list == Arranged(Preceding(key, T), T)
    <2>1. T \in SortedSets(WorldArtifact) /\ T \subseteq WorldArtifact /\ IsFiniteSet(T)
      BY <1>3, ListElements DEF SortedSets
    <2>2. \A x, y \in T : key[x] = key[y] => x = y
      <3>1. \A x, y \in T : x.id = y.id => x = y
        BY <1>3 DEF Unique, Distinct, ToSet
      <3> QED BY <2>1, <3>1
    <2>3. ById(r) = list
      <3>1. \A x \in T : {y \in T : Before(y.id, x.id)} = Preceding(key, T)[x]
        BY <2>1 DEF Preceding
      <3> HIDE DEF T, key
      <3>2. \A i \in 1 .. Cardinality(T) :
              (CHOOSE x \in T : Cardinality({y \in T : Before(y.id, x.id)}) = i - 1)
                = (CHOOSE x \in T : Cardinality(Preceding(key, T)[x]) = i - 1)
        BY <3>1
      <3>3. ById(r)
              = [i \in 1 .. Cardinality(T) |->
                   CHOOSE x \in T : Cardinality({y \in T : Before(y.id, x.id)}) = i - 1]
        BY Zenon DEF ById, Sorted, T
      <3> QED BY <3>2, <3>3 DEF Arranged
    <2>4. list \in Seq(T)
      <3>1. Orders(Preceding(key, T), T)
        BY <1>2, <2>1, <2>2, KeysOrder
      <3> QED BY <2>1, <3>1, ArrangedFacts
    <2> HIDE DEF list
    <2>5. Items(HashArtifact, list) = ItemsOf(f, list)
      <3>1. \A i \in DOMAIN list : f[list[i]] = HashArtifact(list[i])
        BY <2>1, <2>4
      <3>2. Each(HashArtifact, list) = [i \in DOMAIN list |-> f[list[i]]]
        BY <3>1 DEF Each
      <3> HIDE DEF f
      <3> QED BY <3>2 DEF Items, ItemsOf
    <2> QED BY <2>1, <2>2, <2>3, <2>5 DEF list
  <1> HIDE DEF f, key
  <1> QED BY <1>1, <1>2, <1>3, KeyedAgree

LEMMA MaybeByteAgree ==
  \A x, y \in Optional(Byte) : Agree(Maybe(U8, x), Maybe(U8, y), x, y)
  <1> SUFFICES ASSUME NEW x \in Optional(Byte), NEW y \in Optional(Byte)
               PROVE  Agree(Maybe(U8, x), Maybe(U8, y), x, y)
    OBVIOUS
  <1> DEFINE f == [z \in Byte |-> U8(z)]
  <1>1. Codes(f, Byte)
    BY U8Agree DEF Codes
  <1>2. \A z \in Optional(Byte) : Maybe(U8, z) = MaybeOf(f, z)
    BY DEF Optional, Maybe, MaybeOf
  <1> HIDE DEF f
  <1> QED BY <1>1, <1>2, MaybeAgree

\* The kinds of a pending interaction are numbered from 1.
InteractionKinds == {"researchSelection"} \cup CityKinds \cup SelectionKinds

LEMMA PendingTags ==
  /\ \A kind \in InteractionKinds : PendingTag(kind) \in 1 .. 9 /\ PendingTag(kind) \in Byte
  /\ \A k, l \in InteractionKinds : PendingTag(k) = PendingTag(l) => k = l
  <1> DEFINE kinds == PendingKinds
             those == InteractionKinds
  <1>1. DOMAIN kinds = 1 .. 9
    BY DEF PendingKinds
  <1>2. \A kind \in those : \E i \in 1 .. 9 : kinds[i] = kind
    <2>1. /\ kinds[1] = "researchSelection" /\ kinds[2] = "cityWorkedHexSelection"
          /\ kinds[3] = "cityExpansionSelection" /\ kinds[4] = "workerActionSelection"
          /\ kinds[5] = "merchantTradeRouteSelection"
          /\ kinds[6] = "merchantMoveToCitySelection" /\ kinds[7] = "unitTurnSkip"
          /\ kinds[8] = "attackTargeting" /\ kinds[9] = "commanderMergeSelection"
      BY DEF PendingKinds
    <2> HIDE DEF kinds
    <2>2. /\ 1 \in 1 .. 9 /\ 2 \in 1 .. 9 /\ 3 \in 1 .. 9 /\ 4 \in 1 .. 9 /\ 5 \in 1 .. 9
          /\ 6 \in 1 .. 9 /\ 7 \in 1 .. 9 /\ 8 \in 1 .. 9 /\ 9 \in 1 .. 9
      OBVIOUS
    <2> QED BY <2>1, <2>2, Zenon DEF InteractionKinds, CityKinds, SelectionKinds
  <1> HIDE DEF kinds, those
  <1> DEFINE at(kind) == CHOOSE i \in 1 .. 9 : kinds[i] = kind
  <1>3. \A kind \in those : at(kind) \in 1 .. 9 /\ kinds[at(kind)] = kind
    BY <1>2
  <1>4. \A kind : PendingTag(kind) = (at(kind) - 1) + 1
    BY <1>1 DEF PendingTag, Valued, kinds
  <1> HIDE DEF at
  <1>5. \A kind \in those : PendingTag(kind) = at(kind)
    BY <1>3, <1>4
  <1>6. \A i \in 1 .. 9 : i \in Byte
    BY DEF Byte
  <1> QED BY <1>3, <1>5, <1>6 DEF those

LEMMA PendingFacts ==
  ASSUME NEW p \in PendingInteraction
  PROVE  /\ p.kind \in InteractionKinds /\ p.owner \in Ids
         /\ p.kind \in CityKinds => p.city \in Ids /\ p.unit = None
         /\ p.kind = "researchSelection" => p.city = None /\ p.unit = None
         /\ p.kind \in SelectionKinds => p.unit \in Ids /\ p.city = None
         /\ p.kind = "unitTurnSkip" => p.restore \in Numbers
         /\ p.kind # "unitTurnSkip" => p.restore = None
         /\ p.improvement \in Optional(Byte)
         /\ p.kind # "workerActionSelection" => p.improvement = None
         /\ p.defender \in Optional(HexCoord)
         /\ p.kind # "attackTargeting" => p.defender = None
         /\ p = [kind |-> p.kind, owner |-> p.owner, city |-> p.city, unit |-> p.unit,
                 restore |-> p.restore, improvement |-> p.improvement, defender |-> p.defender]
  <1>1. /\ p.kind \in InteractionKinds /\ p.owner \in Ids
        /\ p.improvement \in Optional(0 .. 18) /\ p.defender \in Optional(HexCoord)
        /\ p = [kind |-> p.kind, owner |-> p.owner, city |-> p.city, unit |-> p.unit,
                restore |-> p.restore, improvement |-> p.improvement, defender |-> p.defender]
    BY DEF PendingInteraction, InteractionKinds
  <1>2. /\ p.city \in Only(p.kind \in CityKinds, Ids)
        /\ p.unit \in Only(p.kind \in SelectionKinds, Ids)
        /\ p.restore \in Only(p.kind = "unitTurnSkip", Numbers)
        /\ p.improvement # None => p.kind = "workerActionSelection"
        /\ p.defender # None => p.kind = "attackTargeting"
    BY DEF PendingInteraction
  <1>3. p.improvement \in Optional(Byte)
    BY <1>1, SmallBytes DEF Optional
  <1>4. /\ p.kind \in CityKinds => p.kind \notin SelectionKinds
        /\ p.kind = "researchSelection" => p.kind \notin CityKinds /\ p.kind \notin SelectionKinds
    BY DEF CityKinds, SelectionKinds
  <1> QED BY <1>1, <1>2, <1>3, <1>4, Zenon DEF Only

\* Whom an interaction is about, and its detail.
Subject(p) ==
    IF p.kind \in CityKinds THEN Text(p.city)
    ELSE IF p.kind = "researchSelection" THEN <<>> ELSE Text(p.unit)
Detail(p) ==
    IF p.kind = "workerActionSelection" THEN Maybe(U8, p.improvement)
    ELSE IF p.kind = "unitTurnSkip" THEN U32(p.restore)
    ELSE IF p.kind = "attackTargeting" THEN Maybe(Coordinate, p.defender) ELSE <<>>

LEMMA SubjectAgree ==
  ASSUME NEW x \in PendingInteraction, NEW y \in PendingInteraction, x.kind = y.kind
  PROVE  Agree(Subject(x), Subject(y), <<x.city, x.unit>>, <<y.city, y.unit>>)
  <1>1. CASE x.kind \in CityKinds
    <2>1. Agree(Text(x.city), Text(y.city), x.city, y.city)
      BY <1>1, PendingFacts, IdAgree
    <2>2. x.unit = None /\ y.unit = None
      BY <1>1, PendingFacts
    <2>3. Agree(Text(x.city), Text(y.city), <<x.city, x.unit>>, <<y.city, y.unit>>)
      BY <2>1, <2>2, AgreeOn
    <2> QED BY <1>1, <2>3 DEF Subject
  <1>2. CASE x.kind = "researchSelection"
    <2>1. x.kind \notin CityKinds
      BY <1>2 DEF CityKinds
    <2>2. <<x.city, x.unit>> = <<y.city, y.unit>>
      BY <1>2, PendingFacts
    <2>3. Agree(<<>>, <<>>, <<x.city, x.unit>>, <<y.city, y.unit>>)
      BY <2>2, AgreeOnEqual
    <2> QED BY <1>2, <2>1, <2>3 DEF Subject
  <1>3. CASE x.kind \notin CityKinds /\ x.kind # "researchSelection"
    <2>1. x.kind \in SelectionKinds
      BY <1>3, PendingFacts DEF InteractionKinds
    <2>2. Agree(Text(x.unit), Text(y.unit), x.unit, y.unit)
      BY <2>1, PendingFacts, IdAgree
    <2>3. x.city = None /\ y.city = None
      BY <2>1, PendingFacts
    <2>4. Agree(Text(x.unit), Text(y.unit), <<x.city, x.unit>>, <<y.city, y.unit>>)
      BY <2>2, <2>3, AgreeOn
    <2> QED BY <1>3, <2>4 DEF Subject
  <1> QED BY <1>1, <1>2, <1>3

LEMMA DetailAgree ==
  ASSUME NEW x \in PendingInteraction, NEW y \in PendingInteraction, x.kind = y.kind
  PROVE  Agree(Detail(x), Detail(y), <<x.restore, x.improvement, x.defender>>,
               <<y.restore, y.improvement, y.defender>>)
  <1> DEFINE a == <<x.restore, x.improvement, x.defender>>
             b == <<y.restore, y.improvement, y.defender>>
  <1>0. "workerActionSelection" # "unitTurnSkip" /\ "unitTurnSkip" # "attackTargeting"
        /\ "workerActionSelection" # "attackTargeting"
    OBVIOUS
  <1>1. CASE x.kind = "workerActionSelection"
    <2>1. Agree(Maybe(U8, x.improvement), Maybe(U8, y.improvement),
                x.improvement, y.improvement)
      BY PendingFacts, MaybeByteAgree
    <2>2. x.restore = None /\ y.restore = None /\ x.defender = None /\ y.defender = None
      BY <1>0, <1>1, PendingFacts, Zenon
    <2>3. x.improvement = y.improvement => a = b
      BY <2>2
    <2>4. Agree(Maybe(U8, x.improvement), Maybe(U8, y.improvement), a, b)
      BY <2>1, <2>3, AgreeOn
    <2> QED BY <1>1, <2>4 DEF Detail
  <1>2. CASE x.kind = "unitTurnSkip"
    <2>1. Agree(U32(x.restore), U32(y.restore), x.restore, y.restore)
      BY <1>2, PendingFacts, U32Agree
    <2>2. /\ x.improvement = None /\ y.improvement = None
          /\ x.defender = None /\ y.defender = None
      BY <1>0, <1>2, PendingFacts, Zenon
    <2>3. x.restore = y.restore => a = b
      BY <2>2
    <2>4. Agree(U32(x.restore), U32(y.restore), a, b)
      BY <2>1, <2>3, AgreeOn
    <2> QED BY <1>2, <2>4 DEF Detail
  <1>3. CASE x.kind = "attackTargeting"
    <2>1. Agree(Maybe(Coordinate, x.defender), Maybe(Coordinate, y.defender),
                x.defender, y.defender)
      BY PendingFacts, MaybeCoordinateAgree
    <2>2. x.restore = None /\ y.restore = None /\ x.improvement = None /\ y.improvement = None
      BY <1>0, <1>3, PendingFacts, Zenon
    <2>3. x.defender = y.defender => a = b
      BY <2>2
    <2>4. Agree(Maybe(Coordinate, x.defender), Maybe(Coordinate, y.defender), a, b)
      BY <2>1, <2>3, AgreeOn
    <2> QED BY <1>3, <2>4 DEF Detail
  <1>4. CASE x.kind \notin {"workerActionSelection", "unitTurnSkip", "attackTargeting"}
    <2>1. /\ x.restore = None /\ y.restore = None /\ x.improvement = None
          /\ y.improvement = None /\ x.defender = None /\ y.defender = None
      BY <1>4, PendingFacts
    <2>2. a = b
      BY <2>1
    <2>3. Agree(<<>>, <<>>, a, b)
      BY <2>2, AgreeOnEqual
    <2> QED BY <1>4, <2>3 DEF Detail
  <1> QED BY <1>1, <1>2, <1>3, <1>4

PendingCode(p) ==
    IF p = None THEN U8(0) ELSE U8(PendingTag(p.kind)) \o HashPending(p)

LEMMA PendingAgree ==
  \A x, y \in Optional(PendingInteraction) : Agree(PendingCode(x), PendingCode(y), x, y)
  <1> SUFFICES ASSUME NEW x \in Optional(PendingInteraction),
                      NEW y \in Optional(PendingInteraction)
               PROVE  Agree(PendingCode(x), PendingCode(y), x, y)
    OBVIOUS
  <1> DEFINE tag(p) == IF p = None THEN 0 ELSE PendingTag(p.kind)
             body(p) == IF p = None THEN <<>> ELSE HashPending(p)
  <1>1. \A p \in Optional(PendingInteraction) : p # None => p \in PendingInteraction
    BY DEF Optional
  <1>2. ASSUME NEW p \in PendingInteraction
        PROVE  HashPending(p) = (Text(p.owner) \o Subject(p)) \o Detail(p)
    <2>1. p.kind = "researchSelection" => p.kind \notin CityKinds
      BY DEF CityKinds
    <2> QED BY <2>1 DEF HashPending, Subject, Detail
  <1>3. ASSUME NEW p \in PendingInteraction, NEW q \in PendingInteraction, p.kind = q.kind
        PROVE  Agree(HashPending(p), HashPending(q), p, q)
    <2>1. Agree(Text(p.owner), Text(q.owner), p.owner, q.owner)
      BY PendingFacts, IdAgree
    <2>2. Agree(Subject(p), Subject(q), <<p.city, p.unit>>, <<q.city, q.unit>>)
      BY <1>3, SubjectAgree
    <2>3. Agree(Detail(p), Detail(q), <<p.restore, p.improvement, p.defender>>,
                <<q.restore, q.improvement, q.defender>>)
      BY <1>3, DetailAgree
    <2>4. Agree(HashPending(p), HashPending(q),
                <<<<p.owner, <<p.city, p.unit>>>>, <<p.restore, p.improvement, p.defender>>>>,
                <<<<q.owner, <<q.city, q.unit>>>>, <<q.restore, q.improvement, q.defender>>>>)
      BY <1>2, <2>1, <2>2, <2>3, AgreeBoth
    <2>5. /\ p = [kind |-> p.kind, owner |-> p.owner, city |-> p.city, unit |-> p.unit,
                  restore |-> p.restore, improvement |-> p.improvement, defender |-> p.defender]
          /\ q = [kind |-> p.kind, owner |-> q.owner, city |-> q.city, unit |-> q.unit,
                  restore |-> q.restore, improvement |-> q.improvement, defender |-> q.defender]
      BY <1>3, PendingFacts
    <2>6. <<<<p.owner, <<p.city, p.unit>>>>, <<p.restore, p.improvement, p.defender>>>>
            = <<<<q.owner, <<q.city, q.unit>>>>, <<q.restore, q.improvement, q.defender>>>>
              => p = q
      BY <2>5
    <2> QED BY <2>4, <2>6, AgreeOn
  <1>4. <<>> \in Code /\ U8(0) \o <<>> = U8(0) /\ 0 \in Byte
    BY DEF Code, U8, Byte
  <1>5. ASSUME NEW p \in Optional(PendingInteraction)
        PROVE  /\ tag(p) \in Byte /\ body(p) \in Code
               /\ PendingCode(p) = U8(tag(p)) \o body(p)
    <2>1. CASE p = None
      BY <1>4, <2>1 DEF PendingCode
    <2>2. CASE p # None
      <3>1. p \in PendingInteraction
        BY <1>1, <2>2
      <3>2. tag(p) \in Byte
        BY <2>2, <3>1, PendingFacts, PendingTags
      <3>3. body(p) \in Code
        BY <1>3, <2>2, <3>1 DEF Agree
      <3> QED BY <2>2, <3>2, <3>3 DEF PendingCode
    <2> QED BY <2>1, <2>2
  <1>6. ASSUME tag(x) = tag(y)
        PROVE  Agree(body(x), body(y), x, y)
    <2>1. \A p \in Optional(PendingInteraction) : p # None => tag(p) \in 1 .. 9
      BY <1>1, PendingFacts, PendingTags
    <2>2. 0 \notin 1 .. 9
      OBVIOUS
    <2>3. x = None <=> y = None
      BY <1>6, <2>1, <2>2
    <2>4. CASE x = None
      <3>1. Agree(<<>>, <<>>, x, y)
        BY <2>3, <2>4, AgreeOnNothing, AgreeOn
      <3> QED BY <2>3, <2>4, <3>1
    <2>5. CASE x # None
      <3>1. x \in PendingInteraction /\ y \in PendingInteraction /\ y # None
        BY <1>1, <2>3, <2>5
      <3>2. x.kind = y.kind
        BY <1>6, <2>5, <3>1, PendingFacts, PendingTags
      <3> QED BY <1>3, <2>5, <3>1, <3>2
    <2> QED BY <2>4, <2>5
  <1> HIDE DEF tag, body
  <1> QED BY <1>5, <1>6, TagAgree

LEMMA InteractionAgree ==
  ASSUME NEW g, g.draft \in Optional(CityFoundingDraft),
         g.pending \in Optional(PendingInteraction),
         NEW h, h.draft \in Optional(CityFoundingDraft),
         h.pending \in Optional(PendingInteraction)
  PROVE  Agree(HashInteraction(g), HashInteraction(h),
               <<g.draft, g.pending>>, <<h.draft, h.pending>>)
  <1>1. Agree(Maybe(HashDraft, g.draft), Maybe(HashDraft, h.draft), g.draft, h.draft)
    BY MaybeDraftAgree
  <1>2. Agree(PendingCode(g.pending), PendingCode(h.pending), g.pending, h.pending)
    BY PendingAgree
  <1>3. /\ HashInteraction(g) = Maybe(HashDraft, g.draft) \o PendingCode(g.pending)
        /\ HashInteraction(h) = Maybe(HashDraft, h.draft) \o PendingCode(h.pending)
    BY Zenon DEF HashInteraction, PendingCode
  <1> QED BY <1>1, <1>2, <1>3, AgreeBoth

LEMMA FormatIsText == Format \in Texts
  <1> DEFINE text == Format
  <1>1. text \in Seq(Byte) /\ Len(text) = 18
    BY DEF Format, Byte
  <1>2. 18 \in Lengths
    BY DEF Lengths
  <1> HIDE DEF text
  <1>3. text \in Texts
    BY <1>1, <1>2 DEF Texts, ListsOf
  <1> QED BY <1>3 DEF text

-----------------------------------------------------------------------------
(* The digest of a whole state.                                            *)

\* Two states agree where their encodings begin alike.
LEMMA StatesAgree ==
  ASSUME NEW g \in State, Unique(g.units), Unique(g.cities), Unique(g.artifacts),
         NEW h \in State, Unique(h.units), Unique(h.cities), Unique(h.artifacts)
  PROVE  Agree(Digest(g), Digest(h), Content(g), Content(h))
  <1>1. /\ g.revision \in LongNumbers /\ h.revision \in LongNumbers
        /\ g.turn \in Numbers /\ h.turn \in Numbers
        /\ g.cols \in ShortNumbers /\ h.cols \in ShortNumbers
        /\ g.rows \in ShortNumbers /\ h.rows \in ShortNumbers
        /\ g.policy \in 0 .. 1 /\ h.policy \in 0 .. 1
        /\ g.units \in ListsOf(Unit) /\ h.units \in ListsOf(Unit)
        /\ g.cities \in ListsOf(City) /\ h.cities \in ListsOf(City)
        /\ g.artifacts \in ListsOf(WorldArtifact) /\ h.artifacts \in ListsOf(WorldArtifact)
        /\ g.draft \in Optional(CityFoundingDraft) /\ h.draft \in Optional(CityFoundingDraft)
        /\ g.pending \in Optional(PendingInteraction)
        /\ h.pending \in Optional(PendingInteraction)
        /\ g.fog \in SortedSets(PlayerFog) /\ h.fog \in SortedSets(PlayerFog)
        /\ g.contacts \in SortedSets(PlayerPair) /\ h.contacts \in SortedSets(PlayerPair)
        /\ g.roads \in SortedSets(TransportSegment) /\ h.roads \in SortedSets(TransportSegment)
    BY DEF State, Dimensions
  <1>2. /\ \A x, y \in g.fog : x.player = y.player => x = y
        /\ \A x, y \in h.fog : x.player = y.player => x = y
        /\ \A x, y \in g.roads : x.coordinate = y.coordinate => x = y
        /\ \A x, y \in h.roads : x.coordinate = y.coordinate => x = y
    BY DEF State
  <1>3. Agree(Text(Format), Text(Format), Format, Format)
    BY FormatIsText, TextAgree
  <1>4. /\ Agree(U64(g.revision), U64(h.revision), g.revision, h.revision)
        /\ Agree(U32(g.turn), U32(h.turn), g.turn, h.turn)
        /\ Agree(U16(g.cols), U16(h.cols), g.cols, h.cols)
        /\ Agree(U16(g.rows), U16(h.rows), g.rows, h.rows)
    BY <1>1, U64Agree, U32Agree, U16Agree
  <1>5. Agree(U8(g.policy), U8(h.policy), g.policy, h.policy)
    <2>1. g.policy \in Byte /\ h.policy \in Byte
      BY <1>1 DEF Byte
    <2> QED BY <2>1, U8Agree
  <1>6. Agree(Items(HashUnit, ById(g.units)), Items(HashUnit, ById(h.units)),
              ToSet(g.units), ToSet(h.units))
    BY <1>1, UnitsAgree
  <1>7. Agree(Items(HashCity, ById(g.cities)), Items(HashCity, ById(h.cities)),
              ToSet(g.cities), ToSet(h.cities))
    BY <1>1, CitiesAgree
  <1>8. Agree(Items(HashArtifact, ById(g.artifacts)), Items(HashArtifact, ById(h.artifacts)),
              ToSet(g.artifacts), ToSet(h.artifacts))
    BY <1>1, ArtifactsAgree
  <1>9. Agree(HashInteraction(g), HashInteraction(h),
              <<g.draft, g.pending>>, <<h.draft, h.pending>>)
    BY <1>1, InteractionAgree
  <1>10. Agree(Items(HashFog, FogList(g)), Items(HashFog, FogList(h)), g.fog, h.fog)
    BY <1>1, <1>2, FogsAgree
  <1>11. Agree(Items(HashPair, ContactList(g)), Items(HashPair, ContactList(h)),
               g.contacts, h.contacts)
    BY <1>1, ContactsAgree
  <1>12. Agree(Items(HashRoad, RoadList(g)), Items(HashRoad, RoadList(h)), g.roads, h.roads)
    BY <1>1, <1>2, RoadsAgree
  <1> DEFINE head(k) == Text(Format) \o U64(k.revision) \o U32(k.turn) \o U16(k.cols)
                        \o U16(k.rows) \o U8(k.policy)
             entities(k) == head(k) \o Items(HashUnit, ById(k.units))
                            \o Items(HashCity, ById(k.cities))
                            \o Items(HashArtifact, ById(k.artifacts))
             whole(k) == entities(k) \o HashInteraction(k) \o Items(HashFog, FogList(k))
                         \o Items(HashPair, ContactList(k)) \o Items(HashRoad, RoadList(k))
             toldHead(k) ==
               <<<<<<<<<<Format, k.revision>>, k.turn>>, k.cols>>, k.rows>>, k.policy>>
             toldEntities(k) ==
               <<<<<<toldHead(k), ToSet(k.units)>>, ToSet(k.cities)>>, ToSet(k.artifacts)>>
             toldWhole(k) ==
               <<<<<<<<toldEntities(k), <<k.draft, k.pending>>>>, k.fog>>, k.contacts>>, k.roads>>
  <1>13. Agree(head(g), head(h), toldHead(g), toldHead(h))
    BY <1>3, <1>4, <1>5, AgreeBoth
  <1> HIDE DEF head, toldHead
  <1>14. Agree(entities(g), entities(h), toldEntities(g), toldEntities(h))
    BY <1>6, <1>7, <1>8, <1>13, AgreeBoth
  <1> HIDE DEF entities, toldEntities
  <1>15. Agree(whole(g), whole(h), toldWhole(g), toldWhole(h))
    BY <1>9, <1>10, <1>11, <1>12, <1>14, AgreeBoth
  <1>16. Digest(g) = whole(g) /\ Digest(h) = whole(h)
    BY Zenon DEF Digest, whole, entities, head
  <1>17. toldWhole(g) = toldWhole(h) => Content(g) = Content(h)
    <2> SUFFICES ASSUME toldWhole(g) = toldWhole(h) PROVE Content(g) = Content(h)
      OBVIOUS
    <2>1. /\ toldEntities(g) = toldEntities(h) /\ g.draft = h.draft /\ g.pending = h.pending
          /\ g.fog = h.fog /\ g.contacts = h.contacts /\ g.roads = h.roads
      OBVIOUS
    <2>2. /\ toldHead(g) = toldHead(h) /\ ToSet(g.units) = ToSet(h.units)
          /\ ToSet(g.cities) = ToSet(h.cities) /\ ToSet(g.artifacts) = ToSet(h.artifacts)
      BY <2>1 DEF toldEntities
    <2>3. /\ g.revision = h.revision /\ g.turn = h.turn /\ g.cols = h.cols /\ g.rows = h.rows
          /\ g.policy = h.policy
      BY <2>2 DEF toldHead
    <2> QED BY <2>1, <2>2, <2>3 DEF Content, State
  <1> HIDE DEF whole, toldWhole
  <1> QED BY <1>15, <1>16, <1>17, AgreeOn

\* The digest of a state is that of its content: the order in which entities
\* are listed is not hashed.
LEMMA SameGamesAgree ==
  ASSUME NEW g \in State, NEW h \in State, SameGame(g, h)
  PROVE  Digest(g) = Digest(h)
  <1>1. /\ g.revision = h.revision /\ g.turn = h.turn /\ g.cols = h.cols /\ g.rows = h.rows
        /\ g.policy = h.policy /\ g.draft = h.draft /\ g.pending = h.pending
        /\ g.fog = h.fog /\ g.contacts = h.contacts /\ g.roads = h.roads
        /\ ToSet(g.units) = ToSet(h.units) /\ ToSet(g.cities) = ToSet(h.cities)
        /\ ToSet(g.artifacts) = ToSet(h.artifacts)
    BY DEF SameGame, Content, State
  <1>2. /\ ById(g.units) = ById(h.units) /\ ById(g.cities) = ById(h.cities)
        /\ ById(g.artifacts) = ById(h.artifacts)
    BY <1>1, Zenon DEF ById
  <1>3. /\ FogList(g) = FogList(h) /\ ContactList(g) = ContactList(h)
        /\ RoadList(g) = RoadList(h) /\ HashInteraction(g) = HashInteraction(h)
    BY <1>1, Zenon DEF FogList, ContactList, RoadList, HashInteraction
  <1> QED BY <1>1, <1>2, <1>3, Zenon DEF Digest

\* GameStateDigest::from_state: the digests of two valid states are equal
\* exactly when they are the same game.
THEOREM DigestNamesGames ==
  ASSUME NEW g \in State, ValidState(g), NEW h \in State, ValidState(h)
  PROVE  Digest(g) = Digest(h) <=> SameGame(g, h)
  <1>1. /\ Unique(g.units) /\ Unique(g.cities) /\ Unique(g.artifacts)
        /\ Unique(h.units) /\ Unique(h.cities) /\ Unique(h.artifacts)
    BY DEF ValidState, ValidUnits, ValidCities, ValidArtifacts
  <1>2. Agree(Digest(g), Digest(h), Content(g), Content(h))
    BY <1>1, StatesAgree
  <1>3. Digest(g) = Digest(h) => SameGame(g, h)
    <2>1. <<>> \in Code
      BY DEF Code
    <2> QED BY <1>2, <2>1, Zenon DEF Agree, SameGame, Join
  <1> QED BY <1>3, SameGamesAgree
=============================================================================
