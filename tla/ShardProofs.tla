----------------------------- MODULE ShardProofs -----------------------------
(***************************************************************************)
(* Proved of ShardKV for every set of groups, shards, controllers, clients *)
(* and keys.                                                               *)
(***************************************************************************)
EXTENDS ShardKV, FiniteSetTheorems, SequenceTheorems, WellFoundedInduction, TLAPS

-----------------------------------------------------------------------------
(* Induction over numbers, in a form that has no operator for a parameter. *)

\* A set of numbers that is not empty has a least member.
LEMMA LeastNumber ==
  ASSUME NEW T \in SUBSET Nat, T # {}
  PROVE  \E x \in T : \A y \in T : x <= y
<1> DEFINE Less == OpToRel(<, Nat)
<1>1. IsWellFoundedOn(Less, Nat)
  BY NatLessThanWellFounded
<1>2. \A x, y \in Nat : y < x => <<y, x>> \in Less
  BY DEF OpToRel
<1> HIDE DEF Less
<1>3. PICK x \in T : \A y \in T : ~ (<<y, x>> \in Less)
  BY <1>1, WFMin
<1>4. \A y \in T : ~ (y < x)
  BY <1>2, <1>3
<1> QED BY <1>3, <1>4

\* A set that holds 0 and, below n, with each number the next, holds all up to n.
LEMMA UpTo ==
  ASSUME NEW n \in Nat, NEW T, 0 \in T, \A m \in Nat : m < n /\ m \in T => m + 1 \in T
  PROVE  \A m \in 0 .. n : m \in T
<1> DEFINE Bad == {m \in 0 .. n : m \notin T}
<1>1. SUFFICES ASSUME Bad # {} PROVE FALSE
  OBVIOUS
<1>2. Bad \in SUBSET Nat
  OBVIOUS
<1> HIDE DEF Bad
<1>3. PICK x \in Bad : \A y \in Bad : x <= y
  BY <1>1, <1>2, LeastNumber
<1>4. x \in 0 .. n /\ x \notin T
  BY <1>3 DEF Bad
<1>5. x # 0 /\ x - 1 \in Nat /\ x - 1 < n /\ x - 1 + 1 = x
  BY <1>4
<1>6. x - 1 \in T
  BY <1>3, <1>5 DEF Bad
<1> QED BY <1>4, <1>5, <1>6

\* A function on 0 .. n may be defined by its value at 0 and by how each value
\* follows from the one before.
StepOn(G, S, n) == G \in [S \X (1 .. n) -> S]
Iterated(G, S, n, b) ==
  \E f \in [0 .. n -> S] : f[0] = b /\ \A m \in 1 .. n : f[m] = G[<<f[m - 1], m>>]

LEMMA Iterates ==
  ASSUME NEW n \in Nat, NEW S, NEW b \in S, NEW G, StepOn(G, S, n)
  PROVE  Iterated(G, S, n, b)
<1>0. G \in [S \X (1 .. n) -> S]
  BY DEF StepOn
<1> DEFINE Up(f, m) == f[0] = b /\ \A i \in 1 .. m : f[i] = G[<<f[i - 1], i>>]
           T == {m \in Nat : \E f \in [0 .. m -> S] : Up(f, m)}
<1>1. 0 \in T
  <2> DEFINE f == [i \in 0 .. 0 |-> b]
  <2>1. f \in [0 .. 0 -> S] /\ Up(f, 0)
    OBVIOUS
  <2> QED BY <2>1
<1>2. ASSUME NEW m \in Nat, m < n, m \in T PROVE m + 1 \in T
  <2>1. PICK f \in [0 .. m -> S] : Up(f, m)
    BY <1>2
  <2> DEFINE h == [i \in 0 .. m + 1 |-> IF i = m + 1 THEN G[<<f[m], i>>] ELSE f[i]]
  <2>2. f[m] \in S /\ m + 1 \in 1 .. n
    BY <1>2
  <2>3. h \in [0 .. m + 1 -> S]
    <3>1. <<f[m], m + 1>> \in S \X (1 .. n)
      BY <2>2
    <3>2. G[<<f[m], m + 1>>] \in S
      BY <1>0, <3>1
    <3>3. \A i \in 0 .. m + 1 : i = m + 1 \/ i \in 0 .. m
      OBVIOUS
    <3> QED BY <3>2, <3>3
  <2>4. h[0] = b
    BY <2>1
  <2>5. ASSUME NEW i \in 1 .. m + 1 PROVE h[i] = G[<<h[i - 1], i>>]
    <3>1. CASE i = m + 1
      <4>1. h[m] = f[m] /\ i - 1 = m
        BY <3>1
      <4>2. h[i] = G[<<f[m], i>>]
        BY <3>1
      <4> QED BY <4>1, <4>2
    <3>2. CASE i # m + 1
      <4>1. i \in 1 .. m /\ i \in 0 .. m /\ i - 1 \in 0 .. m
        BY <3>2
      <4>2. h[i] = f[i] /\ h[i - 1] = f[i - 1]
        BY <4>1
      <4>3. f[i] = G[<<f[i - 1], i>>]
        BY <2>1, <4>1
      <4> QED BY <4>2, <4>3
    <3> QED BY <3>1, <3>2
  <2> HIDE DEF h
  <2> QED BY <2>3, <2>4, <2>5
<1> HIDE DEF T
<1>3. n \in T
  BY <1>1, <1>2, UpTo, n \in 0 .. n
<1> QED BY <1>3 DEF T, Iterated

-----------------------------------------------------------------------------
(* Join and Leave spread the shards evenly (rebalance of shardcfg.go).     *)

LEMMA ShardsAre == NShards \in Nat /\ NShards # 0 /\ Shard \subseteq Nat /\ IsFiniteSet(Shard)
                   /\ Cardinality(Shard) = NShards
<1>1. NShards \in Nat /\ NShards # 0 /\ Shard = 0 .. NShards - 1
  BY ShardAssumption DEF Shard
<1>2. IsFiniteSet(0 .. NShards - 1) /\ Cardinality(0 .. NShards - 1) = NShards
  BY <1>1, FS_Interval
<1> QED BY <1>1, <1>2

LEMMA CountIs ==
  ASSUME NEW b, NEW g
  PROVE  /\ IsFiniteSet(Has(b, g)) /\ Count(b, g) \in Nat /\ Count(b, g) <= NShards
         /\ Count(b, g) = 0 <=> \A s \in Shard : b[s] # g
<1>1. Has(b, g) \in SUBSET Shard
  BY DEF Has
<1>2. IsFiniteSet(Has(b, g)) /\ Cardinality(Has(b, g)) <= NShards
  BY <1>1, ShardsAre, FS_Subset
<1>3. Cardinality(Has(b, g)) \in Nat
  BY <1>2, FS_CardinalityType
<1>4. Cardinality(Has(b, g)) = 0 <=> Has(b, g) = {}
  BY <1>2, FS_EmptySet
<1>5. Has(b, g) = {} <=> \A s \in Shard : b[s] # g
  BY DEF Has
<1> QED BY <1>2, <1>3, <1>4, <1>5 DEF Count

\* What the move of a shard from one group to another does to the counts.
MovedTo(b, c, x, g) ==
  x \in Shard /\ b[x] # g /\ \A s \in Shard : c[s] = IF s = x THEN g ELSE b[s]

LEMMA MoveCounts ==
  ASSUME NEW b, NEW c, NEW x, NEW g, MovedTo(b, c, x, g)
  PROVE  /\ Count(c, g) = Count(b, g) + 1
         /\ Count(c, b[x]) = Count(b, b[x]) - 1
         /\ \A h : h # g /\ h # b[x] => Count(c, h) = Count(b, h)
<1>1. Has(c, g) = Has(b, g) \cup {x} /\ x \notin Has(b, g)
  BY DEF Has, MovedTo
<1>2. Has(c, b[x]) = Has(b, b[x]) \ {x} /\ x \in Has(b, b[x])
  BY DEF Has, MovedTo
<1>3. ASSUME NEW h, h # g, h # b[x] PROVE Has(c, h) = Has(b, h)
  BY <1>3 DEF Has, MovedTo
<1>4. Count(c, g) = Count(b, g) + 1
  BY <1>1, FS_AddElement, CountIs DEF Count
<1>5. Count(c, b[x]) = Count(b, b[x]) - 1
  BY <1>2, FS_RemoveElement, CountIs DEF Count
<1> QED BY <1>3, <1>4, <1>5 DEF Count

LEMMA FirstIs ==
  ASSUME NEW S \in SUBSET Nat, S # {}
  PROVE  First(S) \in S
<1>1. \E x \in S : \A y \in S : x <= y
  BY LeastNumber
<1> QED BY <1>1 DEF First

LEMMA LeastIs ==
  ASSUME NEW b, NEW groups \in SUBSET Gid, groups # {}
  PROVE  Least(b, groups) \in groups /\ \A h \in groups : Count(b, Least(b, groups)) <= Count(b, h)
<1> DEFINE T == {Count(b, g) : g \in groups}
           S == {g \in groups : \A h \in groups : Count(b, g) <= Count(b, h)}
<1>1. T \in SUBSET Nat /\ T # {}
  BY CountIs
<1>2. PICK x \in T : \A y \in T : x <= y
  BY <1>1, LeastNumber
<1>3. S # {}
  BY <1>2
<1>4. S \in SUBSET Nat
  BY ShardAssumption
<1>5. Least(b, groups) \in S
  BY <1>3, <1>4, FirstIs DEF Least
<1> QED BY <1>5

LEMMA MostIs ==
  ASSUME NEW b, NEW groups \in SUBSET Gid, groups # {}
  PROVE  Most(b, groups) \in groups /\ \A h \in groups : Count(b, Most(b, groups)) >= Count(b, h)
<1> DEFINE T == {NShards - Count(b, g) : g \in groups}
           S == {g \in groups : \A h \in groups : Count(b, g) >= Count(b, h)}
<1>1. T \in SUBSET Nat /\ T # {}
  BY CountIs, ShardsAre
<1>2. PICK x \in T : \A y \in T : x <= y
  BY <1>1, LeastNumber
<1>3. S # {}
  <2>1. PICK g \in groups : x = NShards - Count(b, g)
    BY <1>2
  <2>2. \A h \in groups : NShards - Count(b, g) <= NShards - Count(b, h)
    BY <1>2, <2>1
  <2>3. \A h \in groups : Count(b, g) >= Count(b, h)
    BY <2>2, CountIs, ShardsAre
  <2> QED BY <2>3
<1>4. S \in SUBSET Nat
  BY ShardAssumption
<1>5. Most(b, groups) \in S
  BY <1>3, <1>4, FirstIs DEF Most
<1> QED BY <1>5

\* After Assign every shard has a group of the configuration.
LEMMA AssignIs ==
  ASSUME NEW shards \in [Shard -> Gid \cup {0}], NEW groups \in SUBSET Gid, groups # {}
  PROVE  Assign(shards, groups) \in [Shard -> groups]
<1> DEFINE S == [Shard -> Gid \cup {0}]
           Next1(b, n) == IF b[n - 1] \in groups THEN b
                          ELSE [b EXCEPT ![n - 1] = Least(b, groups)]
           G == [p \in S \X (1 .. NShards) |-> Next1(p[1], p[2])]
           Is(f) == f = [n \in 0 .. NShards |->
                           IF n = 0 THEN shards ELSE Next1(f[n - 1], n)]
<1>1. \A b \in S, n \in 1 .. NShards : Next1(b, n) \in S
  BY LeastIs
<1>2. G \in [S \X (1 .. NShards) -> S]
  BY <1>1
<1>3. \A b \in S, n \in 1 .. NShards : G[<<b, n>>] = Next1(b, n)
  OBVIOUS
<1> HIDE DEF G, Next1, S
<1>4. \E f \in [0 .. NShards -> S] :
        f[0] = shards /\ \A n \in 1 .. NShards : f[n] = Next1(f[n - 1], n)
  <2>1. shards \in S
    BY DEF S
  <2>2. PICK f \in [0 .. NShards -> S] :
          f[0] = shards /\ \A n \in 1 .. NShards : f[n] = G[<<f[n - 1], n>>]
    <3>1. NShards \in Nat
      BY ShardsAre
    <3>2. StepOn(G, S, NShards)
      BY <1>2 DEF StepOn
    <3>3. Iterated(G, S, NShards, shards)
      BY <2>1, <3>1, <3>2, Iterates
    <3> QED BY <3>3 DEF Iterated
  <2>3. \A n \in 1 .. NShards : n - 1 \in 0 .. NShards
    BY ShardsAre
  <2>4. \A n \in 1 .. NShards : f[n] = Next1(f[n - 1], n)
    BY <1>3, <2>2, <2>3
  <2> QED BY <2>2, <2>4
<1>5. \E f : Is(f)
  <2>1. PICK f \in [0 .. NShards -> S] :
        f[0] = shards /\ \A n \in 1 .. NShards : f[n] = Next1(f[n - 1], n)
    BY <1>4
  <2>2. \A n \in 0 .. NShards : n = 0 \/ n \in 1 .. NShards
    BY ShardsAre
  <2>3. \A n \in 0 .. NShards : f[n] = IF n = 0 THEN shards ELSE Next1(f[n - 1], n)
    BY <2>1, <2>2
  <2>4. f = [n \in 0 .. NShards |-> f[n]]
    OBVIOUS
  <2> QED BY <2>3, <2>4
<1> DEFINE a == CHOOSE f : Is(f)
<1>6. Is(a)
  BY <1>5
<1>7. Assign(shards, groups) = a[NShards]
  BY DEF Assign, Next1
<1> HIDE DEF a
<1>8. a[0] = shards /\ \A n \in Nat : n < NShards => a[n + 1] = Next1(a[n], n + 1)
  <2>1. 0 \in 0 .. NShards
    BY ShardsAre
  <2>2. \A n \in Nat : n < NShards => n + 1 \in 0 .. NShards /\ n + 1 # 0 /\ n + 1 - 1 = n
    BY ShardsAre
  <2>3. \A n \in 0 .. NShards : a[n] = IF n = 0 THEN shards ELSE Next1(a[n - 1], n)
    BY <1>6
  <2>4. ASSUME NEW n \in Nat, n < NShards PROVE a[n + 1] = Next1(a[n], n + 1)
    <3>1. a[n + 1] = Next1(a[n + 1 - 1], n + 1)
      BY <2>2, <2>3, <2>4
    <3> QED BY <2>2, <2>4, <3>1
  <2> QED BY <2>1, <2>3, <2>4
<1> DEFINE T == {n \in 0 .. NShards : a[n] \in S /\ \A i \in Shard : i < n => a[n][i] \in groups}
<1>9. 0 \in T
  BY <1>8, ShardsAre DEF S
<1>10. ASSUME NEW n \in Nat, n < NShards, n \in T PROVE n + 1 \in T
  <2>1. a[n] \in [Shard -> Gid \cup {0}]
    BY <1>10 DEF S
  <2>2. n \in Shard
    BY <1>10, ShardsAre DEF Shard
  <2>3. a[n + 1] = IF a[n][n] \in groups THEN a[n] ELSE [a[n] EXCEPT ![n] = Least(a[n], groups)]
    BY <1>8, <1>10 DEF Next1
  <2>4. Least(a[n], groups) \in groups
    BY LeastIs
  <2>5. a[n + 1] \in [Shard -> Gid \cup {0}] /\ a[n + 1][n] \in groups
        /\ \A i \in Shard : i # n => a[n + 1][i] = a[n][i]
    BY <2>1, <2>2, <2>3, <2>4
  <2>6. \A i \in Shard : i < n + 1 => i = n \/ i < n
    BY ShardsAre
  <2>7. \A i \in Shard : i < n => a[n][i] \in groups
    BY <1>10
  <2>8. n + 1 \in 0 .. NShards
    BY <1>10, ShardsAre
  <2> HIDE DEF T
  <2>9. \A i \in Shard : i < n + 1 => a[n + 1][i] \in groups
    BY <2>5, <2>6, <2>7
  <2> QED BY <2>5, <2>8, <2>9 DEF T, S
<1>11. NShards \in T
  <2> HIDE DEF T
  <2> QED BY <1>9, <1>10, UpTo, ShardsAre, NShards \in 0 .. NShards
<1>12. \A i \in Shard : i < NShards
  BY ShardsAre DEF Shard
<1>13. a[NShards] \in [Shard -> Gid \cup {0}] /\ \A i \in Shard : a[NShards][i] \in groups
  BY <1>11, <1>12 DEF S
<1> QED BY <1>7, <1>13

\* What is true of the counts when the groups are even.
LEMMA EvenIs ==
  ASSUME NEW b, NEW groups \in SUBSET Gid, groups # {}
  PROVE  Even(b, groups) <=> \A g, h \in groups : Count(b, g) <= Count(b, h) + 1
<1> DEFINE m == Most(b, groups)
           l == Least(b, groups)
<1>1. m \in groups /\ \A h \in groups : Count(b, m) >= Count(b, h)
  BY MostIs
<1>2. l \in groups /\ \A h \in groups : Count(b, l) <= Count(b, h)
  BY LeastIs
<1>3. \A g \in groups : Count(b, g) \in Nat
  BY CountIs
<1>4. Even(b, groups) <=> Count(b, m) < Count(b, l) + 2
  BY DEF Even
<1> HIDE DEF m, l
<1> QED BY <1>1, <1>2, <1>3, <1>4

\* A move of Spread: the shard x of the most loaded group goes to the least
\* loaded one.
Spreads(b, c, groups, x) ==
  /\ x \in Shard /\ b[x] = Most(b, groups) /\ ~Even(b, groups)
  /\ c = [b EXCEPT ![x] = Least(b, groups)]

LEMMA SpreadsOne ==
  ASSUME NEW groups \in SUBSET Gid, groups # {}, NEW b \in [Shard -> groups], ~Even(b, groups)
  PROVE  Spreads(b, [b EXCEPT ![First(Has(b, Most(b, groups)))] = Least(b, groups)], groups,
                 First(Has(b, Most(b, groups))))
<1> DEFINE m == Most(b, groups)
           l == Least(b, groups)
<1>1. Count(b, m) \in Nat /\ Count(b, l) \in Nat
  BY CountIs
<1>2. Count(b, m) # 0
  BY <1>1 DEF Even
<1>3. Has(b, m) # {}
  BY <1>2, CountIs DEF Has
<1>4. Has(b, m) \in SUBSET Nat
  BY ShardsAre DEF Has
<1>5. First(Has(b, m)) \in Has(b, m)
  BY <1>3, <1>4, FirstIs
<1> QED BY <1>5 DEF Spreads, Has

\* A group that a shard has been moved to never gets two ahead of another, so
\* that no shard is moved from it: a shard moves at most once.  U is what has
\* not been moved.
Resting(b, groups, U) ==
  \A s \in Shard \ U : \A h \in groups : Count(b, b[s]) <= Count(b, h) + 1

LEMMA SpreadsRest ==
  ASSUME NEW groups \in SUBSET Gid, groups # {}, NEW b \in [Shard -> groups], NEW c, NEW x,
         Spreads(b, c, groups, x), NEW U, Resting(b, groups, U)
  PROVE  x \in U /\ c \in [Shard -> groups] /\ Resting(c, groups, U \ {x})
<1> DEFINE m == Most(b, groups)
           l == Least(b, groups)
<1>1. m \in groups /\ \A h \in groups : Count(b, m) >= Count(b, h)
  BY MostIs
<1>2. l \in groups /\ \A h \in groups : Count(b, l) <= Count(b, h)
  BY LeastIs
<1>3. \A g : Count(b, g) \in Nat /\ Count(c, g) \in Nat
  BY CountIs
<1>4. ~(Count(b, m) < Count(b, l) + 2)
  BY DEF Spreads, Even
<1>5. x \in Shard /\ b[x] = m /\ c = [b EXCEPT ![x] = l]
  BY DEF Spreads
<1> HIDE DEF m, l
<1>6. m # l
  BY <1>3, <1>4
<1>7. Count(c, l) = Count(b, l) + 1 /\ Count(c, m) = Count(b, m) - 1
      /\ \A h : h # l /\ h # m => Count(c, h) = Count(b, h)
  <2>1. MovedTo(b, c, x, l)
    BY <1>5, <1>6 DEF MovedTo
  <2>2. /\ Count(c, l) = Count(b, l) + 1 /\ Count(c, b[x]) = Count(b, b[x]) - 1
        /\ \A h : h # l /\ h # b[x] => Count(c, h) = Count(b, h)
    BY <2>1, MoveCounts
  <2> QED BY <1>5, <2>2
<1>8. x \in U
  <2>1. SUFFICES ASSUME x \in Shard \ U PROVE FALSE
    BY <1>5
  <2>2. Count(b, m) <= Count(b, l) + 1
    BY <1>2, <1>5, <2>1 DEF Resting
  <2> QED BY <1>3, <1>4, <2>2
<1>9. c \in [Shard -> groups]
  BY <1>2, <1>5
<1>10. \A h \in groups : Count(c, h) >= Count(b, l)
  <2>1. SUFFICES ASSUME NEW h \in groups PROVE Count(c, h) >= Count(b, l)
    OBVIOUS
  <2>2. CASE h = l
    BY <1>3, <1>7, <2>2
  <2>3. CASE h = m
    BY <1>3, <1>4, <1>7, <2>3
  <2>4. CASE h # l /\ h # m
    BY <1>2, <1>7, <2>4
  <2> QED BY <2>2, <2>3, <2>4
<1>11. ASSUME NEW s \in Shard \ (U \ {x}), NEW h \in groups
       PROVE  Count(c, c[s]) <= Count(c, h) + 1
  <2>1. CASE c[s] = l
    BY <1>3, <1>7, <1>10, <2>1
  <2>2. CASE c[s] # l
    <3>1. s # x /\ c[s] = b[s] /\ s \in Shard \ U
      BY <1>5, <2>2
    <3>2. Count(b, b[s]) <= Count(b, l) + 1
      BY <1>2, <3>1 DEF Resting
    <3>3. b[s] # m
      BY <1>3, <1>4, <3>2
    <3>4. Count(c, c[s]) = Count(b, b[s])
      BY <1>7, <2>2, <3>1, <3>3
    <3> QED BY <1>3, <1>10, <3>2, <3>4
  <2> QED BY <2>1, <2>2
<1> QED BY <1>8, <1>9, <1>11 DEF Resting

\* NShards moves are enough: Spread returns when the groups are even.
LEMMA SpreadIs ==
  ASSUME NEW groups \in SUBSET Gid, groups # {}, NEW shards \in [Shard -> groups]
  PROVE  Spread(shards, groups) \in [Shard -> groups] /\ Even(Spread(shards, groups), groups)
<1> DEFINE S == [Shard -> groups]
           Next1(b) == IF Even(b, groups) THEN b
                       ELSE [b EXCEPT ![First(Has(b, Most(b, groups)))] = Least(b, groups)]
           G == [p \in S \X (1 .. NShards) |-> Next1(p[1])]
           Is(f) == f = [n \in 0 .. NShards |-> IF n = 0 THEN shards ELSE Next1(f[n - 1])]
<1>1. \A b \in S : Next1(b) \in S
  BY LeastIs
<1>2. StepOn(G, S, NShards)
  BY <1>1 DEF StepOn
<1>3. \A b \in S, n \in 1 .. NShards : G[<<b, n>>] = Next1(b)
  OBVIOUS
<1>13. shards \in S
  OBVIOUS
<1> HIDE DEF G, Next1, S
<1>4. \E f \in [0 .. NShards -> S] :
        f[0] = shards /\ \A n \in 1 .. NShards : f[n] = Next1(f[n - 1])
  <2>2. PICK f \in [0 .. NShards -> S] :
          f[0] = shards /\ \A n \in 1 .. NShards : f[n] = G[<<f[n - 1], n>>]
    <3>1. NShards \in Nat
      BY ShardsAre
    <3>2. Iterated(G, S, NShards, shards)
      BY <1>2, <1>13, <3>1, Iterates
    <3> QED BY <3>2 DEF Iterated
  <2>3. \A n \in 1 .. NShards : n - 1 \in 0 .. NShards
    BY ShardsAre
  <2>4. \A n \in 1 .. NShards : f[n] = Next1(f[n - 1])
    BY <1>3, <2>2, <2>3
  <2> QED BY <2>2, <2>4
<1>5. \E f : Is(f)
  <2>1. PICK f \in [0 .. NShards -> S] :
        f[0] = shards /\ \A n \in 1 .. NShards : f[n] = Next1(f[n - 1])
    BY <1>4
  <2>2. \A n \in 0 .. NShards : n = 0 \/ n \in 1 .. NShards
    BY ShardsAre
  <2>3. \A n \in 0 .. NShards : f[n] = IF n = 0 THEN shards ELSE Next1(f[n - 1])
    BY <2>1, <2>2
  <2>4. f = [n \in 0 .. NShards |-> f[n]]
    OBVIOUS
  <2> QED BY <2>3, <2>4
<1> DEFINE a == CHOOSE f : Is(f)
<1>6. Is(a)
  BY <1>5
<1>7. Spread(shards, groups) = a[NShards]
  BY DEF Spread, Next1
<1> HIDE DEF a
<1>8. a[0] = shards /\ \A n \in Nat : n < NShards => a[n + 1] = Next1(a[n])
  <2>1. 0 \in 0 .. NShards
    BY ShardsAre
  <2>2. \A n \in Nat : n < NShards => n + 1 \in 0 .. NShards /\ n + 1 # 0 /\ n + 1 - 1 = n
    BY ShardsAre
  <2>3. \A n \in 0 .. NShards : a[n] = IF n = 0 THEN shards ELSE Next1(a[n - 1])
    BY <1>6
  <2>4. ASSUME NEW n \in Nat, n < NShards PROVE a[n + 1] = Next1(a[n])
    <3>1. a[n + 1] = Next1(a[n + 1 - 1])
      BY <2>2, <2>3, <2>4
    <3> QED BY <2>2, <2>4, <3>1
  <2> QED BY <2>1, <2>3, <2>4
<1> DEFINE Near(b, n) ==
             \/ Even(b, groups)
             \/ \E U \in SUBSET Shard : Cardinality(U) = NShards - n /\ Resting(b, groups, U)
           T == {n \in 0 .. NShards : a[n] \in S /\ Near(a[n], n)}
<1>9. 0 \in T
  <2>1. Cardinality(Shard) = NShards - 0 /\ 0 \in 0 .. NShards
    BY ShardsAre
  <2>2. Resting(shards, groups, Shard)
    BY DEF Resting
  <2>3. Near(shards, 0)
    BY <2>1, <2>2
  <2> QED BY <1>8, <1>13, <2>1, <2>3
<1>10. ASSUME NEW n \in Nat, n < NShards, n \in T PROVE n + 1 \in T
  <2> DEFINE b == a[n]
             c == a[n + 1]
  <2>1. b \in [Shard -> groups] /\ Near(b, n) /\ c = Next1(b)
    BY <1>8, <1>10 DEF S
  <2>2. n + 1 \in 0 .. NShards
    BY <1>10, ShardsAre
  <2> HIDE DEF b, c
  <2>3. CASE Even(b, groups)
    <3>1. c = b
      BY <2>1, <2>3 DEF Next1
    <3>2. c \in S /\ Near(c, n + 1)
      BY <2>1, <2>3, <3>1 DEF S
    <3> QED BY <2>2, <3>2 DEF c
  <2>4. CASE ~Even(b, groups)
    <3> DEFINE x == First(Has(b, Most(b, groups)))
    <3>1. Spreads(b, c, groups, x)
      BY <2>1, <2>4, SpreadsOne DEF Next1
    <3>2. PICK U \in SUBSET Shard : Cardinality(U) = NShards - n /\ Resting(b, groups, U)
      BY <2>1, <2>4
    <3> HIDE DEF x
    <3>3. x \in U /\ c \in [Shard -> groups] /\ Resting(c, groups, U \ {x})
      BY <2>1, <3>1, <3>2, SpreadsRest
    <3>4. Cardinality(U \ {x}) = Cardinality(U) - 1
      BY <3>2, <3>3, ShardsAre, FS_Subset, FS_RemoveElement
    <3>5. Cardinality(U \ {x}) = NShards - (n + 1)
      BY <3>2, <3>4, ShardsAre
    <3>6. c \in S /\ Near(c, n + 1)
      BY <3>2, <3>3, <3>5 DEF S
    <3> QED BY <2>2, <3>6 DEF c
  <2> QED BY <2>3, <2>4
<1>11. NShards \in T
  <2> HIDE DEF T
  <2> QED BY <1>9, <1>10, UpTo, ShardsAre, NShards \in 0 .. NShards
<1> DEFINE d == a[NShards]
<1>12. d \in [Shard -> groups] /\ Near(d, NShards)
  BY <1>11 DEF S
<1> HIDE DEF d
<1>14. Even(d, groups)
  <2>1. SUFFICES ASSUME NEW U \in SUBSET Shard, Cardinality(U) = NShards - NShards,
                        Resting(d, groups, U)
                 PROVE  Even(d, groups)
    BY <1>12
  <2>2. U = {}
    <3>1. IsFiniteSet(U) /\ Cardinality(U) = 0
      <4>1. NShards - NShards = 0
        BY ShardsAre
      <4>2. IsFiniteSet(U)
        BY ShardsAre, FS_Subset
      <4> QED BY <2>1, <4>1, <4>2
    <3> QED BY <3>1, FS_EmptySet
  <2>3. ASSUME NEW g \in groups, NEW h \in groups PROVE Count(d, g) <= Count(d, h) + 1
    <3>1. CASE Count(d, g) = 0
      BY <3>1, CountIs
    <3>2. CASE Count(d, g) # 0
      <4>1. PICK s \in Shard : d[s] = g
        BY <3>2, CountIs
      <4> QED BY <2>1, <2>2, <4>1 DEF Resting
    <3> QED BY <3>1, <3>2
  <2> QED BY <2>3, EvenIs
<1> QED BY <1>7, <1>12, <1>14 DEF d

\* Whatever joins or leaves, the outcome is a configuration that CheckConfig
\* accepts, while there is a group left.
LEMMA RebalanceIs ==
  ASSUME NEW shards \in [Shard -> Gid \cup {0}], NEW groups \in SUBSET Gid, groups # {}
  PROVE  /\ Rebalance(shards, groups) \in [Shard -> groups]
         /\ \A g, h \in groups :
              Count(Rebalance(shards, groups), g) <= Count(Rebalance(shards, groups), h) + 1
<1>1. Assign(shards, groups) \in [Shard -> groups]
  BY AssignIs
<1>2. Rebalance(shards, groups) = Spread(Assign(shards, groups), groups)
  BY DEF Rebalance
<1>3. Rebalance(shards, groups) \in [Shard -> groups] /\ Even(Rebalance(shards, groups), groups)
  BY <1>1, <1>2, SpreadIs
<1> QED BY <1>3, EvenIs

-----------------------------------------------------------------------------
(* Types.                                                                  *)

Stores == [Key -> Records]
ShardCalls == [op : {"Freeze", "Install", "Delete"}, shard : Shard, num : Nat, state : Stores]
Errs == {"none", "OK", "ErrNoKey", "ErrVersion", "ErrFrozen", "ErrWrongGroup", "ErrStale"}
ShardReplies == [err : Errs, value : Value, version : Nat, state : Stores]
Shards == [highest : Nat, frozen : BOOLEAN, owned : BOOLEAN, store : Stores]
Entries == [from : Controller \cup Client, awaited : BOOLEAN, args : Args \cup ShardCalls]
Phases == {"Freeze", "Install", "Delete"}
Places == {"idle", "recover", "pending", "create", "replace", "shard", "post", "put"} \cup Phases
Ctls == [at : Places, step : {"none", "check", "send", "wait"}, new : Config, shard : Shard,
         old : Gid \cup {0}, state : Stores, ver : Nat]
Clerks == [at : {"idle", "query", "send", "wait"}, args : Args \cup {NoCall.args},
           gid : Gid \cup {0}, resent : BOOLEAN, floor : Nat]
ClerkFits(r) == (r.at # "idle" => r.args \in Args) /\ (r.at = "send" => r.gid \in Gid)
Returned == [args : Args, floor : Nat, err : Errs \cup {"ErrMaybe"}, value : Value, version : Nat]

Types ==
  /\ group \in [Gid -> [Shard -> Shards]]
  /\ log \in [Gid -> Seq(Entries)] /\ \A g \in Gid : Len(log[g]) <= MaxLog
  /\ answer \in [Actor -> ShardReplies]
  /\ pending \in [cfg : Config, ver : Nat] /\ posted \in [cfg : Config, ver : Nat]
  /\ ctl \in [Controller -> Ctls]
  /\ client \in [Client -> Clerks]
  /\ \A c \in Client : ClerkFits(client[c])
  /\ done \in [Client -> Seq(Returned)]
  /\ written \in [Key -> Seq(Value)]

\* A configuration that CheckConfig accepts, with a group in it.
Good(cfg) ==
  /\ cfg \in Config /\ cfg.Groups # {} /\ cfg.Shards \in [Shard -> cfg.Groups]
  /\ \A g, h \in cfg.Groups : Count(cfg.Shards, g) <= Count(cfg.Shards, h) + 1

\* The configurations in the two keys: what is pending is at most one ahead of
\* what is posted.
Keys ==
  /\ Good(Query) /\ Query.Num >= 1
  /\ IF pending.ver = 0 THEN pending.cfg.Num = 0 ELSE Good(pending.cfg) /\ pending.cfg.Num >= 2
  /\ pending.cfg.Num <= Query.Num + 1

\* The state r of a controller: r.new is at most one ahead as well, and is
\* posted only in the place of the configuration that was found to be earlier.
CtlFits(r) ==
  /\ r.at # "idle" => Good(r.new) /\ r.new.Num >= 2 /\ r.new.Num <= Query.Num + 1
  /\ r.step # "none" <=> r.at \in Phases
  /\ r.at \in Phases => r.old \in Gid
  /\ r.at = "put" => r.ver <= posted.ver /\ (r.ver = posted.ver => r.new.Num > Query.Num)

\* The call a controller in state r has out, and where.
CallOf(r) == ShardArgs(r.at, r.shard, r.new.Num, r.state)
TargetOf(r) == IF r.at = "Install" THEN GidServers(r.new, r.shard) ELSE r.old

\* Only the operation that actor c waits for is awaited by it, once and until
\* it is answered.
Answered(c) == answer[c].err # "none"
Waits(c, g, k) == k \in DOMAIN log[g] /\ log[g][k].awaited /\ log[g][k].from = c
InOrder(c) ==
  /\ \A g \in Gid : \A k \in Nat : Waits(c, g, k) =>
       /\ ~Answered(c)
       /\ c \in Controller => /\ ctl[c].step = "wait" /\ g = TargetOf(ctl[c])
                              /\ log[g][k].args = CallOf(ctl[c])
       /\ c \in Client => client[c].at = "wait" /\ log[g][k].args \in Args
  /\ \A g, h \in Gid : \A k, l \in Nat : Waits(c, g, k) /\ Waits(c, h, l) => g = h /\ k = l
  /\ Answered(c) =>
       /\ c \in Controller => ctl[c].step = "wait" /\ answer[c].err \in {"OK", "ErrStale"}
       /\ c \in Client => client[c].at = "wait"

TypeInv ==
  /\ Types /\ Keys
  /\ \A c \in Controller : CtlFits(ctl[c])
  /\ \A c \in Controller \cup Client : InOrder(c)

-----------------------------------------------------------------------------
(* What has a type.                                                        *)

LEMMA Actors == /\ Controller \subseteq Actor /\ Client \subseteq Actor
                /\ \A c : ~(c \in Controller /\ c \in Client)
BY ControllerAssumption, ClientAssumption

LEMMA EmptyTypes ==
  /\ NoRecord \in Records /\ NoStore \in Stores /\ NoAnswer \in ShardReplies
  /\ NoAnswer.err = "none" /\ NoAnswer.state = NoStore
<1>1. NoRecord \in Records
  BY ValueAssumption DEF NoRecord, Records
<1>2. NoStore \in Stores
  BY <1>1 DEF NoStore, Stores
<1> QED BY <1>1, <1>2, ValueAssumption DEF NoAnswer, ShardReplies, Errs

LEMMA FirstTypes ==
  /\ MakeShardConfig \in Config /\ MakeShardConfig.Num = 0
  /\ Good(FirstConfig) /\ FirstConfig.Num = 1 /\ \A s \in Shard : FirstConfig.Shards[s] = Gid1
  /\ NoChange \in Ctls /\ NoChange.at = "idle" /\ NoChange.step = "none"
<1>1. MakeShardConfig \in Config /\ MakeShardConfig.Num = 0
  BY DEF MakeShardConfig, Config
<1>2. Gid1 \in Gid
  BY ShardAssumption DEF Gid1
<1>3. FirstConfig \in Config /\ FirstConfig.Groups = {Gid1}
      /\ FirstConfig.Shards \in [Shard -> {Gid1}] /\ FirstConfig.Num = 1
      /\ \A s \in Shard : FirstConfig.Shards[s] = Gid1
  BY <1>2 DEF FirstConfig, Config
<1>4. Good(FirstConfig)
  BY <1>3, CountIs DEF Good
<1>5. 0 \in Shard
  BY ShardAssumption DEF Shard
<1>6. NoChange \in Ctls /\ NoChange.at = "idle" /\ NoChange.step = "none"
  BY <1>1, <1>5, EmptyTypes DEF NoChange, Ctls, Places
<1> QED BY <1>1, <1>3, <1>4, <1>6

\* What the tester asks for is a configuration one further on.
LEMMA ChangedIs ==
  ASSUME NEW cfg \in Config, NEW groups \in SUBSET Gid, groups # {}
  PROVE  Good(Changed(cfg, groups)) /\ Changed(cfg, groups).Num = cfg.Num + 1
<1>1. cfg.Num \in Nat /\ cfg.Shards \in [Shard -> Gid \cup {0}]
  BY DEF Config
<1> DEFINE new == Rebalance(cfg.Shards, groups)
<1>2. new \in [Shard -> groups]
      /\ \A g, h \in groups : Count(new, g) <= Count(new, h) + 1
  BY <1>1, RebalanceIs
<1>3. Changed(cfg, groups) = [Num |-> cfg.Num + 1, Shards |-> new, Groups |-> groups]
  BY DEF Changed
<1> HIDE DEF new
<1>4. new \in [Shard -> Gid \cup {0}]
  BY <1>2
<1>5. Changed(cfg, groups) \in Config
  BY <1>1, <1>3, <1>4 DEF Config
<1> QED BY <1>1, <1>2, <1>3, <1>5 DEF Good

LEMMA GoodIs ==
  ASSUME NEW cfg, Good(cfg), NEW s \in Shard
  PROVE  GidServers(cfg, s) \in Gid /\ GidServers(cfg, s) \in cfg.Groups /\ GidServers(cfg, s) # 0
<1>1. cfg.Groups \subseteq Gid /\ cfg.Shards[s] \in cfg.Groups
  BY DEF Good, Config
<1> QED BY <1>1, ShardAssumption DEF GidServers

-----------------------------------------------------------------------------
(* Logs, and who waits for what in them.                                   *)

LEMMA LogIs ==
  ASSUME Types, NEW g \in Gid
  PROVE  /\ log[g] \in Seq(Entries) /\ Len(log[g]) \in Nat /\ DOMAIN log[g] = 1 .. Len(log[g])
         /\ \A k \in DOMAIN log[g] : log[g][k] \in Entries
<1>1. log[g] \in Seq(Entries)
  BY DEF Types
<1> QED BY <1>1, LenProperties, ElementOfSeq

\* Actor c waits for nothing.
Quiet(c) == ~Answered(c) /\ \A g \in Gid : \A k \in Nat : ~Waits(c, g, k)

LEMMA QuietIs ==
  ASSUME NEW c, InOrder(c),
         \/ c \in Controller /\ ctl[c].step # "wait"
         \/ c \in Client /\ client[c].at # "wait"
  PROVE  Quiet(c)
BY DEF InOrder, Quiet

LEMMA QuietInOrder ==
  ASSUME NEW c, Quiet(c)
  PROVE  InOrder(c)
BY DEF InOrder, Quiet

\* Actor d sees nothing of a step that changes neither its own state nor what
\* it waits for; off is by how much the operations of a log have moved up.
LEMMA OthersInOrder ==
  ASSUME NEW d, InOrder(d), NEW off \in [Gid -> Nat],
         answer'[d] = answer[d],
         d \in Controller => ctl'[d] = ctl[d],
         d \in Client => client'[d] = client[d],
         \A g \in Gid, k \in Nat : Waits(d, g, k)' =>
           Waits(d, g, k + off[g]) /\ log'[g][k].args = log[g][k + off[g]].args
  PROVE  InOrder(d)'
<1>1. ASSUME NEW g \in Gid, NEW k \in Nat, Waits(d, g, k)'
      PROVE  /\ ~Answered(d)'
             /\ d \in Controller => /\ ctl'[d].step = "wait" /\ g = TargetOf(ctl'[d])
                                    /\ log'[g][k].args = CallOf(ctl'[d])
             /\ d \in Client => client'[d].at = "wait" /\ log'[g][k].args \in Args
  <2>1. k + off[g] \in Nat /\ Waits(d, g, k + off[g])
        /\ log'[g][k].args = log[g][k + off[g]].args
    BY <1>1
  <2> QED BY <2>1 DEF InOrder, Answered
<1>2. ASSUME NEW g \in Gid, NEW h \in Gid, NEW k \in Nat, NEW l \in Nat,
             Waits(d, g, k)', Waits(d, h, l)'
      PROVE  g = h /\ k = l
  <2>1. k + off[g] \in Nat /\ Waits(d, g, k + off[g]) /\ l + off[h] \in Nat
        /\ Waits(d, h, l + off[h]) /\ off[g] \in Nat /\ off[h] \in Nat
    BY <1>2
  <2>2. g = h /\ k + off[g] = l + off[h]
    BY <2>1 DEF InOrder
  <2> QED BY <2>1, <2>2
<1>3. Answered(d)' =>
       /\ d \in Controller => ctl'[d].step = "wait" /\ answer'[d].err \in {"OK", "ErrStale"}
       /\ d \in Client => client'[d].at = "wait"
  BY DEF InOrder, Answered
<1> QED BY <1>1, <1>2, <1>3 DEF InOrder, TargetOf, CallOf

NoOffset == [g \in Gid |-> 0]

\* A step that leaves logs and answers alone.
LEMMA SameOrder ==
  ASSUME NEW c, \A d \in Controller \cup Client : InOrder(d), log' = log, answer' = answer,
         \A d \in Controller : d # c => ctl'[d] = ctl[d],
         \A d \in Client : d # c => client'[d] = client[d],
         c \in Controller \cup Client,
         \/ c \in Controller /\ ctl[c].step # "wait"
         \/ c \in Client /\ client[c].at # "wait"
  PROVE  \A d \in Controller \cup Client : InOrder(d)'
<1>1. ASSUME NEW d \in Controller \cup Client, d # c PROVE InOrder(d)'
  <2>1. \A g \in Gid, k \in Nat : Waits(d, g, k)' =>
          Waits(d, g, k + NoOffset[g]) /\ log'[g][k].args = log[g][k + NoOffset[g]].args
    BY DEF Waits, NoOffset
  <2>2. NoOffset \in [Gid -> Nat]
    BY DEF NoOffset
  <2>3. InOrder(d) /\ answer'[d] = answer[d]
    OBVIOUS
  <2>4. (d \in Controller => ctl'[d] = ctl[d]) /\ (d \in Client => client'[d] = client[d])
    BY <1>1
  <2> QED BY <2>1, <2>2, <2>3, <2>4, OthersInOrder
<1>2. InOrder(c)'
  <2>1. InOrder(c)
    OBVIOUS
  <2>2. Quiet(c)
    BY <2>1, QuietIs
  <2>3. Quiet(c)'
    BY <2>2 DEF Quiet, Answered, Waits
  <2> QED BY <2>3 DEF InOrder, Quiet
<1> QED BY <1>1, <1>2

\* The log after a call has reached it.
SentTo(c, g, a) ==
  /\ \A h \in Gid, k \in Nat :
       k \in DOMAIN log'[h] <=> k \in DOMAIN log[h] \/ (h = g /\ k = Len(log[g]) + 1)
  /\ \A h \in Gid : \A k \in DOMAIN log[h] : log'[h][k] = log[h][k]
  /\ log'[g][Len(log[g]) + 1] = [from |-> c, awaited |-> TRUE, args |-> a]

LEMMA SendTypes ==
  ASSUME Types, NEW c \in Controller \cup Client, NEW g \in Gid, NEW a \in Args \cup ShardCalls,
         Send(c, g, a)
  PROVE  /\ log' \in [Gid -> Seq(Entries)] /\ \A h \in Gid : Len(log'[h]) <= MaxLog
         /\ SentTo(c, g, a)
<1> DEFINE e == [from |-> c, awaited |-> TRUE, args |-> a]
<1>1. e \in Entries
  BY DEF Entries
<1>2. log' = [log EXCEPT ![g] = Append(log[g], e)] /\ Len(log[g]) < MaxLog
  BY DEF Send
<1> HIDE DEF e
<1>3. log \in [Gid -> Seq(Entries)] /\ \A h \in Gid : Len(log[h]) <= MaxLog
  BY DEF Types
<1>4. /\ Append(log[g], e) \in Seq(Entries) /\ Len(Append(log[g], e)) = Len(log[g]) + 1
      /\ \A k \in 1 .. Len(log[g]) : Append(log[g], e)[k] = log[g][k]
      /\ Append(log[g], e)[Len(log[g]) + 1] = e
  BY <1>1, <1>3, AppendProperties
<1>5. DOMAIN Append(log[g], e) = 1 .. Len(log[g]) + 1
  BY <1>4, LenProperties
<1>6. \A h \in Gid : log'[h] = IF h = g THEN Append(log[g], e) ELSE log[h]
  BY <1>2, <1>3
<1>7. log' \in [Gid -> Seq(Entries)]
  BY <1>2, <1>3, <1>4
<1>8. \A h \in Gid : Len(log'[h]) <= MaxLog
  BY <1>2, <1>3, <1>4, <1>6, LogIs, GroupAssumption
<1>9. ASSUME NEW h \in Gid, NEW k \in Nat
      PROVE  k \in DOMAIN log'[h] <=> k \in DOMAIN log[h] \/ (h = g /\ k = Len(log[g]) + 1)
  <2>1. CASE h = g
    <3>1. DOMAIN log[g] = 1 .. Len(log[g]) /\ Len(log[g]) \in Nat
      BY LogIs
    <3>2. DOMAIN log'[h] = 1 .. Len(log[g]) + 1
      BY <1>5, <1>6, <2>1
    <3>3. k \in 1 .. Len(log[g]) + 1 <=> k \in 1 .. Len(log[g]) \/ k = Len(log[g]) + 1
      BY <3>1
    <3> QED BY <2>1, <3>1, <3>2, <3>3
  <2>2. CASE h # g
    BY <1>6, <2>2
  <2> QED BY <2>1, <2>2
<1>10. ASSUME NEW h \in Gid, NEW k \in DOMAIN log[h] PROVE log'[h][k] = log[h][k]
  BY <1>4, <1>6, LogIs
<1>11. log'[g][Len(log[g]) + 1] = e
  BY <1>4, <1>6
<1> QED BY <1>7, <1>8, <1>9, <1>10, <1>11 DEF SentTo, e

LEMMA SendOrder ==
  ASSUME Types, NEW c \in Controller \cup Client, NEW g \in Gid, NEW a,
         \A d \in Controller \cup Client : InOrder(d), SentTo(c, g, a), answer' = answer,
         Quiet(c),
         \A d \in Controller : d # c => ctl'[d] = ctl[d],
         \A d \in Client : d # c => client'[d] = client[d],
         c \in Controller => /\ ctl'[c].step = "wait" /\ g = TargetOf(ctl'[c])
                             /\ a = CallOf(ctl'[c]),
         c \in Client => client'[c].at = "wait" /\ a \in Args
  PROVE  \A d \in Controller \cup Client : InOrder(d)'
<1>1. ASSUME NEW d \in Controller \cup Client, d # c PROVE InOrder(d)'
  <2>1. ASSUME NEW h \in Gid, NEW k \in Nat, Waits(d, h, k)'
        PROVE  Waits(d, h, k + NoOffset[h]) /\ log'[h][k].args = log[h][k + NoOffset[h]].args
    <3>1. k + NoOffset[h] = k
      BY DEF NoOffset
    <3>2. k \in DOMAIN log'[h] /\ log'[h][k].from = d /\ log'[h][k].awaited
      BY <2>1 DEF Waits
    <3>3. ~(h = g /\ k = Len(log[g]) + 1)
      BY <1>1, <3>2 DEF SentTo
    <3>4. k \in DOMAIN log[h] /\ log'[h][k] = log[h][k]
      BY <3>2, <3>3 DEF SentTo
    <3> QED BY <3>1, <3>2, <3>4 DEF Waits
  <2>2. NoOffset \in [Gid -> Nat]
    BY DEF NoOffset
  <2>3. InOrder(d) /\ answer'[d] = answer[d]
    OBVIOUS
  <2>4. (d \in Controller => ctl'[d] = ctl[d]) /\ (d \in Client => client'[d] = client[d])
    BY <1>1
  <2> QED BY <2>1, <2>2, <2>3, <2>4, OthersInOrder
<1>2. ASSUME NEW h \in Gid, NEW k \in Nat, Waits(c, h, k)'
      PROVE  h = g /\ k = Len(log[g]) + 1 /\ log'[h][k].args = a
  <2>1. k \in DOMAIN log'[h] /\ log'[h][k].from = c /\ log'[h][k].awaited
    BY <1>2 DEF Waits
  <2>2. ASSUME k \in DOMAIN log[h] PROVE FALSE
    <3>1. log'[h][k] = log[h][k]
      BY <2>2 DEF SentTo
    <3>2. Waits(c, h, k)
      BY <2>1, <2>2, <3>1 DEF Waits
    <3> QED BY <3>2 DEF Quiet
  <2> QED BY <2>1, <2>2 DEF SentTo
<1>3. ~Answered(c)'
  BY DEF Quiet, Answered
<1>4. InOrder(c)'
  BY <1>2, <1>3 DEF InOrder, TargetOf, CallOf
<1> QED BY <1>1, <1>4

\* The log after actor c has given its call up, or has died.
Gave(c) ==
  log' = [g \in Gid |-> [k \in DOMAIN log[g] |->
            [log[g][k] EXCEPT !.awaited = log[g][k].awaited /\ log[g][k].from # c]]]

LEMMA GiveTypes ==
  ASSUME Types, NEW c, Gave(c)
  PROVE  /\ log' \in [Gid -> Seq(Entries)] /\ \A h \in Gid : Len(log'[h]) <= MaxLog
         /\ \A h \in Gid : DOMAIN log'[h] = DOMAIN log[h]
         /\ \A h \in Gid : \A k \in DOMAIN log[h] :
              /\ log'[h][k].args = log[h][k].args /\ log'[h][k].from = log[h][k].from
              /\ log'[h][k].awaited <=> log[h][k].awaited /\ log[h][k].from # c
<1>1. ASSUME NEW h \in Gid
      PROVE  /\ log'[h] \in Seq(Entries) /\ Len(log'[h]) = Len(log[h])
             /\ DOMAIN log'[h] = DOMAIN log[h]
             /\ \A k \in DOMAIN log[h] :
                  /\ log'[h][k].args = log[h][k].args /\ log'[h][k].from = log[h][k].from
                  /\ log'[h][k].awaited <=> log[h][k].awaited /\ log[h][k].from # c
  <2> DEFINE e(k) == [log[h][k] EXCEPT !.awaited = log[h][k].awaited /\ log[h][k].from # c]
  <2>1. DOMAIN log[h] = 1 .. Len(log[h]) /\ Len(log[h]) \in Nat
        /\ \A k \in DOMAIN log[h] : log[h][k] \in Entries
    BY LogIs
  <2>2. \A k \in DOMAIN log[h] : e(k) \in Entries /\ e(k).args = log[h][k].args
          /\ e(k).from = log[h][k].from /\ e(k).awaited = (log[h][k].awaited /\ log[h][k].from # c)
    BY <2>1 DEF Entries
  <2> HIDE DEF e
  <2>3. log'[h] = [k \in 1 .. Len(log[h]) |-> e(k)]
    BY <2>1 DEF Gave, e
  <2>4. log'[h] \in [1 .. Len(log[h]) -> Entries]
    BY <2>1, <2>2, <2>3
  <2>5. log'[h] \in Seq(Entries)
    BY <2>1, <2>4, SeqDef
  <2>6. Len(log'[h]) = Len(log[h]) /\ DOMAIN log'[h] = DOMAIN log[h]
    BY <2>1, <2>4, <2>5, LenProperties
  <2>7. \A k \in DOMAIN log[h] : log'[h][k] = e(k)
    BY <2>1, <2>3
  <2> QED BY <2>2, <2>5, <2>6, <2>7
<1>2. DOMAIN log' = Gid
  BY DEF Gave
<1>3. log' \in [Gid -> Seq(Entries)]
  <2>1. log' = [g \in Gid |-> log'[g]]
    BY DEF Gave
  <2> QED BY <1>1, <2>1
<1> QED BY <1>1, <1>3 DEF Types

\* After that c waits for nothing, and the others for what they waited for.
LEMMA GiveOrder ==
  ASSUME Types, NEW c \in Controller \cup Client, Gave(c),
         \A d \in Controller \cup Client : InOrder(d),
         answer'[c].err = "none",
         \A d \in Controller \cup Client : d # c => answer'[d] = answer[d],
         \A d \in Controller : d # c => ctl'[d] = ctl[d],
         \A d \in Client : d # c => client'[d] = client[d]
  PROVE  \A d \in Controller \cup Client : InOrder(d)'
<1>1. \A d : \A h \in Gid, k \in Nat : Waits(d, h, k)' =>
        Waits(d, h, k) /\ d # c /\ log'[h][k].args = log[h][k].args
  BY GiveTypes DEF Waits
<1>2. ASSUME NEW d \in Controller \cup Client, d # c PROVE InOrder(d)'
  <2>1. \A g \in Gid, k \in Nat : Waits(d, g, k)' =>
          Waits(d, g, k + NoOffset[g]) /\ log'[g][k].args = log[g][k + NoOffset[g]].args
    BY <1>1 DEF NoOffset
  <2>2. NoOffset \in [Gid -> Nat]
    BY DEF NoOffset
  <2>3. InOrder(d) /\ answer'[d] = answer[d]
    BY <1>2
  <2>4. (d \in Controller => ctl'[d] = ctl[d]) /\ (d \in Client => client'[d] = client[d])
    BY <1>2
  <2> QED BY <2>1, <2>2, <2>3, <2>4, OthersInOrder
<1>3. InOrder(c)'
  BY <1>1 DEF InOrder, Answered
<1> QED BY <1>2, <1>3

\* Actor c takes its reply: it waited for nothing else.
LEMMA TakeOrder ==
  ASSUME Types, NEW c \in Controller \cup Client, Take(c),
         \A d \in Controller \cup Client : InOrder(d),
         \A d \in Controller : d # c => ctl'[d] = ctl[d],
         \A d \in Client : d # c => client'[d] = client[d]
  PROVE  /\ answer' \in [Actor -> ShardReplies] /\ answer'[c] = NoAnswer
         /\ \A d \in Actor : d # c => answer'[d] = answer[d]
         /\ \A d \in Controller \cup Client : InOrder(d)'
<1>0. c \in Actor /\ Controller \cup Client \subseteq Actor
  BY Actors
<1>1. answer \in [Actor -> ShardReplies]
  BY DEF Types
<1>2. /\ answer' \in [Actor -> ShardReplies] /\ answer'[c] = NoAnswer
      /\ \A d \in Actor : d # c => answer'[d] = answer[d]
  BY <1>0, <1>1, EmptyTypes DEF Take
<1>3. log' = log /\ Answered(c)
  BY DEF Take, Answered
<1>4. ASSUME NEW d \in Controller \cup Client, d # c PROVE InOrder(d)'
  <2>1. \A g \in Gid, k \in Nat : Waits(d, g, k)' =>
          Waits(d, g, k + NoOffset[g]) /\ log'[g][k].args = log[g][k + NoOffset[g]].args
    BY <1>3 DEF NoOffset, Waits
  <2>2. NoOffset \in [Gid -> Nat]
    BY DEF NoOffset
  <2>3. InOrder(d) /\ answer'[d] = answer[d]
    BY <1>0, <1>2, <1>4
  <2>4. (d \in Controller => ctl'[d] = ctl[d]) /\ (d \in Client => client'[d] = client[d])
    BY <1>4
  <2> QED BY <2>1, <2>2, <2>3, <2>4, OthersInOrder
<1>5. InOrder(c)'
  <2>1. \A g \in Gid, k \in Nat : ~Waits(c, g, k)
    BY <1>3 DEF InOrder
  <2>2. \A g \in Gid, k \in Nat : ~Waits(c, g, k)'
    BY <1>3, <2>1 DEF Waits
  <2>3. ~Answered(c)'
    BY <1>2, EmptyTypes DEF Answered
  <2> QED BY <2>2, <2>3 DEF InOrder
<1> QED BY <1>2, <1>4, <1>5

-----------------------------------------------------------------------------
(* What DoOp of a group does.                                              *)

\* A Get or a Put: only a Put that matches changes the map.
LEMMA DoOpIs ==
  ASSUME NEW store \in Stores, NEW a \in Args
  PROVE  LET d == DoOp(store, a)
             matches == a.op = "Put" /\ a.version = store[a.key].version IN
         /\ d.store = IF matches
                      THEN [store EXCEPT ![a.key] = [value |-> a.value, version |-> store[a.key].version + 1]]
                      ELSE store
         /\ d.store \in Stores
         /\ d.reply.err \in Errs \ {"none"} /\ d.reply.value \in Value /\ d.reply.version \in Nat
         /\ a.op = "Put" => (d.reply.err = "OK" <=> matches)
<1> DEFINE record == store[a.key]
           d == DoOp(store, a)
<1>1. a.key \in Key /\ a.value \in Value /\ a.version \in Nat /\ a.op \in {"Get", "Put"}
  BY DEF Args
<1>2. record \in Records /\ record.version \in Nat /\ record.value \in Value
  BY <1>1 DEF Stores, Records
<1>3. CASE a.op = "Get"
  <2>1. d = [store |-> store,
             reply |-> [err |-> IF record.version = 0 THEN "ErrNoKey" ELSE "OK",
                        value |-> record.value, version |-> record.version]]
    BY <1>3 DEF DoOp
  <2> QED BY <1>2, <1>3, <2>1 DEF Errs
<1>4. CASE a.op = "Put" /\ a.version = record.version
  <2> DEFINE new == [value |-> a.value, version |-> record.version + 1]
  <2>1. d = [store |-> [store EXCEPT ![a.key] = new], reply |-> NoReply]
    BY <1>4 DEF DoOp, SameVersion
  <2>2. new \in Records
    BY <1>1, <1>2 DEF Records
  <2>3. d.store = [store EXCEPT ![a.key] = new] /\ d.reply = NoReply
    BY <2>1
  <2> HIDE DEF d
  <2>4. d.store \in Stores
    BY <2>2, <2>3 DEF Stores
  <2>5. d.reply.err = "OK" /\ d.reply.value = Empty /\ d.reply.version = 0
    BY <2>3 DEF NoReply
  <2> QED BY <1>4, <2>3, <2>4, <2>5, ValueAssumption DEF Errs, d
<1>5. CASE a.op = "Put" /\ ~(a.version = record.version)
  <2>1. d = [store |-> store,
             reply |-> [NoReply EXCEPT !.err =
                          IF record.version = 0 THEN "ErrNoKey" ELSE "ErrVersion"]]
    BY <1>5 DEF DoOp, SameVersion
  <2>2. /\ d.store = store
        /\ d.reply.err = IF record.version = 0 THEN "ErrNoKey" ELSE "ErrVersion"
        /\ d.reply.value = Empty /\ d.reply.version = 0
    BY <2>1 DEF NoReply
  <2> HIDE DEF d
  <2> QED BY <1>5, <2>2, ValueAssumption DEF Errs, d
<1> QED BY <1>1, <1>3, <1>4, <1>5

\* A Get or a Put reaches the map only where the shard is served.
LEMMA AccessIs ==
  ASSUME NEW sh \in Shards, NEW a \in Args
  PROVE  LET e == ShardDoOp(sh, a)
             d == DoOp(sh.store, a) IN
         /\ e.shard \in Shards /\ e.reply \in ShardReplies /\ e.reply.err # "none"
         /\ e.shard.highest = sh.highest /\ e.shard.frozen = sh.frozen /\ e.shard.owned = sh.owned
         /\ IF sh.owned /\ ~sh.frozen
            THEN /\ e.shard.store = d.store
                 /\ e.reply.err = d.reply.err /\ e.reply.value = d.reply.value
                 /\ e.reply.version = d.reply.version
            ELSE e.shard = sh /\ e.reply.err \in {"ErrFrozen", "ErrWrongGroup"}
<1> DEFINE e == ShardDoOp(sh, a)
           d == DoOp(sh.store, a)
<1>1. e = Access(sh, a)
  BY DEF ShardDoOp, Args
<1>2. CASE sh.frozen
  <2>1. e = Gives(sh, Reply("ErrFrozen"))
    BY <1>1, <1>2 DEF Access, Closed
  <2>2. Reply("ErrFrozen") \in ShardReplies /\ Reply("ErrFrozen").err = "ErrFrozen"
    BY EmptyTypes DEF Reply, ShardReplies, Errs
  <2>3. e.shard = sh /\ e.reply = Reply("ErrFrozen")
    BY <2>1 DEF Gives
  <2> HIDE DEF e
  <2> QED BY <1>2, <2>2, <2>3 DEF e
<1>3. CASE ~sh.frozen /\ ~sh.owned
  <2>1. e = Gives(sh, Reply("ErrWrongGroup"))
    BY <1>1, <1>3 DEF Access, Closed
  <2> QED BY <1>3, <2>1, EmptyTypes DEF Gives, Reply, ShardReplies, Errs
<1>4. CASE ~sh.frozen /\ sh.owned
  <2> DEFINE r == [Reply(d.reply.err) EXCEPT !.value = d.reply.value, !.version = d.reply.version]
             t == [sh EXCEPT !.store = d.store]
  <2>1. e = Gives(t, r)
    BY <1>1, <1>4 DEF Access, Closed
  <2>2. sh.store \in Stores
    BY DEF Shards
  <2>3. d.store \in Stores /\ d.reply.err \in Errs \ {"none"} /\ d.reply.value \in Value
        /\ d.reply.version \in Nat
    BY <2>2, DoOpIs
  <2> HIDE DEF d
  <2>4. Reply(d.reply.err) \in ShardReplies /\ Reply(d.reply.err).err = d.reply.err
    BY <2>3, EmptyTypes DEF Reply, ShardReplies
  <2>5. r \in ShardReplies /\ r.err = d.reply.err /\ r.value = d.reply.value
        /\ r.version = d.reply.version
    BY <2>3, <2>4 DEF ShardReplies
  <2>6. t \in Shards /\ t.highest = sh.highest /\ t.frozen = sh.frozen /\ t.owned = sh.owned
        /\ t.store = d.store
    BY <2>3 DEF Shards
  <2> HIDE DEF r, t
  <2>7. e.shard = t /\ e.reply = r
    BY <2>1 DEF Gives
  <2> HIDE DEF e
  <2> QED BY <1>4, <2>3, <2>5, <2>6, <2>7 DEF e, d
<1> QED BY <1>2, <1>3, <1>4 DEF Shards

\* A move of a shard: it is stale, or has been made, or is made.
LEMMA MoveIs ==
  ASSUME NEW sh \in Shards, NEW a \in ShardCalls
  PROVE  LET e == ShardDoOp(sh, a)
             sent == a.num = sh.highest /\ (sh.owned <=> a.op = "Install") IN
         /\ e.shard \in Shards /\ e.reply \in ShardReplies
         /\ \/ /\ e.shard = sh /\ e.reply.err = "ErrStale"
               /\ a.num < sh.highest \/ (a.op = "Freeze" /\ ~sh.owned /\ a.num > sh.highest)
            \/ e.shard = sh /\ e.reply.err = "OK" /\ sent
            \/ /\ e.reply.err = "OK" /\ a.num >= sh.highest /\ ~sent
               /\ e.shard.highest = a.num
               /\ a.op = "Freeze" => /\ sh.owned /\ e.shard.owned /\ e.shard.frozen
                                     /\ e.shard.store = sh.store /\ e.reply.state = sh.store
               /\ a.op = "Install" => /\ e.shard.owned /\ ~e.shard.frozen
                                      /\ e.shard.store = Decoded(sh.store, a.state)
               /\ a.op = "Delete" => ~e.shard.owned /\ e.shard.store = NoStore
<1> DEFINE e == ShardDoOp(sh, a)
<1>1. a.op \in {"Freeze", "Install", "Delete"} /\ a.num \in Nat /\ a.state \in Stores
  BY DEF ShardCalls
<1>2. sh.highest \in Nat /\ sh.frozen \in BOOLEAN /\ sh.owned \in BOOLEAN /\ sh.store \in Stores
  BY DEF Shards
<1>3. ASSUME NEW err \in {"OK", "ErrStale"}
      PROVE  Reply(err) \in ShardReplies /\ Reply(err).err = err
  BY EmptyTypes DEF Reply, ShardReplies, Errs
<1>4. ASSUME NEW store \in Stores
      PROVE  LET r == [Reply("OK") EXCEPT !.state = store] IN
             r \in ShardReplies /\ r.err = "OK" /\ r.state = store
  BY <1>3 DEF ShardReplies
<1>5. CASE a.op = "Freeze"
  <2>1. e = FreezeShard(sh, a)
    BY <1>5 DEF ShardDoOp
  <2>2. CASE Stale(sh, a)
    <3>1. e = Gives(sh, Reply("ErrStale"))
      BY <2>1, <2>2 DEF FreezeShard
    <3> QED BY <1>3, <2>2, <3>1 DEF Gives, Stale
  <2>3. CASE ~Stale(sh, a) /\ GivenAway(sh, a)
    <3>1. e = Gives(sh, Reply("OK"))
      BY <2>1, <2>3 DEF FreezeShard
    <3> QED BY <1>3, <1>5, <2>3, <3>1 DEF Gives, GivenAway
  <2>4. CASE ~Stale(sh, a) /\ ~GivenAway(sh, a) /\ ~sh.owned
    <3>1. e = Gives(sh, Reply("ErrStale"))
      BY <2>1, <2>4 DEF FreezeShard
    <3>2. a.num > sh.highest
      BY <1>1, <1>2, <2>4 DEF Stale, GivenAway
    <3> QED BY <1>3, <1>5, <2>4, <3>1, <3>2 DEF Gives
  <2>5. CASE ~Stale(sh, a) /\ ~GivenAway(sh, a) /\ sh.owned
    <3> DEFINE t == [sh EXCEPT !.highest = a.num, !.frozen = TRUE]
               r == [Reply("OK") EXCEPT !.state = sh.store]
    <3>1. e = Gives(t, r)
      BY <2>1, <2>5 DEF FreezeShard
    <3>2. t \in Shards /\ t.highest = a.num /\ t.frozen /\ t.owned = sh.owned
          /\ t.store = sh.store
      BY <1>1 DEF Shards
    <3>3. r \in ShardReplies /\ r.err = "OK" /\ r.state = sh.store
      BY <1>2, <1>4
    <3> HIDE DEF t, r
    <3>4. e.shard = t /\ e.reply = r
      BY <3>1 DEF Gives
    <3>5. a.num >= sh.highest
      BY <1>1, <1>2, <2>5 DEF Stale
    <3> HIDE DEF e
    <3> QED BY <1>5, <2>5, <3>2, <3>3, <3>4, <3>5 DEF e
  <2> QED BY <2>2, <2>3, <2>4, <2>5
<1>6. CASE a.op = "Install"
  <2>1. e = InstallShard(sh, a)
    BY <1>6 DEF ShardDoOp
  <2>2. CASE Stale(sh, a)
    <3>1. e = Gives(sh, Reply("ErrStale"))
      BY <2>1, <2>2 DEF InstallShard
    <3> QED BY <1>3, <2>2, <3>1 DEF Gives, Stale
  <2>3. CASE ~Stale(sh, a) /\ Installed(sh, a)
    <3>1. e = Gives(sh, Reply("OK"))
      BY <2>1, <2>3 DEF InstallShard
    <3> QED BY <1>3, <1>6, <2>3, <3>1 DEF Gives, Installed
  <2>4. CASE ~Stale(sh, a) /\ ~Installed(sh, a)
    <3> DEFINE t == [highest |-> a.num, frozen |-> FALSE, owned |-> TRUE,
                     store |-> Decoded(sh.store, a.state)]
    <3>1. e = Gives(t, Reply("OK"))
      BY <2>1, <2>4 DEF InstallShard
    <3>2. Decoded(sh.store, a.state) \in Stores
      BY <1>1, <1>2 DEF Decoded, Stores
    <3>3. t \in Shards /\ t.highest = a.num /\ ~t.frozen /\ t.owned
          /\ t.store = Decoded(sh.store, a.state)
      BY <1>1, <3>2 DEF Shards
    <3> HIDE DEF t
    <3>4. e.shard = t /\ e.reply = Reply("OK")
      BY <3>1 DEF Gives
    <3>5. a.num >= sh.highest /\ ~(a.num = sh.highest /\ sh.owned)
      BY <1>1, <1>2, <2>4 DEF Stale, Installed
    <3> HIDE DEF e
    <3> QED BY <1>3, <1>6, <3>3, <3>4, <3>5 DEF e
  <2> QED BY <2>2, <2>3, <2>4
<1>7. CASE a.op = "Delete"
  <2>1. e = DeleteShard(sh, a)
    BY <1>7 DEF ShardDoOp
  <2>2. CASE Stale(sh, a)
    <3>1. e = Gives(sh, Reply("ErrStale"))
      BY <2>1, <2>2 DEF DeleteShard
    <3> QED BY <1>3, <2>2, <3>1 DEF Gives, Stale
  <2>3. CASE ~Stale(sh, a) /\ GivenAway(sh, a)
    <3>1. e = Gives(sh, Reply("OK"))
      BY <2>1, <2>3 DEF DeleteShard
    <3> QED BY <1>3, <1>7, <2>3, <3>1 DEF Gives, GivenAway
  <2>4. CASE ~Stale(sh, a) /\ ~GivenAway(sh, a)
    <3> DEFINE t == [sh EXCEPT !.highest = a.num, !.owned = FALSE, !.store = NoStore]
    <3>1. e = Gives(t, Reply("OK"))
      BY <2>1, <2>4 DEF DeleteShard
    <3>2. t \in Shards /\ t.highest = a.num /\ ~t.owned /\ t.store = NoStore
      BY <1>1, EmptyTypes DEF Shards
    <3> HIDE DEF t
    <3>3. e.shard = t /\ e.reply = Reply("OK")
      BY <3>1 DEF Gives
    <3>4. a.num >= sh.highest /\ ~(a.num = sh.highest /\ ~sh.owned)
      BY <1>1, <1>2, <2>4 DEF Stale, GivenAway
    <3> HIDE DEF e
    <3> QED BY <1>3, <1>7, <3>2, <3>3, <3>4 DEF e
  <2> QED BY <2>2, <2>3, <2>4
<1> QED BY <1>1, <1>5, <1>6, <1>7

\* What a controller calls, and whom.
LEMMA CallIs ==
  ASSUME NEW r \in Ctls, CtlFits(r), r.at \in Phases
  PROVE  /\ CallOf(r) \in ShardCalls /\ TargetOf(r) \in Gid
         /\ CallOf(r).op = r.at /\ CallOf(r).shard = r.shard /\ CallOf(r).num = r.new.Num
         /\ CallOf(r).state = r.state
<1>1. r.shard \in Shard /\ r.new \in Config /\ r.state \in Stores /\ r.new.Num \in Nat
  BY DEF Ctls, Config
<1>2. CallOf(r) \in ShardCalls
  BY <1>1 DEF CallOf, ShardArgs, ShardCalls, Phases
<1>3. Good(r.new) /\ r.old \in Gid
  BY DEF CtlFits, Phases
<1>4. TargetOf(r) \in Gid
  BY <1>1, <1>3, GoodIs DEF TargetOf
<1> QED BY <1>2, <1>4 DEF CallOf, ShardArgs

LEMMA OpIs ==
  ASSUME NEW a \in Args \cup ShardCalls
  PROVE  /\ ShardOf(a) \in Shard
         /\ a \in Args => a.op \in {"Get", "Put"} /\ a.key \in Key /\ ShardOf(a) = Key2Shard[a.key]
         /\ a \in ShardCalls => a.op \in Phases /\ a.op # "Put" /\ ShardOf(a) = a.shard
BY GroupAssumption DEF Args, ShardCalls, ShardOf, Phases

-----------------------------------------------------------------------------
(* The execution of an operation.                                          *)

\* Group g executes the k-th operation of its log.
Executed(g, k, e, s) ==
  /\ e = log[g][k] /\ e \in Entries /\ s = ShardOf(e.args) /\ s \in Shard
  /\ group' \in [Gid -> [Shard -> Shards]]
  /\ group'[g][s] = ShardDoOp(group[g][s], e.args).shard
  /\ \A h \in Gid, t \in Shard : h # g \/ t # s => group'[h][t] = group[h][t]
  /\ answer' = IF e.awaited
               THEN [answer EXCEPT ![e.from] = ShardDoOp(group[g][s], e.args).reply] ELSE answer

\* By how much the operations of each log move up.
Off(g, k) == [h \in Gid |-> IF h = g THEN k ELSE 0]

LEMMA ExecutionTypes ==
  ASSUME Types, NEW g \in Gid, NEW k \in DOMAIN log[g], Execution(g, k)
  PROVE  /\ \E e, s : Executed(g, k, e, s)
         /\ log' \in [Gid -> Seq(Entries)] /\ \A h \in Gid : Len(log'[h]) <= MaxLog
         /\ answer' \in [Actor -> ShardReplies] /\ written' \in [Key -> Seq(Value)]
         /\ Off(g, k) \in [Gid -> Nat]
         /\ \A h \in Gid, j \in Nat : j \in DOMAIN log'[h] =>
              j + Off(g, k)[h] \in DOMAIN log[h] /\ log'[h][j] = log[h][j + Off(g, k)[h]]
<1> DEFINE e == log[g][k]
           s == ShardOf(e.args)
           x == ShardDoOp(group[g][s], e.args)
<1>0. k \in 1 .. Len(log[g]) /\ Len(log[g]) \in Nat /\ log[g] \in Seq(Entries)
      /\ DOMAIN log[g] = 1 .. Len(log[g])
  BY LogIs
<1>1. e \in Entries /\ e.args \in Args \cup ShardCalls /\ e.from \in Actor
  <2>1. e \in Entries
    BY LogIs
  <2> HIDE DEF e
  <2> QED BY <2>1, Actors DEF Entries
<1>2. s \in Shard
  BY <1>1, OpIs
<1>3. group \in [Gid -> [Shard -> Shards]] /\ answer \in [Actor -> ShardReplies]
      /\ log \in [Gid -> Seq(Entries)] /\ written \in [Key -> Seq(Value)]
      /\ \A h \in Gid : Len(log[h]) <= MaxLog
  BY DEF Types
<1>4. group[g][s] \in Shards
  BY <1>2, <1>3
<1>5. x.shard \in Shards /\ x.reply \in ShardReplies
  BY <1>1, <1>4, AccessIs, MoveIs
<1>6. /\ group' = [group EXCEPT ![g][s] = x.shard]
      /\ log' = [log EXCEPT ![g] = SubSeq(log[g], k + 1, Len(log[g]))]
      /\ answer' = IF e.awaited THEN [answer EXCEPT ![e.from] = x.reply] ELSE answer
      /\ written' = IF e.args.op = "Put" /\ x.reply.err = "OK"
                    THEN [written EXCEPT ![e.args.key] = Append(written[e.args.key], e.args.value)]
                    ELSE written
  BY DEF Execution, ExecuteShardOp, Effect
<1> HIDE DEF e, s, x
<1>7. group' \in [Gid -> [Shard -> Shards]] /\ group'[g][s] = x.shard
      /\ \A h \in Gid, t \in Shard : h # g \/ t # s => group'[h][t] = group[h][t]
  BY <1>2, <1>3, <1>5, <1>6
<1>8. Executed(g, k, e, s)
  BY <1>1, <1>2, <1>6, <1>7 DEF Executed, e, s, x
<1> DEFINE l == SubSeq(log[g], k + 1, Len(log[g]))
<1>9. /\ l \in Seq(Entries) /\ Len(l) = Len(log[g]) - k
      /\ \A j \in 1 .. Len(log[g]) - k : l[j] = log[g][j + k]
  <2>1. \A i \in k + 1 .. Len(log[g]) : log[g][i] \in Entries
    BY <1>0, ElementOfSeq
  <2>2. /\ l \in Seq(Entries)
        /\ Len(l) = IF k + 1 <= Len(log[g]) THEN Len(log[g]) - (k + 1) + 1 ELSE 0
        /\ \A j \in 1 .. Len(log[g]) - (k + 1) + 1 : l[j] = log[g][k + 1 + j - 1]
    BY <1>0, <2>1, SubSeqProperties
  <2>3. Len(l) = Len(log[g]) - k /\ Len(log[g]) - (k + 1) + 1 = Len(log[g]) - k
    BY <1>0, <2>2
  <2>4. \A j \in 1 .. Len(log[g]) - k : k + 1 + j - 1 = j + k
    BY <1>0
  <2> QED BY <2>2, <2>3, <2>4
<1>10. DOMAIN l = 1 .. Len(log[g]) - k
  BY <1>9, LenProperties
<1> HIDE DEF l
<1>11. \A h \in Gid : log'[h] = IF h = g THEN l ELSE log[h]
  BY <1>3, <1>6 DEF l
<1>12. log' \in [Gid -> Seq(Entries)]
  BY <1>3, <1>6, <1>9 DEF l
<1>13. \A h \in Gid : Len(log'[h]) <= MaxLog
  <2>1. Len(l) <= MaxLog
    <3>1. Len(log[g]) <= MaxLog
      BY <1>3
    <3> QED BY <1>0, <1>9, <3>1, GroupAssumption
  <2> QED BY <1>3, <1>11, <2>1
<1>14. ASSUME NEW h \in Gid, NEW j \in Nat, j \in DOMAIN log'[h]
       PROVE  j + Off(g, k)[h] \in DOMAIN log[h] /\ log'[h][j] = log[h][j + Off(g, k)[h]]
  <2>1. CASE h = g
    <3>1. j \in 1 .. Len(log[g]) - k
      BY <1>10, <1>11, <1>14, <2>1
    <3>2. j + k \in 1 .. Len(log[g]) /\ l[j] = log[g][j + k]
      BY <1>0, <1>9, <3>1
    <3> QED BY <1>0, <1>11, <2>1, <3>2 DEF Off
  <2>2. CASE h # g
    <3>1. j + Off(g, k)[h] = j
      BY <2>2 DEF Off
    <3> QED BY <1>11, <1>14, <2>2, <3>1
  <2> QED BY <2>1, <2>2
<1>15. answer' \in [Actor -> ShardReplies]
  BY <1>1, <1>3, <1>5, <1>6
<1>16. written' \in [Key -> Seq(Value)]
  <2>1. CASE e.args.op = "Put" /\ x.reply.err = "OK"
    <3>1. e.args \in Args
      BY <1>1, <2>1, OpIs
    <3>2. e.args.key \in Key /\ e.args.value \in Value
      BY <3>1 DEF Args
    <3>3. Append(written[e.args.key], e.args.value) \in Seq(Value)
      BY <1>3, <3>2, AppendProperties
    <3> QED BY <1>3, <1>6, <2>1, <3>2, <3>3
  <2>2. CASE ~(e.args.op = "Put" /\ x.reply.err = "OK")
    BY <1>3, <1>6, <2>2
  <2> QED BY <2>1, <2>2
<1>17. Off(g, k) \in [Gid -> Nat]
  BY <1>0 DEF Off
<1> QED BY <1>8, <1>12, <1>13, <1>14, <1>15, <1>16, <1>17

LEMMA ExecutionOrder ==
  ASSUME TypeInv, NEW g \in Gid, NEW k \in DOMAIN log[g], Execution(g, k)
  PROVE  \A d \in Controller \cup Client : InOrder(d)'
<1>0. Types /\ (\A d \in Controller \cup Client : InOrder(d)) /\ ctl' = ctl /\ client' = client
  BY DEF TypeInv, Execution, ctrler
<1>1. PICK e, s : Executed(g, k, e, s)
  BY <1>0, ExecutionTypes
<1> DEFINE off == Off(g, k)
<1>2. off \in [Gid -> Nat] /\ off[g] = k /\ answer \in [Actor -> ShardReplies]
  BY <1>0, ExecutionTypes DEF Off, Types
<1>3. \A h \in Gid, j \in Nat : j \in DOMAIN log'[h] =>
        j + off[h] \in DOMAIN log[h] /\ log'[h][j] = log[h][j + off[h]]
  BY <1>0, ExecutionTypes
<1> HIDE DEF off
<1>4. \A d : \A h \in Gid, j \in Nat : Waits(d, h, j)' =>
        Waits(d, h, j + off[h]) /\ log'[h][j].args = log[h][j + off[h]].args
  BY <1>3 DEF Waits
<1>5. k \in Nat /\ k # 0 /\ (e.awaited => Waits(e.from, g, k)) /\ e.from \in Controller \cup Client
      /\ e.from \in Actor
  <2>1. k \in Nat /\ k # 0
    BY <1>0, LogIs
  <2> QED BY <1>1, <2>1, Actors DEF Executed, Waits, Entries
<1>6. ASSUME NEW d \in Controller \cup Client, ~(e.awaited /\ d = e.from) PROVE InOrder(d)'
  <2>1. answer'[d] = answer[d]
    <3>1. d \in Actor
      BY Actors
    <3> QED BY <1>1, <1>2, <1>5, <1>6, <3>1 DEF Executed
  <2> QED BY <1>0, <1>2, <1>4, <2>1, OthersInOrder
<1>7. ASSUME e.awaited PROVE InOrder(e.from)'
  <2> DEFINE d == e.from
  <2>0. InOrder(d)
    BY <1>0, <1>5
  <2>1. \A h \in Gid, j \in Nat : ~Waits(d, h, j)'
    <3>1. SUFFICES ASSUME NEW h \in Gid, NEW j \in Nat, Waits(d, h, j)' PROVE FALSE
      OBVIOUS
    <3>2. Waits(d, h, j + off[h]) /\ j + off[h] \in Nat /\ off[h] \in Nat
      BY <1>2, <1>4, <3>1
    <3>3. h = g /\ j + off[h] = k
      BY <1>5, <1>7, <2>0, <3>2 DEF InOrder
    <3>4. j = 0
      BY <1>2, <3>2, <3>3
    <3>5. j \in DOMAIN log'[g] /\ DOMAIN log'[g] = 1 .. Len(log'[g])
      <4>1. log'[g] \in Seq(Entries)
        BY <1>0, ExecutionTypes
      <4> QED BY <3>1, <3>3, <4>1, LenProperties DEF Waits
    <3> QED BY <3>4, <3>5
  <2>2. answer'[d] = ShardDoOp(group[g][s], e.args).reply
    BY <1>1, <1>2, <1>5, <1>7 DEF Executed
  <2>3. group[g][s] \in Shards
    BY <1>0, <1>1 DEF Types, Executed
  <2>4. d \in Controller => /\ ctl'[d].step = "wait"
                            /\ answer'[d].err \in {"OK", "ErrStale"}
    <3>1. SUFFICES ASSUME d \in Controller
                   PROVE ctl[d].step = "wait" /\ answer'[d].err \in {"OK", "ErrStale"}
      BY <1>0
    <3>2. ctl[d].step = "wait" /\ log[g][k].args = CallOf(ctl[d])
      BY <1>5, <1>7, <2>0, <3>1 DEF InOrder
    <3>3. ctl[d] \in Ctls /\ CtlFits(ctl[d])
      BY <1>0, <3>1 DEF TypeInv, Types
    <3>4. ctl[d].at \in Phases
      BY <3>2, <3>3 DEF CtlFits
    <3>5. e.args \in ShardCalls
      BY <1>1, <3>2, <3>3, <3>4, CallIs DEF Executed
    <3> QED BY <2>2, <2>3, <3>2, <3>5, MoveIs
  <2>5. d \in Client => client'[d].at = "wait"
    BY <1>0, <1>5, <1>7, <2>0 DEF InOrder
  <2> HIDE DEF d
  <2>6. InOrder(d)'
    BY <2>1, <2>4, <2>5 DEF InOrder, Answered
  <2> QED BY <2>6 DEF d
<1> QED BY <1>6, <1>7

-----------------------------------------------------------------------------
(* The types are kept.                                                     *)

\* What is posted stays or is replaced by a later configuration.
PostedGrows ==
  posted' = posted \/ (posted'.cfg.Num > posted.cfg.Num /\ posted'.ver = posted.ver + 1)

LEMMA FitsStay ==
  ASSUME Types, NEW r \in Ctls, CtlFits(r), PostedGrows, posted' \in [cfg : Config, ver : Nat]
  PROVE  CtlFits(r)'
<1>1. posted.ver \in Nat /\ posted'.ver \in Nat /\ posted.cfg.Num \in Nat /\ posted'.cfg.Num \in Nat
      /\ r.new.Num \in Nat /\ r.ver \in Nat
  BY DEF Types, Config, Ctls
<1>2. Good(r.new)' <=> Good(r.new)
  BY DEF Good
<1>3. CASE posted' = posted
  BY <1>3 DEF CtlFits, Query, Good
<1>4. CASE posted'.cfg.Num > posted.cfg.Num /\ posted'.ver = posted.ver + 1
  BY <1>1, <1>4 DEF CtlFits, Query, Good
<1> QED BY <1>3, <1>4 DEF PostedGrows

\* Controller c goes on to state r.
LEMMA GoesOn ==
  ASSUME TypeInv, NEW c \in Controller, NEW r \in Ctls, CtlFits(r),
         ctl' = [ctl EXCEPT ![c] = r],
         group' = group, log' \in [Gid -> Seq(Entries)], \A h \in Gid : Len(log'[h]) <= MaxLog,
         answer' \in [Actor -> ShardReplies],
         pending' \in [cfg : Config, ver : Nat], posted' \in [cfg : Config, ver : Nat],
         PostedGrows, Keys', \A d \in Controller \cup Client : InOrder(d)', UNCHANGED kvs
  PROVE  TypeInv'
<1>0. Types /\ (\A d \in Controller : CtlFits(ctl[d])) /\ ctl \in [Controller -> Ctls]
  BY DEF TypeInv, Types
<1>1. ctl' \in [Controller -> Ctls]
  BY <1>0
<1>2. \A d \in Controller : ctl'[d] \in Ctls /\ CtlFits(ctl'[d])
  BY <1>0
<1>3. Types'
  BY <1>0, <1>1 DEF Types, kvs
<1>4. ASSUME NEW d \in Controller PROVE CtlFits(ctl[d])'
  <2> DEFINE q == ctl'[d]
  <2>1. q \in Ctls /\ CtlFits(q)
    BY <1>2
  <2> QED BY <1>0, <2>1, FitsStay DEF CtlFits, Query, Good
<1> QED BY <1>3, <1>4 DEF TypeInv

\* The steps of a controller that only move it, to r.
LEMMA GoesQuietly ==
  ASSUME TypeInv, NEW c \in Controller, NEW r \in Ctls, CtlFits(r), Goes(c, r),
         ctl[c].step # "wait", UNCHANGED <<grp, pending, posted>>, UNCHANGED kvs
  PROVE  TypeInv'
<1>1. Types /\ Keys /\ \A d \in Controller \cup Client : InOrder(d)
  BY DEF TypeInv
<1>2. log' = log /\ answer' = answer /\ group' = group /\ pending' = pending /\ posted' = posted
      /\ client' = client
  BY DEF grp, kvs
<1>3. ctl' = [ctl EXCEPT ![c] = r] /\ ctl \in [Controller -> Ctls]
  BY <1>1 DEF Goes, Types
<1>4. \A d \in Controller : d # c => ctl'[d] = ctl[d]
  BY <1>3
<1>5. \A d \in Controller \cup Client : InOrder(d)'
  BY <1>1, <1>2, <1>4, SameOrder
<1>6. Keys'
  BY <1>1, <1>2 DEF Keys, Query, Good
<1>7. /\ log' \in [Gid -> Seq(Entries)] /\ \A h \in Gid : Len(log'[h]) <= MaxLog
      /\ answer' \in [Actor -> ShardReplies]
      /\ pending' \in [cfg : Config, ver : Nat] /\ posted' \in [cfg : Config, ver : Nat]
      /\ PostedGrows
  BY <1>1, <1>2 DEF Types, PostedGrows
<1> QED BY <1>2, <1>3, <1>5, <1>6, <1>7, GoesOn

\* What is known of a controller before its step.
LEMMA CtlIs ==
  ASSUME TypeInv, NEW c \in Controller
  PROVE  /\ ctl[c] \in Ctls /\ CtlFits(ctl[c]) /\ ctl \in [Controller -> Ctls]
         /\ ctl[c].shard \in Shard /\ ctl[c].new \in Config /\ ctl[c].new.Num \in Nat
         /\ ctl[c].at \notin Phases => ctl[c].step = "none"
         /\ Query \in Config /\ Query.Num \in Nat /\ Query.Num >= 1 /\ Good(Query)
         /\ posted.ver \in Nat /\ pending.ver \in Nat
         /\ pending.cfg \in Config /\ pending.cfg.Num \in Nat
BY DEF TypeInv, Types, Ctls, Config, Query, Keys, CtlFits

LEMMA StartTypes ==
  ASSUME TypeInv, NEW c \in Controller, Start(c), UNCHANGED kvs
  PROVE  TypeInv'
<1>0. PICK g \in Wanted : \E new \in JoinBalance(Query, g) \cup LeaveBalance(Query, g) :
        new.Groups # {} /\ Goes(c, [NoChange EXCEPT !.at = "pending", !.new = new])
  BY DEF Start
<1>1. PICK new \in JoinBalance(Query, g) \cup LeaveBalance(Query, g) :
        new.Groups # {} /\ Goes(c, [NoChange EXCEPT !.at = "pending", !.new = new])
  BY <1>0
<1>2. PICK groups \in SUBSET Gid : new = Changed(Query, groups)
  <2>1. g \in Gid /\ Query.Groups \in SUBSET Gid
    BY CtlIs, ControllerAssumption DEF Config
  <2>2. new = Changed(Query, Query.Groups \cup {g}) \/ new = Changed(Query, Query.Groups \ {g})
    BY <1>1 DEF JoinBalance, LeaveBalance
  <2> QED BY <2>1, <2>2
<1>3. groups # {}
  BY <1>1, <1>2 DEF Changed
<1>4. Good(new) /\ new.Num = Query.Num + 1 /\ new \in Config
  BY <1>2, <1>3, ChangedIs, CtlIs DEF Good
<1> DEFINE r == [NoChange EXCEPT !.at = "pending", !.new = new]
<1>5. r \in Ctls /\ r.at = "pending" /\ r.new = new /\ r.step = "none"
  BY <1>4, FirstTypes DEF Ctls, Places
<1> HIDE DEF r
<1>6. CtlFits(r)
  BY <1>4, <1>5, CtlIs DEF CtlFits, Phases
<1>7. ctl[c].step # "wait" /\ Goes(c, r) /\ UNCHANGED <<grp, pending, posted>>
  BY <1>1, CtlIs DEF Start, Phases, r
<1> QED BY <1>5, <1>6, <1>7, GoesQuietly

LEMMA RecoverTypes ==
  ASSUME TypeInv, NEW c \in Controller, Recover(c), UNCHANGED kvs
  PROVE  TypeInv'
<1> DEFINE r == [NoChange EXCEPT !.at = "recover", !.new = pending.cfg]
<1>1. pending.ver > 0 /\ pending.cfg \in Config
  BY CtlIs DEF Recover
<1>2. Good(pending.cfg) /\ pending.cfg.Num >= 2 /\ pending.cfg.Num <= Query.Num + 1
  BY <1>1, CtlIs DEF TypeInv, Keys
<1>5. r \in Ctls /\ r.at = "recover" /\ r.new = pending.cfg /\ r.step = "none"
  BY <1>1, FirstTypes DEF Ctls, Places
<1>7. ctl[c].step # "wait" /\ Goes(c, r) /\ UNCHANGED <<grp, pending, posted>>
  BY CtlIs DEF Recover, Phases
<1> HIDE DEF r
<1>6. CtlFits(r)
  BY <1>2, <1>5 DEF CtlFits, Phases
<1> QED BY <1>5, <1>6, <1>7, GoesQuietly

\* A controller that gives up.
LEMMA IdleFits == NoChange \in Ctls /\ CtlFits(NoChange)
BY FirstTypes DEF CtlFits, Phases

\* The steps that change only where a controller is.
LEMMA AtStepFits ==
  ASSUME TypeInv, NEW c \in Controller, NEW at \in Places \ (Phases \cup {"put"}),
         ctl[c].at \notin Phases \cup {"idle"}
  PROVE  /\ AtStep(c, at) \in Ctls /\ CtlFits(AtStep(c, at)) /\ AtStep(c, at).at = at
         /\ AtStep(c, at).new = ctl[c].new /\ AtStep(c, at).step = "none"
         /\ AtStep(c, at).shard = ctl[c].shard /\ AtStep(c, at).ver = ctl[c].ver
         /\ AtStep(c, at).old = ctl[c].old /\ AtStep(c, at).state = ctl[c].state
<1> DEFINE r == AtStep(c, at)
<1>1. r \in Ctls /\ r.at = at /\ r.new = ctl[c].new /\ r.step = ctl[c].step
      /\ r.shard = ctl[c].shard /\ r.ver = ctl[c].ver /\ r.old = ctl[c].old
      /\ r.state = ctl[c].state
  BY CtlIs DEF AtStep, Ctls
<1>2. r.step = "none"
  BY <1>1, CtlIs
<1> HIDE DEF r
<1>3. CtlFits(r)
  BY <1>1, <1>2, CtlIs DEF CtlFits, Phases
<1> QED BY <1>1, <1>2, <1>3 DEF r

LEMMA ResumeTypes ==
  ASSUME TypeInv, NEW c \in Controller, Resume(c), UNCHANGED kvs
  PROVE  TypeInv'
<1> DEFINE r == IF ctl[c].new.Num >= Query.Num THEN AtStep(c, "pending") ELSE NoChange
<1>1. ctl[c].at = "recover"
  BY DEF Resume
<1>2. r \in Ctls /\ CtlFits(r)
  BY <1>1, AtStepFits, IdleFits DEF Places, Phases
<1>3. ctl[c].step # "wait" /\ Goes(c, r) /\ UNCHANGED <<grp, pending, posted>>
  BY <1>1, CtlIs DEF Resume, Phases
<1> QED BY <1>2, <1>3, GoesQuietly

LEMMA GetPendingTypes ==
  ASSUME TypeInv, NEW c \in Controller, GetPending(c), UNCHANGED kvs
  PROVE  TypeInv'
<1>1. ctl[c].at = "pending" /\ ctl[c].step # "wait" /\ UNCHANGED <<grp, pending, posted>>
  BY CtlIs DEF GetPending, Phases
<1>2. CASE pending.ver = 0
  <2>1. Goes(c, AtStep(c, "create"))
    BY <1>2 DEF GetPending
  <2> QED BY <1>1, <2>1, AtStepFits, GoesQuietly DEF Places, Phases
<1>3. CASE pending.ver # 0 /\ pending.cfg.Num < ctl[c].new.Num
  <2> DEFINE q == AtStep(c, "replace")
             r == [q EXCEPT !.ver = pending.ver]
  <2>1. Goes(c, r)
    BY <1>3, CtlIs DEF GetPending
  <2>2. q \in Ctls /\ CtlFits(q) /\ q.at = "replace"
    BY <1>1, AtStepFits DEF Places, Phases
  <2> HIDE DEF q
  <2>3. r \in Ctls /\ r.at = q.at /\ r.new = q.new /\ r.step = q.step /\ r.old = q.old
    BY <2>2, CtlIs DEF Ctls
  <2> HIDE DEF r
  <2>4. CtlFits(r)
    BY <2>2, <2>3 DEF CtlFits
  <2> QED BY <1>1, <2>1, <2>3, <2>4, GoesQuietly
<1>4. CASE pending.ver # 0 /\ ~(pending.cfg.Num < ctl[c].new.Num)
  <2> DEFINE q == AtStep(c, "shard")
             r == [q EXCEPT !.new = pending.cfg]
  <2>1. Goes(c, r)
    BY <1>4, CtlIs DEF GetPending
  <2>2. q \in Ctls /\ CtlFits(q) /\ q.at = "shard" /\ q.step = "none"
    BY <1>1, AtStepFits DEF Places, Phases
  <2> HIDE DEF q
  <2>3. r \in Ctls /\ r.at = q.at /\ r.new = pending.cfg /\ r.step = q.step /\ r.old = q.old
    BY <2>2, CtlIs DEF Ctls
  <2>4. Good(pending.cfg) /\ pending.cfg.Num >= 2 /\ pending.cfg.Num <= Query.Num + 1
    BY <1>4 DEF TypeInv, Keys
  <2> HIDE DEF r
  <2>5. CtlFits(r)
    BY <2>2, <2>3, <2>4 DEF CtlFits, Phases
  <2> QED BY <1>1, <2>1, <2>3, <2>5, GoesQuietly
<1> QED BY <1>2, <1>3, <1>4

\* A Put of Pending keeps the promise about the keys.
LEMMA PutPendingIs ==
  ASSUME TypeInv, NEW c \in Controller, ctl[c].at # "idle", NEW ver \in Nat,
         pending' = After(pending, ctl[c].new, ver), posted' = posted
  PROVE  /\ pending' \in [cfg : Config, ver : Nat] /\ Keys'
         /\ IF pending.ver = ver THEN pending'.cfg = ctl[c].new /\ pending'.ver = ver + 1
                                 ELSE pending' = pending
<1>0. pending \in [cfg : Config, ver : Nat] /\ ctl[c].new \in Config
      /\ Good(ctl[c].new) /\ ctl[c].new.Num >= 2 /\ ctl[c].new.Num <= Query.Num + 1 /\ Keys
  BY CtlIs DEF TypeInv, Types, CtlFits
<1>1. CASE pending.ver = ver
  <2>1. pending' = [cfg |-> ctl[c].new, ver |-> ver + 1]
    BY <1>1 DEF After
  <2>2. pending' \in [cfg : Config, ver : Nat] /\ pending'.cfg = ctl[c].new
        /\ pending'.ver = ver + 1 /\ pending'.ver # 0
    BY <1>0, <2>1
  <2>3. Query' = Query /\ Good(Query)' /\ Good(pending.cfg)'
    BY <1>0, <2>2 DEF Query, Good, Keys
  <2>4. Keys'
    BY <1>0, <2>2, <2>3 DEF Keys
  <2> QED BY <1>1, <2>2, <2>4
<1>2. CASE pending.ver # ver
  <2>1. pending' = pending
    BY <1>2 DEF After
  <2> QED BY <1>0, <1>2, <2>1 DEF Keys, Query, Good
<1> QED BY <1>1, <1>2

LEMMA PendingTypes ==
  ASSUME TypeInv, NEW c \in Controller, CreatePending(c) \/ ReplacePending(c), UNCHANGED kvs
  PROVE  TypeInv'
<1>1. ctl[c].at \in {"create", "replace"} /\ ctl[c].step # "wait"
  BY CtlIs DEF CreatePending, ReplacePending, Phases
<1>2. PICK ver \in Nat : pending' = After(pending, ctl[c].new, ver)
  <2>1. ctl[c].ver \in Nat
    BY CtlIs DEF Ctls
  <2> QED BY <2>1 DEF CreatePending, ReplacePending, PutPending
<1>3. posted' = posted /\ log' = log /\ answer' = answer /\ group' = group
  BY DEF CreatePending, ReplacePending, PutPending, grp
<1>4. pending' \in [cfg : Config, ver : Nat] /\ Keys'
  BY <1>1, <1>2, <1>3, PutPendingIs
<1>5. PICK r \in Ctls : CtlFits(r) /\ Goes(c, r)
  <2>1. CASE CreatePending(c)
    <3>1. PICK err : Goes(c, AtStep(c, IF err = "ErrVersion" THEN "pending" ELSE "shard"))
      BY <2>1 DEF CreatePending
    <3> QED BY <1>1, <3>1, AtStepFits DEF Places, Phases
  <2>2. CASE ReplacePending(c)
    <3>1. PICK err : Goes(c, [AtStep(c, IF err = "OK" THEN "shard" ELSE "pending") EXCEPT !.ver = 0])
      BY <2>2 DEF ReplacePending
    <3> DEFINE q == AtStep(c, IF err = "OK" THEN "shard" ELSE "pending")
               r == [q EXCEPT !.ver = 0]
    <3>2. q \in Ctls /\ CtlFits(q) /\ q.at # "put"
      BY <1>1, AtStepFits DEF Places, Phases
    <3>3. Goes(c, r)
      BY <3>1
    <3> HIDE DEF q
    <3>4. r \in Ctls /\ r.at = q.at /\ r.new = q.new /\ r.step = q.step /\ r.old = q.old
      BY <3>2 DEF Ctls
    <3> HIDE DEF r
    <3>5. CtlFits(r)
      BY <3>2, <3>4 DEF CtlFits
    <3> QED BY <3>3, <3>4, <3>5
  <2> QED BY <2>1, <2>2
<1>6. ctl' = [ctl EXCEPT ![c] = r] /\ ctl \in [Controller -> Ctls] /\ client' = client
  BY <1>5, CtlIs DEF Goes, kvs
<1>7. \A d \in Controller : d # c => ctl'[d] = ctl[d]
  BY <1>6
<1>8. \A d \in Controller \cup Client : InOrder(d)
  BY DEF TypeInv
<1>9. \A d \in Controller \cup Client : InOrder(d)'
  BY <1>1, <1>3, <1>6, <1>7, <1>8, SameOrder
<1>10. /\ log' \in [Gid -> Seq(Entries)] /\ \A h \in Gid : Len(log'[h]) <= MaxLog
       /\ answer' \in [Actor -> ShardReplies] /\ posted' \in [cfg : Config, ver : Nat]
       /\ PostedGrows
  BY <1>3 DEF TypeInv, Types, PostedGrows
<1> QED BY <1>3, <1>4, <1>5, <1>6, <1>9, <1>10, GoesOn

\* The next shard, or the end of the loop.
LEMMA AdvancedIs ==
  ASSUME TypeInv, NEW c \in Controller, ctl[c].at \in Phases \cup {"shard"}
  PROVE  /\ Advanced(c) \in Ctls /\ CtlFits(Advanced(c)) /\ Advanced(c).at \in {"post", "shard"}
         /\ Advanced(c).new = ctl[c].new /\ Advanced(c).step = "none"
         /\ Advanced(c).at = "post" => ctl[c].shard + 1 = NShards
         /\ Advanced(c).at = "shard" => Advanced(c).shard = ctl[c].shard + 1
<1> DEFINE r == Advanced(c)
<1>0. ctl[c].new \in Config /\ ctl[c].shard \in Shard
  BY CtlIs
<1>1. CASE ctl[c].shard + 1 = NShards
  <2>1. r = [NoChange EXCEPT !.at = "post", !.new = ctl[c].new]
    BY <1>1 DEF Advanced
  <2>2. r \in Ctls /\ r.at = "post" /\ r.new = ctl[c].new /\ r.step = "none"
    BY <1>0, <2>1, FirstTypes DEF Ctls, Places
  <2> HIDE DEF r
  <2>3. CtlFits(r)
    BY <2>2, CtlIs DEF CtlFits, Phases
  <2> QED BY <1>1, <2>2, <2>3 DEF r
<1>2. CASE ctl[c].shard + 1 # NShards
  <2>0. ctl[c].shard + 1 \in Shard
    BY <1>0, <1>2, ShardAssumption DEF Shard
  <2>1. r = [NoChange EXCEPT !.at = "shard", !.new = ctl[c].new, !.shard = ctl[c].shard + 1]
    BY <1>2 DEF Advanced
  <2>2. r \in Ctls /\ r.at = "shard" /\ r.new = ctl[c].new /\ r.step = "none"
        /\ r.shard = ctl[c].shard + 1
    BY <1>0, <2>0, <2>1, FirstTypes DEF Ctls, Places
  <2> HIDE DEF r
  <2>3. CtlFits(r)
    BY <2>2, CtlIs DEF CtlFits, Phases
  <2> QED BY <2>2, <2>3 DEF r
<1> QED BY <1>1, <1>2

\* The beginning of a phase.
LEMMA PhaseIs ==
  ASSUME TypeInv, NEW c \in Controller, NEW at \in Phases, ctl[c].at # "idle"
  PROVE  LET r == Phase(c, at) IN
         /\ r \in Ctls /\ r.at = at /\ r.step = "check" /\ r.new = ctl[c].new
         /\ r.shard = ctl[c].shard /\ r.old = ctl[c].old /\ r.state = ctl[c].state
         /\ r.old \in Gid => CtlFits(r)
<1> DEFINE r == Phase(c, at)
<1>1. r \in Ctls /\ r.at = at /\ r.step = "check" /\ r.new = ctl[c].new
      /\ r.shard = ctl[c].shard /\ r.old = ctl[c].old /\ r.state = ctl[c].state
  BY CtlIs DEF Phase, AtStep, Ctls, Places
<1> HIDE DEF r
<1>2. r.old \in Gid => CtlFits(r)
  BY <1>1, CtlIs DEF CtlFits, Phases
<1> QED BY <1>1, <1>2 DEF r

\* The first phase of a shard that moves.
LEMMA BeginsIs ==
  ASSUME TypeInv, NEW c \in Controller, ctl[c].at = "shard"
  PROVE  LET old == GidServers(Query, ctl[c].shard)
             r == [Phase(c, IF old # 0 THEN "Freeze" ELSE "Install") EXCEPT !.old = old] IN
         /\ old \in Gid /\ old # 0
         /\ r \in Ctls /\ CtlFits(r) /\ r.at = "Freeze" /\ r.step = "check" /\ r.new = ctl[c].new
         /\ r.shard = ctl[c].shard /\ r.old = old
<1> DEFINE old == GidServers(Query, ctl[c].shard)
           q == Phase(c, "Freeze")
           r == [q EXCEPT !.old = old]
<1>1. old \in Gid /\ old # 0
  BY CtlIs, GoodIs
<1>2. q \in Ctls /\ q.at = "Freeze" /\ q.step = "check" /\ q.new = ctl[c].new
      /\ q.shard = ctl[c].shard
  BY PhaseIs DEF Phases
<1> HIDE DEF q, old
<1>3. r \in Ctls /\ r.at = "Freeze" /\ r.step = "check" /\ r.new = ctl[c].new
      /\ r.shard = ctl[c].shard /\ r.old = old
  BY <1>1, <1>2 DEF Ctls
<1> HIDE DEF r
<1>4. CtlFits(r)
  BY <1>1, <1>3, CtlIs DEF CtlFits, Phases
<1> QED BY <1>1, <1>3, <1>4 DEF r, q, old

LEMMA MoveShardTypes ==
  ASSUME TypeInv, NEW c \in Controller, MoveShard(c), UNCHANGED kvs
  PROVE  TypeInv'
<1> DEFINE s == ctl[c].shard
           old == GidServers(Query, s)
           b == [Phase(c, IF old # 0 THEN "Freeze" ELSE "Install") EXCEPT !.old = old]
<1>1. ctl[c].at = "shard" /\ ctl[c].step # "wait" /\ UNCHANGED <<grp, pending, posted>>
  BY CtlIs DEF MoveShard, Phases
<1>2. Goes(c, NoChange) \/ Goes(c, Advanced(c)) \/ Goes(c, b)
  BY DEF MoveShard
<1>3. b \in Ctls /\ CtlFits(b) /\ Advanced(c) \in Ctls /\ CtlFits(Advanced(c))
  BY <1>1, BeginsIs, AdvancedIs
<1> HIDE DEF b
<1> QED BY <1>1, <1>2, <1>3, IdleFits, GoesQuietly

\* The steps within a phase.
LEMMA StepIs ==
  ASSUME TypeInv, NEW c \in Controller, ctl[c].step # "none", NEW step \in {"check", "send", "wait"}
  PROVE  LET r == [ctl[c] EXCEPT !.step = step] IN
         /\ r \in Ctls /\ CtlFits(r) /\ r.step = step /\ r.at = ctl[c].at /\ r.new = ctl[c].new
         /\ r.shard = ctl[c].shard /\ r.old = ctl[c].old /\ r.state = ctl[c].state
         /\ r.ver = ctl[c].ver /\ CallOf(r) = CallOf(ctl[c]) /\ TargetOf(r) = TargetOf(ctl[c])
         /\ ctl[c].at \in Phases
<1> DEFINE r == [ctl[c] EXCEPT !.step = step]
<1>1. /\ r \in Ctls /\ r.step = step /\ r.at = ctl[c].at /\ r.new = ctl[c].new
      /\ r.shard = ctl[c].shard /\ r.old = ctl[c].old /\ r.state = ctl[c].state
      /\ r.ver = ctl[c].ver
  BY CtlIs DEF Ctls
<1> HIDE DEF r
<1>2. ctl[c].at \in Phases
  BY CtlIs
<1>3. CtlFits(r)
  BY <1>1, <1>2, CtlIs DEF CtlFits
<1>4. CallOf(r) = CallOf(ctl[c]) /\ TargetOf(r) = TargetOf(ctl[c])
  BY <1>1 DEF CallOf, TargetOf
<1> QED BY <1>1, <1>2, <1>3, <1>4 DEF r

LEMMA CheckStaleTypes ==
  ASSUME TypeInv, NEW c \in Controller, CheckStale(c), UNCHANGED kvs
  PROVE  TypeInv'
<1> DEFINE r == IF Superseded(c) THEN NoChange ELSE [ctl[c] EXCEPT !.step = "send"]
<1>1. ctl[c].step = "check" /\ Goes(c, r) /\ UNCHANGED <<grp, pending, posted>>
  BY DEF CheckStale
<1>2. r \in Ctls /\ CtlFits(r)
  BY <1>1, StepIs, IdleFits
<1> HIDE DEF r
<1> QED BY <1>1, <1>2, GoesQuietly

LEMMA CallGroupTypes ==
  ASSUME TypeInv, NEW c \in Controller, CallGroup(c), UNCHANGED kvs
  PROVE  TypeInv' /\ SentTo(c, TargetOf(ctl[c]), CallOf(ctl[c])) /\ CallOf(ctl[c]) \in ShardCalls
<1> DEFINE r == [ctl[c] EXCEPT !.step = "wait"]
           g == TargetOf(ctl[c])
           a == CallOf(ctl[c])
<1>0. Types /\ \A d \in Controller \cup Client : InOrder(d)
  BY DEF TypeInv
<1>1. ctl[c].step = "send" /\ Goes(c, r) /\ Send(c, g, a) /\ UNCHANGED <<pending, posted>>
  BY DEF CallGroup, Target, TargetOf, CallOf
<1>2. r \in Ctls /\ CtlFits(r) /\ r.step = "wait" /\ CallOf(r) = a /\ TargetOf(r) = g
      /\ ctl[c].at \in Phases
  BY <1>1, StepIs
<1>3. a \in ShardCalls /\ g \in Gid
  BY <1>2, CallIs, CtlIs
<1> HIDE DEF r, g, a
<1>4. log' \in [Gid -> Seq(Entries)] /\ (\A h \in Gid : Len(log'[h]) <= MaxLog) /\ SentTo(c, g, a)
  BY <1>0, <1>1, <1>3, SendTypes
<1>5. ctl' = [ctl EXCEPT ![c] = r] /\ ctl \in [Controller -> Ctls] /\ client' = client
      /\ group' = group /\ answer' = answer /\ pending' = pending /\ posted' = posted
  BY <1>1, CtlIs DEF Goes, kvs, Send
<1>6. ctl'[c] = r /\ \A d \in Controller : d # c => ctl'[d] = ctl[d]
  BY <1>5
<1>7. Quiet(c)
  <2>1. InOrder(c) /\ ctl[c].step # "wait"
    BY <1>0, <1>1
  <2> QED BY <2>1, QuietIs
<1>8. ~(c \in Client)
  BY Actors
<1>9. \A d \in Controller \cup Client : InOrder(d)'
  BY <1>0, <1>2, <1>3, <1>4, <1>5, <1>6, <1>7, <1>8, SendOrder
<1>10. Keys'
  BY <1>5 DEF TypeInv, Keys, Query, Good
<1>11. /\ answer' \in [Actor -> ShardReplies]
       /\ pending' \in [cfg : Config, ver : Nat] /\ posted' \in [cfg : Config, ver : Nat]
       /\ PostedGrows
  BY <1>0, <1>5 DEF Types, PostedGrows
<1>12. TypeInv'
  BY <1>2, <1>4, <1>5, <1>9, <1>10, <1>11, GoesOn
<1> QED BY <1>3, <1>4, <1>12 DEF g, a

\* A controller gives up its call, or everything.
LEMMA GivesUpTypes ==
  ASSUME TypeInv, NEW c \in Controller, CallFails(c) \/ Die(c), UNCHANGED kvs
  PROVE  /\ TypeInv' /\ Gave(c) /\ answer'[c].err = "none"
         /\ \A d \in Actor : d # c => answer'[d] = answer[d]
<1>0. Types /\ \A d \in Controller \cup Client : InOrder(d)
  BY DEF TypeInv
<1>1. PICK r \in Ctls : CtlFits(r) /\ Goes(c, r)
  <2>1. CASE CallFails(c)
    <3>1. ctl[c].step \in {"send", "wait"} /\ Goes(c, [ctl[c] EXCEPT !.step = "check"])
      BY <2>1 DEF CallFails
    <3> QED BY <3>1, StepIs
  <2>2. CASE Die(c)
    BY <2>2, IdleFits DEF Die
  <2> QED BY <2>1, <2>2
<1>2. c \in Actor /\ answer \in [Actor -> ShardReplies] /\ Controller \cup Client \subseteq Actor
  BY <1>0, Actors DEF Types
<1>3. /\ Gave(c) /\ group' = group /\ pending' = pending /\ posted' = posted
      /\ client' = client
  BY DEF CallFails, Die, Forget, Gave, kvs
<1>4. /\ answer'[c].err = "none" /\ \A d \in Actor : d # c => answer'[d] = answer[d]
      /\ answer' \in [Actor -> ShardReplies]
  <2>1. CASE CallFails(c)
    BY <1>2, <2>1 DEF CallFails, Forget
  <2>2. CASE Die(c)
    BY <1>2, <2>2, EmptyTypes DEF Die
  <2> QED BY <2>1, <2>2
<1>5. ctl' = [ctl EXCEPT ![c] = r] /\ ctl \in [Controller -> Ctls]
  BY <1>1, CtlIs DEF Goes
<1>6. \A d \in Controller : d # c => ctl'[d] = ctl[d]
  BY <1>5
<1>7. log' \in [Gid -> Seq(Entries)] /\ \A h \in Gid : Len(log'[h]) <= MaxLog
  BY <1>0, <1>3, GiveTypes
<1>8. \A d \in Controller \cup Client : InOrder(d)'
  BY <1>0, <1>2, <1>3, <1>4, <1>6, GiveOrder
<1>9. Keys'
  BY <1>3 DEF TypeInv, Keys, Query, Good
<1>10. /\ pending' \in [cfg : Config, ver : Nat] /\ posted' \in [cfg : Config, ver : Nat]
       /\ PostedGrows
  BY <1>0, <1>3 DEF Types, PostedGrows
<1>11. TypeInv'
  BY <1>1, <1>3, <1>4, <1>5, <1>7, <1>8, <1>9, <1>10, GoesOn
<1> QED BY <1>3, <1>4, <1>11

\* What follows a phase: the next one, or the next shard.
LEMMA FollowingIs ==
  ASSUME TypeInv, NEW c \in Controller, ctl[c].step = "wait"
  PROVE  LET r == Following(c) IN
         /\ ctl[c].at \in Phases /\ r \in Ctls /\ CtlFits(r) /\ r.new = ctl[c].new
         /\ ctl[c].at = "Freeze" => /\ r.at = "Install" /\ r.step = "check"
                                    /\ r.shard = ctl[c].shard /\ r.old = ctl[c].old
                                    /\ r.state = answer[c].state
         /\ ctl[c].at = "Install" => /\ r.at = "Delete" /\ r.step = "check"
                                     /\ r.shard = ctl[c].shard /\ r.old = ctl[c].old
         /\ ctl[c].at = "Delete" => r = Advanced(c)
<1> DEFINE r == Following(c)
<1>0. ctl[c].at \in Phases /\ ctl[c].at # "idle" /\ ctl[c].old \in Gid /\ ctl[c].old # 0
  BY CtlIs, ShardAssumption DEF CtlFits, Phases
<1>1. CASE ctl[c].at = "Freeze"
  <2> DEFINE q == Phase(c, "Install")
  <2>1. GidServers(ctl[c].new, ctl[c].shard) # 0
    <3>1. Good(ctl[c].new) /\ ctl[c].shard \in Shard
      BY <1>0, CtlIs DEF CtlFits
    <3> QED BY <3>1, GoodIs
  <2>2. r = [q EXCEPT !.state = answer[c].state]
    BY <1>1, <2>1 DEF Following
  <2>3. q \in Ctls /\ CtlFits(q) /\ q.at = "Install" /\ q.step = "check" /\ q.new = ctl[c].new
        /\ q.shard = ctl[c].shard /\ q.old = ctl[c].old
    BY <1>0, PhaseIs DEF Phases
  <2>4. answer[c].state \in Stores
    <3>1. c \in Actor /\ answer \in [Actor -> ShardReplies]
      BY Actors DEF TypeInv, Types
    <3> QED BY <3>1 DEF ShardReplies
  <2> HIDE DEF q, r
  <2>5. r \in Ctls /\ r.at = q.at /\ r.step = q.step /\ r.new = q.new /\ r.shard = q.shard
        /\ r.old = q.old /\ r.state = answer[c].state
    BY <2>2, <2>3, <2>4 DEF Ctls
  <2>6. CtlFits(r)
    BY <2>3, <2>5 DEF CtlFits, Phases
  <2> QED BY <1>0, <1>1, <2>3, <2>5, <2>6 DEF r
<1>2. CASE ctl[c].at = "Install"
  <2> DEFINE q == Phase(c, "Delete")
  <2>2. r = [q EXCEPT !.state = NoStore]
    BY <1>0, <1>2 DEF Following
  <2>3. q \in Ctls /\ CtlFits(q) /\ q.at = "Delete" /\ q.step = "check" /\ q.new = ctl[c].new
        /\ q.shard = ctl[c].shard /\ q.old = ctl[c].old
    BY <1>0, PhaseIs DEF Phases
  <2> HIDE DEF q, r
  <2>5. r \in Ctls /\ r.at = q.at /\ r.step = q.step /\ r.new = q.new /\ r.shard = q.shard
        /\ r.old = q.old
    BY <2>2, <2>3, EmptyTypes DEF Ctls
  <2>6. CtlFits(r)
    BY <2>3, <2>5 DEF CtlFits, Phases
  <2> QED BY <1>0, <1>2, <2>3, <2>5, <2>6 DEF r
<1>3. CASE ctl[c].at = "Delete"
  <2>1. r = Advanced(c)
    BY <1>3 DEF Following
  <2> QED BY <1>0, <1>3, <2>1, AdvancedIs
<1> QED BY <1>0, <1>1, <1>2, <1>3 DEF Phases

LEMMA CallReturnsTypes ==
  ASSUME TypeInv, NEW c \in Controller, CallReturns(c), UNCHANGED kvs
  PROVE  /\ TypeInv' /\ answer'[c] = NoAnswer /\ answer[c].err \in {"OK", "ErrStale"}
         /\ \A d \in Actor : d # c => answer'[d] = answer[d]
<1>0. Types /\ (\A d \in Controller \cup Client : InOrder(d)) /\ InOrder(c) /\ Answered(c)
  BY DEF TypeInv, CallReturns, Take, Answered
<1>1. PICK r \in Ctls : CtlFits(r) /\ Goes(c, r)
  BY FollowingIs, IdleFits DEF CallReturns
<1>2. /\ Take(c) /\ group' = group /\ pending' = pending /\ posted' = posted
      /\ client' = client /\ log' = log
  BY DEF CallReturns, Take, kvs
<1>3. ctl' = [ctl EXCEPT ![c] = r] /\ ctl \in [Controller -> Ctls]
  BY <1>1, CtlIs DEF Goes
<1>4. \A d \in Controller : d # c => ctl'[d] = ctl[d]
  BY <1>3
<1>5. /\ answer' \in [Actor -> ShardReplies] /\ answer'[c] = NoAnswer
      /\ \A d \in Actor : d # c => answer'[d] = answer[d]
      /\ \A d \in Controller \cup Client : InOrder(d)'
  BY <1>0, <1>2, <1>4, TakeOrder
<1>6. Keys'
  BY <1>2 DEF TypeInv, Keys, Query, Good
<1>7. /\ log' \in [Gid -> Seq(Entries)] /\ \A h \in Gid : Len(log'[h]) <= MaxLog
      /\ pending' \in [cfg : Config, ver : Nat] /\ posted' \in [cfg : Config, ver : Nat]
      /\ PostedGrows
  BY <1>0, <1>2 DEF Types, PostedGrows
<1>8. TypeInv'
  BY <1>1, <1>2, <1>3, <1>5, <1>6, <1>7, GoesOn
<1>9. answer[c].err \in {"OK", "ErrStale"}
  BY <1>0 DEF InOrder
<1> QED BY <1>5, <1>8, <1>9

LEMMA GetPostedTypes ==
  ASSUME TypeInv, NEW c \in Controller, GetPosted(c), UNCHANGED kvs
  PROVE  TypeInv'
<1> DEFINE q == AtStep(c, "put")
           p == [q EXCEPT !.ver = posted.ver]
<1>1. ctl[c].at = "post" /\ ctl[c].step = "none" /\ UNCHANGED <<grp, pending, posted>>
      /\ Goes(c, IF Superseded(c) THEN NoChange ELSE p)
  BY CtlIs DEF GetPosted, Phases
<1>2. q \in Ctls /\ q.at = "put" /\ q.new = ctl[c].new /\ q.step = "none" /\ q.old = ctl[c].old
  BY <1>1, CtlIs DEF AtStep, Ctls, Places
<1> HIDE DEF q
<1>3. p \in Ctls /\ p.at = "put" /\ p.new = ctl[c].new /\ p.step = "none" /\ p.ver = posted.ver
  BY <1>2, CtlIs DEF Ctls
<1> HIDE DEF p
<1>4. ~Superseded(c) => CtlFits(p)
  BY <1>1, <1>3, CtlIs DEF CtlFits, Phases, Superseded
<1>5. CASE Superseded(c)
  BY <1>1, <1>5, IdleFits, GoesQuietly
<1>6. CASE ~Superseded(c)
  BY <1>1, <1>3, <1>4, <1>6, GoesQuietly
<1> QED BY <1>5, <1>6

\* The Put of the new configuration.
LEMMA PutPostedTypes ==
  ASSUME TypeInv, NEW c \in Controller, PutPosted(c), UNCHANGED kvs
  PROVE  /\ TypeInv' /\ pending' = pending /\ PostedGrows
         /\ posted' # posted => /\ ctl[c].at = "put" /\ ctl[c].new.Num = Query.Num + 1
                                /\ Query' = ctl[c].new
<1>0. /\ Types /\ Keys /\ (\A d \in Controller \cup Client : InOrder(d))
      /\ posted \in [cfg : Config, ver : Nat]
  BY DEF TypeInv, Types
<1>1. ctl[c].at = "put" /\ ctl[c].step = "none" /\ UNCHANGED <<group, log, answer, pending>>
      /\ posted' = After(posted, ctl[c].new, ctl[c].ver)
  BY CtlIs DEF PutPosted, grp, Phases
<1>2. ctl[c].new \in Config /\ Good(ctl[c].new) /\ ctl[c].new.Num >= 2
      /\ ctl[c].new.Num <= Query.Num + 1 /\ ctl[c].ver \in Nat /\ ctl[c].new.Num \in Nat
      /\ (ctl[c].ver = posted.ver => ctl[c].new.Num > Query.Num)
  BY <1>1, CtlIs DEF CtlFits, Ctls
<1>3. /\ posted' \in [cfg : Config, ver : Nat] /\ PostedGrows /\ Keys'
      /\ posted' # posted => ctl[c].new.Num = Query.Num + 1 /\ Query' = ctl[c].new
  <2>1. CASE ctl[c].ver = posted.ver
    <3>1. posted' = [cfg |-> ctl[c].new, ver |-> posted.ver + 1]
      BY <1>1, <2>1 DEF After
    <3>2. posted' \in [cfg : Config, ver : Nat] /\ posted'.cfg = ctl[c].new
          /\ posted'.ver = posted.ver + 1
      BY <1>0, <1>2, <3>1
    <3>3. Query' = ctl[c].new /\ ctl[c].new.Num = Query.Num + 1
      BY <1>2, <2>1, <3>2, CtlIs DEF Query
    <3>4. Good(Query)' /\ Good(pending.cfg)' = Good(pending.cfg)
      BY <1>1, <1>2, <3>3 DEF Good
    <3>5. Keys'
      BY <1>0, <1>1, <3>3, <3>4, CtlIs DEF Keys
    <3> QED BY <3>2, <3>3, <3>5, CtlIs DEF PostedGrows, Query
  <2>2. CASE ctl[c].ver # posted.ver
    <3>1. posted' = posted
      BY <1>1, <2>2 DEF After
    <3> QED BY <1>0, <1>1, <3>1 DEF PostedGrows, Keys, Query, Good
  <2> QED BY <2>1, <2>2
<1>4. PICK r \in Ctls : CtlFits(r) /\ Goes(c, r)
  <2>1. PICK err \in Answers(posted, ctl[c].ver) :
          Goes(c, IF err = "OK" THEN NoChange ELSE [AtStep(c, "post") EXCEPT !.ver = 0])
    BY DEF PutPosted
  <2> DEFINE q == AtStep(c, "post")
             p == [q EXCEPT !.ver = 0]
  <2>2. q \in Ctls /\ CtlFits(q) /\ q.at = "post"
    BY <1>1, AtStepFits DEF Places, Phases
  <2>3. Goes(c, NoChange) \/ Goes(c, p)
    BY <2>1
  <2> HIDE DEF q
  <2>4. p \in Ctls /\ p.at = q.at /\ p.new = q.new /\ p.step = q.step /\ p.old = q.old
    BY <2>2 DEF Ctls
  <2> HIDE DEF p
  <2>5. CtlFits(p)
    BY <2>2, <2>4 DEF CtlFits
  <2> QED BY <2>3, <2>4, <2>5, IdleFits
<1>5. ctl' = [ctl EXCEPT ![c] = r] /\ ctl \in [Controller -> Ctls] /\ client' = client
  BY <1>4, CtlIs DEF Goes, kvs
<1>6. \A d \in Controller : d # c => ctl'[d] = ctl[d]
  BY <1>5
<1>7. \A d \in Controller \cup Client : InOrder(d)'
  BY <1>0, <1>1, <1>5, <1>6, SameOrder
<1>8. /\ log' \in [Gid -> Seq(Entries)] /\ \A h \in Gid : Len(log'[h]) <= MaxLog
      /\ answer' \in [Actor -> ShardReplies]
      /\ pending' \in [cfg : Config, ver : Nat]
  BY <1>0, <1>1 DEF Types
<1>9. TypeInv'
  BY <1>1, <1>3, <1>4, <1>5, <1>7, <1>8, GoesOn
<1> QED BY <1>1, <1>3, <1>9

\* So every step of a controller keeps the types.
LEMMA ControllerTypes ==
  ASSUME TypeInv, NEW c \in Controller, ControllerStep(c), UNCHANGED kvs
  PROVE  TypeInv'
<1>1. CASE Start(c) \/ Recover(c) \/ Resume(c)
  BY <1>1, StartTypes, RecoverTypes, ResumeTypes
<1>2. CASE GetPending(c) \/ CreatePending(c) \/ ReplacePending(c)
  BY <1>2, GetPendingTypes, PendingTypes
<1>3. CASE MoveShard(c) \/ CheckStale(c) \/ CallGroup(c)
  BY <1>3, MoveShardTypes, CheckStaleTypes, CallGroupTypes
<1>4. CASE CallFails(c) \/ CallReturns(c) \/ Die(c)
  BY <1>4, GivesUpTypes, CallReturnsTypes
<1>5. CASE GetPosted(c) \/ PutPosted(c)
  BY <1>5, GetPostedTypes, PutPostedTypes
<1> QED BY <1>1, <1>2, <1>3, <1>4, <1>5 DEF ControllerStep

\* The clerk of a client goes on to state r.
LEMMA ClerkGoesOn ==
  ASSUME TypeInv, NEW c \in Client, NEW r \in Clerks, ClerkFits(r),
         client' = [client EXCEPT ![c] = r], UNCHANGED ctrler, written' = written,
         done' \in [Client -> Seq(Returned)],
         group' = group, log' \in [Gid -> Seq(Entries)], \A h \in Gid : Len(log'[h]) <= MaxLog,
         answer' \in [Actor -> ShardReplies], \A d \in Controller \cup Client : InOrder(d)'
  PROVE  TypeInv'
<1>0. /\ Types /\ client \in [Client -> Clerks]
      /\ \A d \in Client : ClerkFits(client[d])
  BY DEF TypeInv, Types
<1>1. /\ client' \in [Client -> Clerks]
      /\ \A d \in Client : ClerkFits(client'[d])
  BY <1>0
<1>2. pending' = pending /\ posted' = posted /\ ctl' = ctl
  BY DEF ctrler
<1>3. Types'
  BY <1>0, <1>1, <1>2 DEF Types, ClerkFits
<1>4. Keys' /\ \A d \in Controller : CtlFits(ctl[d])'
  BY <1>2 DEF TypeInv, Keys, CtlFits, Query, Good
<1> QED BY <1>3, <1>4 DEF TypeInv

\* What is known of a clerk before its step.
LEMMA ClerkIs ==
  ASSUME TypeInv, NEW c \in Client
  PROVE  /\ client[c] \in Clerks /\ client \in [Client -> Clerks]
         /\ client[c].at # "idle" => client[c].args \in Args
         /\ client[c].at = "send" => client[c].gid \in Gid
         /\ done \in [Client -> Seq(Returned)] /\ done[c] \in Seq(Returned) /\ Len(done[c]) \in Nat
         /\ c \in Actor /\ c \in Controller \cup Client /\ ~(c \in Controller)
         /\ answer \in [Actor -> ShardReplies] /\ answer[c] \in ShardReplies
         /\ log \in [Gid -> Seq(Entries)] /\ (\A h \in Gid : Len(log[h]) <= MaxLog)
         /\ Types /\ \A d \in Controller \cup Client : InOrder(d)
<1>1. c \in Actor /\ ~(c \in Controller)
  BY Actors
<1>2. Types /\ \A d \in Controller \cup Client : InOrder(d)
  BY DEF TypeInv
<1>3. done[c] \in Seq(Returned) /\ Len(done[c]) \in Nat
  BY <1>2, LenProperties DEF Types
<1> QED BY <1>1, <1>2, <1>3 DEF Types, ClerkFits

LEMMA NoCallIs == NoCall \in Clerks /\ NoCall.at = "idle" /\ ClerkFits(NoCall)
BY ShardAssumption DEF NoCall, Clerks, ClerkFits

\* The steps of a clerk that only move it, to r.
LEMMA ClerkQuietly ==
  ASSUME TypeInv, NEW c \in Client, NEW r \in Clerks, ClerkFits(r),
         client' = [client EXCEPT ![c] = r], client[c].at # "wait",
         UNCHANGED <<grp, ctrler, done, written>>
  PROVE  TypeInv'
<1>1. log' = log /\ answer' = answer /\ group' = group /\ ctl' = ctl
  BY DEF grp, ctrler
<1>2. \A d \in Client : d # c => client'[d] = client[d]
  BY ClerkIs
<1>3. \A d \in Controller \cup Client : InOrder(d)'
  BY <1>1, <1>2, ClerkIs, SameOrder
<1> QED BY <1>1, <1>3, ClerkIs, ClerkGoesOn

LEMMA CallsNextTypes ==
  ASSUME TypeInv, NEW c \in Client, CallsNext(c)
  PROVE  TypeInv'
<1>1. PICK a \in Script[c][Len(done[c]) + 1] :
       client' = [client EXCEPT ![c] = [NoCall EXCEPT
         !.at = "query", !.args = a, !.floor = Len(written[a.key])]]
  BY DEF CallsNext
<1>2. a \in Args
  <2>1. Script[c] \in Seq(SUBSET Args) /\ Len(done[c]) < Len(Script[c]) /\ Len(done[c]) \in Nat
    BY ClientAssumption, ClerkIs DEF CallsNext
  <2>2. Len(done[c]) + 1 \in 1 .. Len(Script[c]) /\ Len(Script[c]) \in Nat
    BY <2>1, LenProperties
  <2>3. Script[c][Len(done[c]) + 1] \in SUBSET Args
    BY <2>1, <2>2, ElementOfSeq
  <2> QED BY <1>1, <2>3
<1>3. Len(written[a.key]) \in Nat
  <2>1. written[a.key] \in Seq(Value)
    BY <1>2 DEF TypeInv, Types, Args
  <2> QED BY <2>1, LenProperties
<1> DEFINE r == [NoCall EXCEPT !.at = "query", !.args = a, !.floor = Len(written[a.key])]
<1>4. r \in Clerks /\ ClerkFits(r)
  BY <1>2, <1>3, NoCallIs DEF Clerks, ClerkFits
<1> HIDE DEF r
<1>5. client' = [client EXCEPT ![c] = r] /\ client[c].at # "wait"
      /\ UNCHANGED <<grp, ctrler, done, written>>
  BY <1>1 DEF CallsNext, r
<1> QED BY <1>2, <1>4, <1>5, ClerkQuietly

LEMMA LocateTypes ==
  ASSUME TypeInv, NEW c \in Client, Locate(c)
  PROVE  TypeInv'
<1>1. client[c].at = "query" /\ client[c] \in Clerks /\ client[c].args \in Args
      /\ client \in [Client -> Clerks]
  BY ClerkIs DEF Locate
<1> DEFINE g == GidServers(Query, Key2Shard[client[c].args.key])
           r == [client[c] EXCEPT !.at = "send", !.gid = g]
<1>2. g \in Gid
  <2>1. Key2Shard[client[c].args.key] \in Shard
    BY <1>1, GroupAssumption DEF Args
  <2>2. Good(Query)
    BY DEF TypeInv, Keys
  <2> QED BY <2>1, <2>2, GoodIs
<1>3. client' = [client EXCEPT ![c] = r] /\ UNCHANGED <<grp, ctrler, done, written>>
  BY <1>1 DEF Locate
<1> HIDE DEF g
<1>4. r \in Clerks /\ ClerkFits(r)
  BY <1>1, <1>2 DEF Clerks, ClerkFits
<1> HIDE DEF r
<1> QED BY <1>1, <1>3, <1>4, ClerkQuietly

LEMMA AskGroupTypes ==
  ASSUME TypeInv, NEW c \in Client, AskGroup(c)
  PROVE  TypeInv' /\ SentTo(c, client[c].gid, client[c].args) /\ client[c].args \in Args
<1> DEFINE r == [client[c] EXCEPT !.at = "wait"]
           g == client[c].gid
           a == client[c].args
<1>1. client[c].at = "send" /\ client[c] \in Clerks /\ a \in Args /\ client \in [Client -> Clerks]
  BY ClerkIs DEF AskGroup
<1>2. client' = [client EXCEPT ![c] = r] /\ Send(c, g, a) /\ UNCHANGED <<ctrler, done, written>>
  BY <1>1 DEF AskGroup
<1>3. r \in Clerks /\ ClerkFits(r) /\ r.at = "wait"
  BY <1>1 DEF Clerks, ClerkFits
<1> HIDE DEF r, g, a
<1>4. g \in Gid
  BY <1>1, ClerkIs DEF g
<1>5. log' \in [Gid -> Seq(Entries)] /\ (\A h \in Gid : Len(log'[h]) <= MaxLog) /\ SentTo(c, g, a)
  BY <1>1, <1>2, <1>4, ClerkIs, SendTypes
<1>6. Quiet(c)
  <2>1. InOrder(c)
    BY ClerkIs
  <2> QED BY <1>1, <2>1, QuietIs
<1>7. answer' = answer /\ group' = group /\ ctl' = ctl
  BY <1>2 DEF Send, ctrler
<1>8. client'[c] = r /\ \A d \in Client : d # c => client'[d] = client[d]
  BY <1>1, <1>2
<1>9. \A d \in Controller \cup Client : InOrder(d)'
  BY <1>1, <1>3, <1>4, <1>5, <1>6, <1>7, <1>8, ClerkIs, SendOrder
<1>10. TypeInv'
  BY <1>1, <1>2, <1>3, <1>5, <1>7, <1>9, ClerkIs, ClerkGoesOn
<1> QED BY <1>1, <1>5, <1>10 DEF g, a

\* What a clerk returns, and where it goes on without a return.
LEMMA EndsIs ==
  ASSUME TypeInv, NEW c \in Client, client[c].at # "idle",
         NEW err \in Errs \cup {"ErrMaybe"}, NEW r \in ShardReplies, Ends(c, err, r)
  PROVE  done' \in [Client -> Seq(Returned)] /\ client' = [client EXCEPT ![c] = NoCall]
<1> DEFINE d == [args |-> client[c].args, floor |-> client[c].floor, err |-> err,
                 value |-> r.value, version |-> r.version]
<1>1. d \in Returned
  BY ClerkIs DEF Clerks, ShardReplies, Returned
<1>2. done' = [done EXCEPT ![c] = Append(done[c], d)] /\ client' = [client EXCEPT ![c] = NoCall]
  BY DEF Ends
<1> HIDE DEF d
<1>3. Append(done[c], d) \in Seq(Returned)
  BY <1>1, ClerkIs, AppendProperties
<1> QED BY <1>2, <1>3, ClerkIs

LEMMA AgainIs ==
  ASSUME TypeInv, NEW c \in Client, client[c].at # "idle", Again(c)
  PROVE  \E r \in Clerks : ClerkFits(r) /\ client' = [client EXCEPT ![c] = r]
<1> DEFINE r == [client[c] EXCEPT !.at = "query", !.gid = 0, !.resent = TRUE]
<1>1. r \in Clerks /\ ClerkFits(r)
  BY ClerkIs DEF Clerks, ClerkFits
<1>2. client' = [client EXCEPT ![c] = r]
  BY ClerkIs DEF Again
<1> QED BY <1>1, <1>2

LEMMA AskEndsTypes ==
  ASSUME TypeInv, NEW c \in Client, AskFails(c) \/ AskMaybe(c)
  PROVE  /\ TypeInv' /\ Gave(c) /\ \A d \in Actor : answer'[d] = answer[d]
         /\ UNCHANGED <<group, ctrler, written>>
<1>1. /\ client[c].at # "idle" /\ answer[c].err = "none" /\ Gave(c) /\ answer' = answer
      /\ group' = group /\ UNCHANGED ctrler /\ written' = written
  BY DEF AskFails, AskMaybe, Forget, Gave
<1>2. PICK r \in Clerks : ClerkFits(r) /\ client' = [client EXCEPT ![c] = r]
      /\ done' \in [Client -> Seq(Returned)]
  <2>1. CASE Again(c) /\ done' = done
    BY <1>1, <2>1, AgainIs, ClerkIs
  <2>2. CASE Ends(c, "ErrMaybe", NoAnswer)
    BY <1>1, <2>2, EndsIs, NoCallIs, EmptyTypes
  <2> QED BY <2>1, <2>2 DEF AskFails, AskMaybe
<1>3. \A d \in Client : d # c => client'[d] = client[d]
  BY <1>2, ClerkIs
<1>4. log' \in [Gid -> Seq(Entries)] /\ \A h \in Gid : Len(log'[h]) <= MaxLog
  BY <1>1, ClerkIs, GiveTypes
<1>5. \A d \in Controller \cup Client : InOrder(d)'
  <2>1. ctl' = ctl
    BY <1>1 DEF ctrler
  <2> QED BY <1>1, <1>3, <2>1, ClerkIs, GiveOrder
<1>6. TypeInv'
  BY <1>1, <1>2, <1>4, <1>5, ClerkIs, ClerkGoesOn
<1> QED BY <1>1, <1>6

LEMMA AskReturnsTypes ==
  ASSUME TypeInv, NEW c \in Client, AskReturns(c)
  PROVE  /\ TypeInv' /\ log' = log /\ \A d \in Actor : d # c => answer'[d] = answer[d]
         /\ UNCHANGED <<group, ctrler, written>>
<1>1. /\ client[c].at # "idle" /\ Take(c) /\ group' = group /\ log' = log /\ UNCHANGED ctrler
      /\ written' = written
  BY DEF AskReturns, Take
<1>2. PICK r \in Clerks : ClerkFits(r) /\ client' = [client EXCEPT ![c] = r]
      /\ done' \in [Client -> Seq(Returned)]
  <2>1. CASE Again(c) /\ done' = done
    BY <1>1, <2>1, AgainIs, ClerkIs
  <2>2. CASE Ends(c, Told(c), answer[c])
    <3>1. Told(c) \in Errs \cup {"ErrMaybe"}
      BY ClerkIs DEF Told, ShardReplies
    <3> QED BY <1>1, <2>2, <3>1, EndsIs, NoCallIs, ClerkIs
  <2> QED BY <2>1, <2>2 DEF AskReturns
<1>3. \A d \in Client : d # c => client'[d] = client[d]
  BY <1>2, ClerkIs
<1>4. /\ answer' \in [Actor -> ShardReplies] /\ \A d \in Actor : d # c => answer'[d] = answer[d]
      /\ \A d \in Controller \cup Client : InOrder(d)'
  <2>1. ctl' = ctl
    BY <1>1 DEF ctrler
  <2> QED BY <1>1, <1>3, <2>1, ClerkIs, TakeOrder
<1>6. TypeInv'
  BY <1>1, <1>2, <1>4, ClerkIs, ClerkGoesOn
<1> QED BY <1>1, <1>4, <1>6

LEMMA ExecutionKeepsTypes ==
  ASSUME TypeInv, NEW g \in Gid, NEW k \in DOMAIN log[g], Execution(g, k)
  PROVE  TypeInv'
<1>0. Types
  BY DEF TypeInv
<1>1. client' = client /\ done' = done /\ ctl' = ctl /\ pending' = pending /\ posted' = posted
  BY DEF Execution, ctrler
<1>2. PICK e, s : Executed(g, k, e, s)
  BY <1>0, ExecutionTypes
<1>3. /\ log' \in [Gid -> Seq(Entries)] /\ (\A h \in Gid : Len(log'[h]) <= MaxLog)
      /\ answer' \in [Actor -> ShardReplies] /\ written' \in [Key -> Seq(Value)]
  BY <1>0, ExecutionTypes
<1>4. group' \in [Gid -> [Shard -> Shards]]
  BY <1>2 DEF Executed
<1>5. Types'
  BY <1>0, <1>1, <1>3, <1>4 DEF Types, ClerkFits
<1>6. Keys' /\ \A d \in Controller : CtlFits(ctl[d])'
  BY <1>1 DEF TypeInv, Keys, CtlFits, Query, Good
<1>7. \A d \in Controller \cup Client : InOrder(d)'
  BY ExecutionOrder
<1> QED BY <1>5, <1>6, <1>7 DEF TypeInv

\* Every step keeps the types.
LEMMA StepTypes ==
  ASSUME TypeInv, [SKNext]_skvars
  PROVE  TypeInv'
<1>1. CASE \E c \in Controller : ControllerStep(c) /\ UNCHANGED kvs
  BY <1>1, ControllerTypes
<1>2. CASE \E c \in Client :
       CallsNext(c) \/ Locate(c) \/ AskGroup(c) \/ AskFails(c) \/ AskMaybe(c) \/ AskReturns(c)
  BY <1>2, CallsNextTypes, LocateTypes, AskGroupTypes, AskEndsTypes, AskReturnsTypes
<1>3. CASE \E g \in Gid : \E k \in DOMAIN log[g] : Execution(g, k)
  BY <1>3, ExecutionKeepsTypes
<1>4. CASE UNCHANGED skvars
  <2>1. /\ UNCHANGED <<group, log, answer>> /\ UNCHANGED <<pending, posted, ctl>>
        /\ UNCHANGED <<client, done, written>>
    BY <1>4 DEF skvars, grp, ctrler, kvs
  <2>2. Types' /\ Keys' /\ \A d \in Controller : CtlFits(ctl[d])'
    BY <2>1 DEF TypeInv, Types, Keys, CtlFits, ClerkFits, Query, Good
  <2>3. \A d \in Controller \cup Client : InOrder(d)'
    BY <2>1 DEF TypeInv, InOrder, Waits, Answered, TargetOf, CallOf
  <2> QED BY <2>2, <2>3 DEF TypeInv
<1> QED BY <1>1, <1>2, <1>3, <1>4 DEF SKNext

\* How it starts.
LEMMA FirstStores ==
  ASSUME SKInit
  PROVE  /\ group \in [Gid -> [Shard -> Shards]]
         /\ \A g \in Gid, s \in Shard :
              /\ group[g][s].highest = 0 /\ ~group[g][s].frozen
              /\ group[g][s].owned <=> g = Gid1
              /\ group[g][s].store = NoStore
<1>1. ASSUME NEW g \in Gid, NEW s \in Shard
      PROVE  [k \in Key |-> IF g = Gid1 /\ Key2Shard[k] = s THEN NoStore[k] ELSE NoRecord] = NoStore
  BY DEF NoStore
<1>2. group = [g \in Gid |-> [s \in Shard |->
       [highest |-> 0, frozen |-> FALSE, owned |-> g = Gid1,
        store |-> [k \in Key |-> IF g = Gid1 /\ Key2Shard[k] = s THEN NoStore[k] ELSE NoRecord]]]]
  BY DEF SKInit, CtrlInit, GrpInit
<1>3. \A g \in Gid, s \in Shard : group[g][s] =
        [highest |-> 0, frozen |-> FALSE, owned |-> g = Gid1, store |-> NoStore]
  BY <1>1, <1>2
<1>4. \A g \in Gid, s \in Shard :
        [highest |-> 0, frozen |-> FALSE, owned |-> g = Gid1, store |-> NoStore] \in Shards
  BY EmptyTypes DEF Shards
<1>5. group = [g \in Gid |-> [s \in Shard |-> group[g][s]]]
  BY <1>2
<1>6. \A g \in Gid : group[g] \in [Shard -> Shards]
  <2>1. \A g \in Gid, s \in Shard : group[g][s] \in Shards
    BY <1>3, <1>4
  <2>2. \A g \in Gid : group[g] = [s \in Shard |-> group[g][s]]
    BY <1>5
  <2> QED BY <2>1, <2>2
<1>7. group \in [Gid -> [Shard -> Shards]]
  <2>1. group = [g \in Gid |-> group[g]]
    BY <1>2
  <2> QED BY <1>6, <2>1
<1>8. \A g \in Gid, s \in Shard :
        /\ group[g][s].highest = 0 /\ ~group[g][s].frozen
        /\ group[g][s].owned <=> g = Gid1
        /\ group[g][s].store = NoStore
  <2>1. SUFFICES ASSUME NEW g \in Gid, NEW s \in Shard
                 PROVE  /\ group[g][s].highest = 0 /\ ~group[g][s].frozen
                        /\ group[g][s].owned <=> g = Gid1
                        /\ group[g][s].store = NoStore
    OBVIOUS
  <2>2. group[g][s] = [highest |-> 0, frozen |-> FALSE, owned |-> g = Gid1, store |-> NoStore]
    BY <1>3
  <2>3. group[g][s].highest = 0 /\ group[g][s].frozen = FALSE /\ group[g][s].store = NoStore
    BY <2>2
  <2>4. group[g][s].owned = (g = Gid1)
    BY <2>2
  <2> QED BY <2>3, <2>4
<1> QED BY <1>7, <1>8

LEMMA FirstInv ==
  ASSUME SKInit
  PROVE  TypeInv
<1>1. /\ log = [g \in Gid |-> <<>>] /\ answer = [a \in Actor |-> NoAnswer]
      /\ pending = [cfg |-> MakeShardConfig, ver |-> 0] /\ posted = [cfg |-> FirstConfig, ver |-> 1]
      /\ ctl = [c \in Controller |-> NoChange]
      /\ client = [c \in Client |-> NoCall] /\ done = [c \in Client |-> <<>>]
      /\ written = [k \in Key |-> <<>>]
  BY DEF SKInit, CtrlInit, GrpInit
<1>2. <<>> \in Seq(Entries) /\ <<>> \in Seq(Returned) /\ <<>> \in Seq(Value)
      /\ Len(<<>>) = 0 /\ DOMAIN <<>> = {}
  BY EmptySeq
<1>3. Types
  <2>1. log \in [Gid -> Seq(Entries)] /\ \A g \in Gid : Len(log[g]) <= MaxLog
    BY <1>1, <1>2, GroupAssumption
  <2>2. pending \in [cfg : Config, ver : Nat] /\ posted \in [cfg : Config, ver : Nat]
    BY <1>1, FirstTypes DEF Good
  <2>3. client \in [Client -> Clerks] /\ \A c \in Client : ClerkFits(client[c])
    BY <1>1, NoCallIs
  <2> QED BY <1>1, <1>2, <2>1, <2>2, <2>3, FirstStores, FirstTypes, EmptyTypes DEF Types
<1>4. Keys
  BY <1>1, FirstTypes DEF Keys, Query
<1>5. \A c \in Controller : CtlFits(ctl[c])
  BY <1>1, IdleFits
<1>6. ASSUME NEW c \in Controller \cup Client PROVE InOrder(c)
  <2>1. ~Answered(c)
    BY <1>1, Actors, EmptyTypes DEF Answered
  <2>2. \A g \in Gid, k \in Nat : ~Waits(c, g, k)
    BY <1>1, <1>2 DEF Waits
  <2> QED BY <2>1, <2>2 DEF InOrder
<1> QED BY <1>3, <1>4, <1>5, <1>6 DEF TypeInv

\* What is said of the types holds at any time, and every configuration in use
\* is one that CheckConfig accepts.
LEMMA TypeInvariant == SKSpec => []TypeInv
<1>1. SKInit => TypeInv
  BY FirstInv
<1>2. TypeInv /\ [SKNext]_skvars => TypeInv'
  BY StepTypes
<1> QED BY <1>1, <1>2, PTL DEF SKSpec

\* The variables have their types at any time, of any number of shards, groups
\* and controllers; only the addressee of a reply that waits has one.
THEOREM SKTypes == SKSpec => []SKTypeOK
<1>1. ASSUME TypeInv PROVE SKTypeOK
  <2>1. /\ group \in [Gid -> [Shard ->
             [highest : Nat, frozen : BOOLEAN, owned : BOOLEAN, store : [Key -> Records]]]]
        /\ \A g \in Gid : Len(log[g]) <= MaxLog
        /\ {pending.cfg, posted.cfg} \subseteq Config /\ {pending.ver, posted.ver} \subseteq Nat
        /\ \A k \in Key : written[k] \in Seq(Value)
    BY <1>1 DEF TypeInv, Types, Shards, Stores
  <2>2. ASSUME NEW c \in Controller
        PROVE  /\ ctl[c].new \in Config /\ ctl[c].shard \in Shard /\ ctl[c].old \in Gid \cup {0}
               /\ answer[c].err # "none" => ctl[c].step = "wait"
    BY <1>1 DEF TypeInv, Types, Ctls, InOrder, Answered
  <2>3. ASSUME NEW c \in Client PROVE answer[c].err # "none" => client[c].at = "wait"
    BY <1>1 DEF TypeInv, InOrder, Answered
  <2> QED BY <2>1, <2>2, <2>3 DEF SKTypeOK
<1> QED BY <1>1, TypeInvariant, PTL

-----------------------------------------------------------------------------
(* The move of the shards.  A configuration is in the making while what is *)
(* pending is one ahead of what is posted.  From(s) is the group that      *)
(* gives shard s and To(s) the one that gets it.                           *)

Changing == pending.cfg.Num = Query.Num + 1
From(s) == GidServers(Query, s)
To(s) == GidServers(pending.cfg, s)
Moves(s) == Changing /\ From(s) # To(s)
Reached(g, s) == group[g][s].highest = Query.Num + 1

\* A group that no call of this change has reached owns what the posted
\* configuration says.  The first one that is reached is From(s): it keeps its
\* copy, frozen, at least until To(s) serves the shard.
Settled(g, s) == (Owns(g, s) <=> g = From(s)) /\ (Owns(g, s) => Serves(g, s))
InMove(g, s) ==
  /\ Moves(s) /\ Reached(g, s)
  /\ \/ g = To(s) /\ Serves(g, s) /\ Reached(From(s), s)
     \/ g = From(s) /\ Owns(g, s) /\ ~Serves(g, s)
     \/ g = From(s) /\ ~Owns(g, s) /\ Reached(To(s), s)
Placed == \A g \in Gid, s \in Shard :
  /\ IF group[g][s].highest <= Query.Num THEN Settled(g, s) ELSE InMove(g, s)
  /\ ~Owns(g, s) => group[g][s].store = NoStore

\* Who serves a shard, and who is frozen before another one serves it, has all
\* that was written.
HasAll(store, s) == \A k \in Key : Key2Shard[k] = s => store[k] = Latest(k)
UpToDate == \A g \in Gid, s \in Shard :
  Owns(g, s) /\ (Serves(g, s) \/ (Moves(s) /\ ~Reached(To(s), s))) => HasAll(group[g][s].store, s)

\* A call of an earlier change has no effect any more; one of this change comes
\* when it is its turn.
Spent(op, g, s, n) ==
  group[g][s].highest >= n /\ (group[g][s].highest = n => (Owns(g, s) <=> op = "Install"))
Due(op, g, s, state) ==
  /\ Moves(s)
  /\ op # "Install" => g = From(s)
  /\ op = "Install" => g = To(s) /\ Reached(From(s), s) /\ (Reached(g, s) \/ HasAll(state, s))
  /\ op = "Delete" => Reached(To(s), s)
Sound(a, g) ==
  /\ a.num <= Query.Num + 1
  /\ IF a.num <= Query.Num THEN Spent(a.op, g, a.shard, a.num) ELSE Due(a.op, g, a.shard, a.state)
Ordered(g, a) == \E k \in DOMAIN log[g] : log[g][k].args = a
Orders == \A g \in Gid, a \in ShardCalls : Ordered(g, a) => Sound(a, g)

\* Shard s has moved, if it had to.
Moved(s) == Moves(s) => Reached(From(s), s) /\ ~Owns(From(s), s) /\ Reached(To(s), s)

\* The state r of a controller.  One that is not superseded works for the
\* pending configuration, and has moved all the shards before its own.
Ahead(r) == r.new.Num > Query.Num
Working(r) == r.at \in {"shard", "post", "put"} \cup Phases
CtlSound(r) ==
  /\ Working(r) => /\ pending.ver > 0 /\ r.new.Num <= pending.cfg.Num
                   /\ Ahead(r) => r.new = pending.cfg
  /\ r.at \in {"recover", "pending", "create", "replace"} => r.shard = 0
  /\ r.at = "replace" =>
       r.ver <= pending.ver /\ (r.ver = pending.ver => pending.cfg.Num < r.new.Num)
  /\ Working(r) /\ Ahead(r) =>
       \A s \in Shard : s < r.shard \/ r.at \in {"post", "put"} => Moved(s)
  /\ r.at \in Phases =>
       IF Ahead(r) THEN r.old = From(r.shard) /\ Due(r.at, TargetOf(r), r.shard, r.state)
       ELSE /\ Spent("Freeze", r.old, r.shard, r.new.Num)
            /\ Spent("Install", GidServers(r.new, r.shard), r.shard, r.new.Num)
            /\ Spent("Delete", r.old, r.shard, r.new.Num)

\* The reply a to a controller in state r.
AnswerSound(r, a) ==
  /\ a.err = "ErrStale" => ~Ahead(r)
  /\ a.err = "OK" /\ Ahead(r) =>
       /\ Moves(r.shard)
       /\ r.at = "Freeze" => /\ Reached(From(r.shard), r.shard)
                             /\ Reached(To(r.shard), r.shard) \/ HasAll(a.state, r.shard)
       /\ r.at = "Install" => Reached(To(r.shard), r.shard)
       /\ r.at = "Delete" => Reached(From(r.shard), r.shard) /\ ~Owns(From(r.shard), r.shard)

Hold ==
  /\ Placed /\ UpToDate /\ Orders
  /\ \A c \in Controller, r \in Ctls : ctl[c] = r => CtlSound(r)
  /\ \A c \in Controller, r \in Ctls, a \in ShardReplies :
       ctl[c] = r /\ answer[c] = a => AnswerSound(r, a)

-----------------------------------------------------------------------------
(* What follows at once.                                                   *)

LEMMA WorldIs ==
  ASSUME TypeInv
  PROVE  /\ Query.Num \in Nat /\ pending.cfg.Num \in Nat /\ pending.ver \in Nat
         /\ \A s \in Shard : From(s) \in Gid
         /\ \A s \in Shard : Moves(s) => To(s) \in Gid /\ To(s) # From(s) /\ pending.ver # 0
         /\ \A g \in Gid, s \in Shard :
              group[g][s] \in Shards /\ group[g][s].highest \in Nat
<1>1. /\ Query.Num \in Nat /\ pending.cfg.Num \in Nat /\ Query.Num >= 1 /\ pending.ver \in Nat
      /\ Good(Query)
      /\ pending.ver # 0 => Good(pending.cfg)
      /\ pending.ver = 0 => pending.cfg.Num = 0
      /\ group \in [Gid -> [Shard -> Shards]]
  BY DEF TypeInv, Keys, Types, Config, Query
<1>2. \A s \in Shard : From(s) \in Gid
  BY <1>1, GoodIs DEF From
<1>3. ASSUME NEW s \in Shard, Moves(s) PROVE To(s) \in Gid /\ To(s) # From(s) /\ pending.ver # 0
  <2>1. pending.ver # 0
    BY <1>1, <1>3 DEF Moves, Changing
  <2> QED BY <1>1, <1>3, <2>1, GoodIs DEF To, Moves
<1>4. ASSUME NEW g \in Gid, NEW s \in Shard
      PROVE group[g][s] \in Shards /\ group[g][s].highest \in Nat
  <2>1. group[g][s] \in Shards
    BY <1>1
  <2> QED BY <2>1 DEF Shards
<1> QED BY <1>1, <1>2, <1>3, <1>4

LEMMA Bounded ==
  ASSUME TypeInv, Placed, NEW g \in Gid, NEW s \in Shard
  PROVE  /\ group[g][s].highest <= Query.Num + 1
         /\ group[g][s].highest <= Query.Num <=> ~Reached(g, s)
         /\ ~Reached(g, s) => Settled(g, s)
         /\ Reached(g, s) => InMove(g, s)
         /\ ~Owns(g, s) => group[g][s].store = NoStore
<1>1. group[g][s].highest \in Nat /\ Query.Num \in Nat
  BY WorldIs
<1> QED BY <1>1 DEF Placed, InMove, Reached

\* At most one group serves a shard; while the shard is under way, another one
\* may have a frozen copy.
LEMMA OneServer ==
  ASSUME TypeInv, Placed, NEW g \in Gid, NEW h \in Gid, NEW s \in Shard,
         Serves(g, s), Owns(h, s), Serves(h, s) \/ (Moves(s) /\ ~Reached(To(s), s))
  PROVE  g = h
<1>1. Owns(g, s)
  BY DEF Serves
<1>2. CASE ~Reached(g, s)
  <2>1. g = From(s)
    BY <1>1, <1>2, Bounded DEF Settled
  <2>2. CASE ~Reached(h, s)
    BY <2>1, <2>2, Bounded DEF Settled
  <2>3. CASE Reached(h, s)
    BY <1>2, <2>1, <2>3, Bounded DEF InMove
  <2> QED BY <2>2, <2>3
<1>3. CASE Reached(g, s)
  <2>1. g = To(s) /\ Reached(From(s), s)
    BY <1>1, <1>3, Bounded DEF InMove
  <2>2. CASE ~Reached(h, s)
    BY <2>1, <2>2, Bounded DEF Settled
  <2>3. CASE Reached(h, s)
    BY <1>3, <2>1, <2>3, Bounded DEF InMove
  <2> QED BY <2>2, <2>3
<1> QED BY <1>2, <1>3

\* While a shard is under way nobody serves it.
LEMMA NobodyServes ==
  ASSUME TypeInv, Placed, NEW g \in Gid, NEW s \in Shard, Serves(g, s), Reached(From(s), s)
  PROVE  Reached(To(s), s)
<1>1. Owns(g, s)
  BY DEF Serves
<1>2. CASE ~Reached(g, s)
  BY <1>1, <1>2, Bounded DEF Settled
<1>3. CASE Reached(g, s)
  BY <1>1, <1>3, Bounded DEF InMove
<1> QED BY <1>2, <1>3

-----------------------------------------------------------------------------
(* What stays when the world goes on.                                      *)

\* A step of the groups, or none.
Onward ==
  /\ pending' = pending /\ posted' = posted
  /\ \A g \in Gid, s \in Shard :
       /\ group'[g][s].highest >= group[g][s].highest
       /\ group'[g][s].highest = group[g][s].highest =>
            \/ Owns(g, s)' <=> Owns(g, s)
            \/ Reached(g, s) /\ Owns(g, s) /\ ~Owns(g, s)'
  /\ \A s \in Shard : Moves(s) /\ Reached(From(s), s) /\ ~Reached(To(s), s) =>
       \A k \in Key : Key2Shard[k] = s => Latest(k)' = Latest(k)

LEMMA OnwardKeeps ==
  ASSUME TypeInv, TypeInv', Placed, Placed', Onward
  PROVE  /\ Query' = Query
         /\ \A s : From(s)' = From(s) /\ To(s)' = To(s) /\ (Moves(s)' <=> Moves(s))
         /\ \A g \in Gid, s \in Shard : Reached(g, s) => Reached(g, s)'
         /\ \A g \in Gid, s \in Shard : Reached(g, s) /\ ~Owns(g, s) => ~Owns(g, s)'
         /\ \A s \in Shard : Moved(s) => Moved(s)'
         /\ \A state : \A s \in Shard : Moves(s) /\ Reached(From(s), s)
              /\ (Reached(To(s), s) \/ HasAll(state, s)) => (Reached(To(s), s) \/ HasAll(state, s))'
         /\ \A op : \A g \in Gid, s \in Shard, n \in Nat :
              n <= Query.Num /\ Spent(op, g, s, n) => Spent(op, g, s, n)'
<1>1. Query' = Query
      /\ \A s : From(s)' = From(s) /\ To(s)' = To(s) /\ (Moves(s)' <=> Moves(s))
  BY DEF Onward, Query, From, To, Moves, Changing
<1>2. ASSUME NEW g \in Gid, NEW s \in Shard
      PROVE  /\ group[g][s].highest \in Nat /\ group'[g][s].highest \in Nat /\ Query.Num \in Nat
             /\ group'[g][s].highest >= group[g][s].highest
             /\ group[g][s].highest <= Query.Num + 1 /\ group'[g][s].highest <= Query.Num + 1
  <2>1. group[g][s].highest \in Nat /\ Query.Num \in Nat
    BY WorldIs
  <2>2. group'[g][s].highest \in Nat
    BY DEF TypeInv, Types, Shards
  <2>3. Placed'
    OBVIOUS
  <2>4. group'[g][s].highest <= Query.Num + 1
    BY <1>1, <2>1, <2>2, <2>3 DEF Placed, InMove, Reached
  <2> QED BY <2>1, <2>2, <2>4, Bounded DEF Onward
<1>3. \A g \in Gid, s \in Shard : Reached(g, s) => Reached(g, s)'
  <2>1. SUFFICES ASSUME NEW g \in Gid, NEW s \in Shard, Reached(g, s) PROVE Reached(g, s)'
    OBVIOUS
  <2> QED BY <1>1, <1>2, <2>1 DEF Reached
<1>4. \A g \in Gid, s \in Shard : Reached(g, s) /\ ~Owns(g, s) => ~Owns(g, s)'
  <2>1. SUFFICES ASSUME NEW g \in Gid, NEW s \in Shard, Reached(g, s), ~Owns(g, s) PROVE ~Owns(g, s)'
    OBVIOUS
  <2>2. group'[g][s].highest = group[g][s].highest
    BY <1>2, <2>1 DEF Reached
  <2> QED BY <2>1, <2>2 DEF Onward
<1>5. ASSUME NEW s \in Shard, Moved(s) PROVE Moved(s)'
  <2>1. CASE Moves(s)
    <3>1. From(s) \in Gid /\ To(s) \in Gid
      BY <2>1, WorldIs
    <3>2. Reached(From(s), s) /\ ~Owns(From(s), s) /\ Reached(To(s), s)
      BY <1>5, <2>1 DEF Moved
    <3> DEFINE f == From(s)
               t == To(s)
    <3>3. f' = f /\ t' = t
      BY <1>1
    <3>4. (Reached(f, s) => group'[f][s].highest = Query'.Num + 1)
          /\ (Reached(t, s) => group'[t][s].highest = Query'.Num + 1)
          /\ (Reached(f, s) /\ ~Owns(f, s) => ~group'[f][s].owned)
      <4>1. \A g \in Gid, r \in Shard : Reached(g, r) => group'[g][r].highest = Query'.Num + 1
        BY <1>3 DEF Reached
      <4>2. \A g \in Gid, r \in Shard : Reached(g, r) /\ ~Owns(g, r) => ~group'[g][r].owned
        BY <1>4 DEF Owns
      <4> QED BY <3>1, <4>1, <4>2
    <3> QED BY <3>2, <3>3, <3>4 DEF Moved, Reached, Owns
  <2>2. CASE ~Moves(s)
    BY <1>1, <2>2 DEF Moved
  <2> QED BY <2>1, <2>2
<1>6. ASSUME NEW s \in Shard, NEW state, Moves(s), Reached(From(s), s),
             Reached(To(s), s) \/ HasAll(state, s)
      PROVE  (Reached(To(s), s) \/ HasAll(state, s))'
  <2>1. CASE Reached(To(s), s)
    <3>1. To(s) \in Gid
      BY <1>6, WorldIs
    <3> DEFINE t == To(s)
    <3>2. t' = t
      BY <1>1
    <3>3. \A g \in Gid, r \in Shard : Reached(g, r) => group'[g][r].highest = Query'.Num + 1
      BY <1>3 DEF Reached
    <3>4. group'[t][s].highest = Query'.Num + 1
      BY <2>1, <3>1, <3>3
    <3> QED BY <3>2, <3>4 DEF Reached
  <2>2. CASE ~Reached(To(s), s)
    BY <1>6, <2>2 DEF Onward, HasAll
  <2> QED BY <2>1, <2>2
<1>7. ASSUME NEW g \in Gid, NEW s \in Shard, NEW op, NEW n \in Nat, n <= Query.Num,
             Spent(op, g, s, n)
      PROVE  Spent(op, g, s, n)'
  <2>1. group'[g][s].highest >= n
    BY <1>2, <1>7 DEF Spent
  <2>2. ASSUME group'[g][s].highest = n PROVE group'[g][s].owned <=> op = "Install"
    <3>1. group[g][s].highest = n /\ ~Reached(g, s)
      BY <1>2, <1>7, <2>2 DEF Spent, Reached
    <3>2. Owns(g, s)' <=> Owns(g, s)
      BY <2>2, <3>1 DEF Onward
    <3> QED BY <1>7, <3>1, <3>2 DEF Spent, Owns
  <2> QED BY <2>1, <2>2 DEF Spent, Owns
<1> QED BY <1>1, <1>3, <1>4, <1>5, <1>6, <1>7

LEMMA SpentStays ==
  ASSUME TypeInv, TypeInv', Placed, Placed', Onward,
         NEW g \in Gid, NEW s \in Shard, NEW op, NEW n \in Nat, n <= Query.Num, Spent(op, g, s, n)
  PROVE  Spent(op, g, s, n)'
BY OnwardKeeps

LEMMA SoundStays ==
  ASSUME TypeInv, TypeInv', Placed, Placed', Onward, NEW g \in Gid, NEW a \in ShardCalls, Sound(a, g)
  PROVE  Sound(a, g)'
<1>0. a.num \in Nat /\ a.shard \in Shard /\ a.num <= Query.Num + 1 /\ Query' = Query
      /\ Query.Num \in Nat
  BY OnwardKeeps, WorldIs DEF ShardCalls, Sound
<1>1. CASE a.num <= Query.Num
  <2>1. Spent(a.op, g, a.shard, a.num)
    BY <1>1 DEF Sound
  <2>2. Spent(a.op, g, a.shard, a.num)'
    BY <1>0, <1>1, <2>1, SpentStays
  <2> QED BY <1>0, <1>1, <2>2 DEF Sound
<1>2. CASE ~(a.num <= Query.Num)
  <2> DEFINE s == a.shard
  <2>1. Due(a.op, g, s, a.state)
    BY <1>2 DEF Sound
  <2>2. Moves(s) /\ s \in Shard
    BY <1>0, <2>1 DEF Due
  <2> HIDE DEF s
  <2>3. From(s) \in Gid /\ To(s) \in Gid /\ From(s)' = From(s) /\ To(s)' = To(s) /\ Moves(s)'
    BY <2>2, WorldIs, OnwardKeeps
  <2>4. PICK f \in Gid, t \in Gid : f = From(s) /\ t = To(s) /\ f = From(s)' /\ t = To(s)'
    BY <2>3
  <2>5. (Reached(f, s) => Reached(f, s)') /\ (Reached(t, s) => Reached(t, s)')
    BY <2>2, <2>4, OnwardKeeps
  <2>6. Reached(f, s)' <=> Reached(From(s), s)'
    BY <2>4 DEF Reached
  <2>7. Reached(t, s)' <=> Reached(To(s), s)'
    BY <2>4 DEF Reached
  <2>8. a.op = "Install" => (Reached(To(s), s) \/ HasAll(a.state, s))'
    BY <2>1, <2>2, OnwardKeeps DEF Due
  <2>9. a.op = "Install" => g = t /\ (Reached(t, s) \/ HasAll(a.state, s))'
    BY <2>1, <2>4, <2>7, <2>8 DEF Due
  <2>10. Due(a.op, g, s, a.state)'
    BY <2>1, <2>3, <2>4, <2>5, <2>6, <2>7, <2>9 DEF Due
  <2> QED BY <1>0, <1>2, <2>10 DEF Sound, s
<1> QED BY <1>1, <1>2

LEMMA CtlSoundStays ==
  ASSUME TypeInv, TypeInv', Placed, Placed', Onward, NEW r \in Ctls, CtlFits(r), CtlSound(r)
  PROVE  CtlSound(r)'
<1>0. /\ pending' = pending /\ Query' = Query /\ Query.Num \in Nat /\ r.new.Num \in Nat
      /\ r.new \in Config /\ r.shard \in Shard /\ r.state \in Stores
  BY OnwardKeeps, WorldIs DEF Ctls, Config, Onward
<1>1. Ahead(r)' <=> Ahead(r)
  BY <1>0 DEF Ahead
<1>2. \A s \in Shard : Moved(s) => Moved(s)'
  BY OnwardKeeps
<1>3. ASSUME r.at \in Phases, Ahead(r)
      PROVE  r.old = From(r.shard)' /\ Due(r.at, TargetOf(r), r.shard, r.state)'
  <2> DEFINE a == CallOf(r)
             g == TargetOf(r)
  <2>1. a \in ShardCalls /\ g \in Gid /\ a.op = r.at /\ a.shard = r.shard /\ a.num = r.new.Num
        /\ a.state = r.state
    BY <1>3, CallIs
  <2>2. r.new.Num <= Query.Num + 1 /\ ~(r.new.Num <= Query.Num)
    BY <1>0, <1>3 DEF CtlFits, Ahead, Phases
  <2>3. r.old = From(r.shard) /\ Due(r.at, g, r.shard, r.state)
    BY <1>3 DEF CtlSound
  <2> HIDE DEF a, g
  <2>4. Sound(a, g)
    BY <2>1, <2>2, <2>3 DEF Sound
  <2>5. Sound(a, g)'
    BY <2>1, <2>4, SoundStays
  <2>6. Due(a.op, g, a.shard, a.state)'
    BY <1>0, <2>1, <2>2, <2>5 DEF Sound
  <2>7. From(r.shard)' = From(r.shard)
    BY OnwardKeeps
  <2>8. Due(r.at, g, r.shard, r.state)'
    BY <2>1, <2>6 DEF Due
  <2> QED BY <2>3, <2>7, <2>8 DEF g
<1>4. ASSUME r.at \in Phases, ~Ahead(r)
      PROVE  /\ Spent("Freeze", r.old, r.shard, r.new.Num)'
             /\ Spent("Install", GidServers(r.new, r.shard), r.shard, r.new.Num)'
             /\ Spent("Delete", r.old, r.shard, r.new.Num)'
  <2>1. r.old \in Gid /\ GidServers(r.new, r.shard) \in Gid
    BY <1>0, <1>4, GoodIs DEF CtlFits, Phases
  <2>2. r.new.Num <= Query.Num
    BY <1>0, <1>4 DEF Ahead
  <2>3. PICK i \in Gid : i = GidServers(r.new, r.shard)
    BY <2>1
  <2>4. /\ Spent("Freeze", r.old, r.shard, r.new.Num) /\ Spent("Install", i, r.shard, r.new.Num)
        /\ Spent("Delete", r.old, r.shard, r.new.Num)
    BY <1>4, <2>3 DEF CtlSound
  <2>5. /\ Spent("Freeze", r.old, r.shard, r.new.Num)' /\ Spent("Install", i, r.shard, r.new.Num)'
        /\ Spent("Delete", r.old, r.shard, r.new.Num)'
    BY <1>0, <2>1, <2>2, <2>4, SpentStays
  <2> QED BY <2>3, <2>5
<1> QED BY <1>0, <1>1, <1>2, <1>3, <1>4 DEF CtlSound

LEMMA AnswerSoundStays ==
  ASSUME TypeInv, TypeInv', Placed, Placed', Onward, NEW r \in Ctls, NEW a, AnswerSound(r, a)
  PROVE  AnswerSound(r, a)'
<1>0. Query' = Query /\ r.shard \in Shard
  BY OnwardKeeps DEF Ctls
<1>1. Ahead(r)' <=> Ahead(r)
  BY <1>0 DEF Ahead
<1>2. ASSUME a.err = "OK", Ahead(r)
      PROVE  /\ Moves(r.shard)'
             /\ r.at = "Freeze" => /\ Reached(From(r.shard), r.shard)'
                                   /\ (Reached(To(r.shard), r.shard) \/ HasAll(a.state, r.shard))'
             /\ r.at = "Install" => Reached(To(r.shard), r.shard)'
             /\ r.at = "Delete" => Reached(From(r.shard), r.shard)' /\ ~Owns(From(r.shard), r.shard)'
  <2>1. PICK s \in Shard : s = r.shard
    BY <1>0
  <2>2. Moves(s) /\ Moves(s)'
    BY <1>2, <2>1, OnwardKeeps DEF AnswerSound
  <2>3. From(s) \in Gid /\ To(s) \in Gid /\ From(s)' = From(s) /\ To(s)' = To(s)
    BY <2>2, WorldIs, OnwardKeeps
  <2>4. PICK f \in Gid, t \in Gid : f = From(s) /\ t = To(s) /\ f = From(s)' /\ t = To(s)'
    BY <2>3
  <2>5. /\ Reached(f, s) => Reached(f, s)'
        /\ Reached(t, s) => Reached(t, s)'
        /\ Reached(f, s) /\ ~Owns(f, s) => ~Owns(f, s)'
    BY <2>4, OnwardKeeps
  <2>6. (Reached(f, s)' <=> Reached(From(s), s)') /\ (Reached(t, s)' <=> Reached(To(s), s)')
        /\ (Owns(f, s)' <=> Owns(From(s), s)')
    BY <2>4 DEF Reached, Owns
  <2>7. r.at = "Freeze" => Reached(f, s) /\ (Reached(To(s), s) \/ HasAll(a.state, s))
    BY <1>2, <2>1, <2>4 DEF AnswerSound
  <2>8. r.at = "Freeze" => (Reached(To(s), s) \/ HasAll(a.state, s))'
    BY <2>2, <2>4, <2>7, OnwardKeeps
  <2>9. /\ r.at = "Install" => Reached(t, s)
        /\ r.at = "Delete" => Reached(f, s) /\ ~Owns(f, s)
    BY <1>2, <2>1, <2>4 DEF AnswerSound
  <2> QED BY <2>1, <2>2, <2>5, <2>6, <2>7, <2>8, <2>9
<1> QED BY <1>0, <1>1, <1>2 DEF AnswerSound

\* Nobody serves, stores or is told anything new: a step of the controllers
\* among themselves or of a clerk.
Idly == UNCHANGED <<group, pending, posted, written>>

LEMMA IdlyOnward ==
  ASSUME TypeInv, Placed, UpToDate, Idly
  PROVE  Onward /\ Placed' /\ UpToDate'
<1>1. group' = group /\ pending' = pending /\ posted' = posted /\ written' = written
  BY DEF Idly
<1>2. \A g, s : Owns(g, s)' <=> Owns(g, s)
  BY <1>1 DEF Owns
<1>3. \A k : Latest(k)' = Latest(k)
  BY <1>1 DEF Latest
<1>4. ASSUME NEW g \in Gid, NEW s \in Shard
      PROVE  group'[g][s].highest >= group[g][s].highest
  BY <1>1, WorldIs
<1>5. Onward
  BY <1>1, <1>2, <1>3, <1>4 DEF Onward
<1>6. Placed'
  BY <1>1 DEF Placed, Settled, InMove, Owns, Serves, Reached, Moves, Changing, From, To, Query
<1>7. UpToDate'
  BY <1>1, <1>3 DEF UpToDate, HasAll, Owns, Serves, Reached, Moves, Changing, From, To, Query
<1> QED BY <1>5, <1>6, <1>7

LEMMA HoldsOn ==
  ASSUME TypeInv, TypeInv', Hold, Onward, Placed', UpToDate',
         \A g \in Gid, a \in ShardCalls : Ordered(g, a)' => Ordered(g, a) \/ Sound(a, g),
         \A d \in Controller, r \in Ctls : ctl'[d] = r => ctl[d] = r \/ (CtlFits(r) /\ CtlSound(r)),
         \A d \in Controller, r \in Ctls, a \in ShardReplies : ctl'[d] = r /\ answer'[d] = a =>
           (ctl[d] = r /\ answer[d] = a) \/ a.err = "none" \/ AnswerSound(r, a)'
  PROVE  Hold'
<1>0. Placed /\ UpToDate /\ Orders
  BY DEF Hold
<1>1. Orders'
  <2>1. SUFFICES ASSUME NEW g \in Gid, NEW a \in ShardCalls, Ordered(g, a)' PROVE Sound(a, g)'
    BY DEF Orders
  <2>2. Sound(a, g)
    BY <1>0, <2>1 DEF Orders
  <2> QED BY <1>0, <2>2, SoundStays
<1>2. ASSUME NEW d \in Controller, NEW r \in Ctls, ctl'[d] = r PROVE CtlSound(r)'
  <2>1. CtlFits(r) /\ CtlSound(r)
    <3>1. CASE ctl[d] = r
      BY <3>1 DEF TypeInv, Hold
    <3> QED BY <1>2, <3>1
  <2> QED BY <1>0, <2>1, CtlSoundStays
<1>3. ASSUME NEW d \in Controller, NEW r \in Ctls, NEW a \in ShardReplies,
             ctl'[d] = r, answer'[d] = a
      PROVE  AnswerSound(r, a)'
  <2>1. CASE ctl[d] = r /\ answer[d] = a
    <3>1. AnswerSound(r, a)
      BY <2>1 DEF Hold
    <3> QED BY <1>0, <3>1, AnswerSoundStays
  <2>2. CASE a.err = "none"
    BY <2>2 DEF AnswerSound
  <2> QED BY <1>3, <2>1, <2>2
<1>4. Placed' /\ UpToDate'
  OBVIOUS
<1> QED BY <1>1, <1>2, <1>3, <1>4 DEF Hold

\* A step of controller c, to r, that changes nothing else, but for a call.
LEMMA IdleMove ==
  ASSUME TypeInv, TypeInv', Hold, Idly, NEW c \in Controller, NEW r \in Ctls, CtlFits(r), CtlSound(r),
         Goes(c, r), answer'[c].err = "none", \A d \in Actor : d # c => answer'[d] = answer[d],
         \A g \in Gid, a \in ShardCalls : Ordered(g, a)' => Ordered(g, a) \/ Sound(a, g)
  PROVE  Hold'
<1>0. Placed /\ UpToDate
  BY DEF Hold
<1>1. Onward /\ Placed' /\ UpToDate'
  BY <1>0, IdlyOnward
<1>2. ctl' = [ctl EXCEPT ![c] = r] /\ ctl \in [Controller -> Ctls] /\ Controller \subseteq Actor
  BY CtlIs, Actors DEF Goes
<1>3. ctl'[c] = r /\ \A d \in Controller : d # c => ctl'[d] = ctl[d] /\ answer'[d] = answer[d]
  BY <1>2
<1>4. ASSUME NEW d \in Controller, NEW q \in Ctls, ctl'[d] = q
      PROVE  ctl[d] = q \/ (CtlFits(q) /\ CtlSound(q))
  BY <1>3, <1>4
<1>5. ASSUME NEW d \in Controller, NEW q \in Ctls, NEW a \in ShardReplies, ctl'[d] = q, answer'[d] = a
      PROVE  (ctl[d] = q /\ answer[d] = a) \/ a.err = "none"
  BY <1>3, <1>5
<1> QED BY <1>1, <1>4, <1>5, HoldsOn

\* One that does not wait: nothing changes but where it is.
LEMMA QuietMove ==
  ASSUME TypeInv, TypeInv', Hold, NEW c \in Controller, NEW r \in Ctls, CtlFits(r), CtlSound(r),
         Goes(c, r), ctl[c].step # "wait", UNCHANGED <<grp, pending, posted>>, UNCHANGED kvs
  PROVE  Hold'
<1>1. Idly /\ log' = log /\ answer' = answer
  BY DEF Idly, grp, kvs
<1>2. answer[c].err = "none"
  <2>1. InOrder(c)
    BY DEF TypeInv
  <2> QED BY <2>1, QuietIs DEF Quiet, Answered
<1>3. ASSUME NEW g \in Gid, NEW a \in ShardCalls, Ordered(g, a)' PROVE Ordered(g, a)
  BY <1>1, <1>3 DEF Ordered
<1> QED BY <1>1, <1>2, <1>3, IdleMove

\* A step of a clerk.
LEMMA ClerkMove ==
  ASSUME TypeInv, TypeInv', Hold, Idly, ctl' = ctl,
         \A d \in Controller : answer'[d] = answer[d],
         \A g \in Gid, a \in ShardCalls : Ordered(g, a)' => Ordered(g, a)
  PROVE  Hold'
<1>0. Placed /\ UpToDate
  BY DEF Hold
<1>1. Onward /\ Placed' /\ UpToDate'
  BY <1>0, IdlyOnward
<1> QED BY <1>1, HoldsOn

-----------------------------------------------------------------------------
(* The steps of the controllers.                                           *)

LEMMA CtlOf ==
  ASSUME TypeInv, Hold, NEW c \in Controller
  PROVE  CtlSound(ctl[c]) /\ (Ahead(ctl[c]) <=> ~Superseded(c)) /\ AnswerSound(ctl[c], answer[c])
<1>1. ctl[c] \in Ctls /\ Query.Num \in Nat /\ ctl[c].new.Num \in Nat
  BY CtlIs
<1>2. answer[c] \in ShardReplies
  BY Actors DEF TypeInv, Types
<1>3. CtlSound(ctl[c]) /\ AnswerSound(ctl[c], answer[c])
  BY <1>1, <1>2 DEF Hold
<1> QED BY <1>1, <1>3 DEF Ahead, Superseded

LEMMA IdleSound == CtlSound(NoChange)
BY FirstTypes DEF CtlSound, Working, Phases

\* Before the shards.
LEMMA BeforeSound ==
  ASSUME NEW r, r.at \in {"recover", "pending", "create"}, r.shard = 0
  PROVE  CtlSound(r)
BY DEF CtlSound, Working, Phases

LEMMA StartHolds ==
  ASSUME TypeInv, TypeInv', Hold, NEW c \in Controller, UNCHANGED kvs,
         Start(c) \/ Recover(c) \/ Resume(c)
  PROVE  Hold'
<1>1. ctl[c].at \in {"idle", "recover"} /\ ctl[c].step # "wait"
      /\ UNCHANGED <<grp, pending, posted>>
  BY CtlIs DEF Start, Recover, Resume, Phases
<1>2. PICK r : Goes(c, r) /\ CtlSound(r)
  <2>1. CASE Start(c)
    <3>1. PICK new : Goes(c, [NoChange EXCEPT !.at = "pending", !.new = new])
      BY <2>1 DEF Start
    <3> DEFINE r == [NoChange EXCEPT !.at = "pending", !.new = new]
    <3>2. r.at = "pending" /\ r.shard = 0
      BY DEF NoChange
    <3>3. Goes(c, r)
      BY <3>1
    <3> HIDE DEF r
    <3>4. CtlSound(r)
      BY <3>2, BeforeSound
    <3> QED BY <3>3, <3>4
  <2>2. CASE Recover(c)
    <3> DEFINE r == [NoChange EXCEPT !.at = "recover", !.new = pending.cfg]
    <3>2. r.at = "recover" /\ r.shard = 0
      BY DEF NoChange
    <3>3. Goes(c, r)
      BY <2>2 DEF Recover
    <3> HIDE DEF r
    <3>4. CtlSound(r)
      BY <3>2, BeforeSound
    <3> QED BY <3>3, <3>4
  <2>3. CASE Resume(c)
    <3>1. Goes(c, NoChange) \/ Goes(c, AtStep(c, "pending"))
      BY <2>3 DEF Resume
    <3>2. AtStep(c, "pending").at = "pending" /\ AtStep(c, "pending").shard = 0
      BY <2>3, CtlOf, CtlIs DEF Resume, AtStep, CtlSound, Ctls
    <3> QED BY <3>1, <3>2, BeforeSound, IdleSound
  <2> QED BY <2>1, <2>2, <2>3
<1>3. r \in Ctls /\ CtlFits(r)
  <2>1. ctl' = [ctl EXCEPT ![c] = r] /\ ctl \in [Controller -> Ctls] /\ posted' = posted
    BY <1>1, <1>2, CtlIs DEF Goes
  <2>2. ctl'[c] = r
    BY <2>1
  <2>3. CtlFits(ctl'[c]) <=> CtlFits(ctl[c])'
    BY <2>1 DEF CtlFits, Query, Good
  <2> QED BY <2>2, <2>3 DEF TypeInv, Types
<1> QED BY <1>1, <1>2, <1>3, QuietMove

\* A controller begins to move the shards only of what is pending.
LEMMA GetPendingHolds ==
  ASSUME TypeInv, TypeInv', Hold, NEW c \in Controller, UNCHANGED kvs, GetPending(c)
  PROVE  Hold'
<1>1. ctl[c].at = "pending" /\ ctl[c].step # "wait" /\ UNCHANGED <<grp, pending, posted>>
      /\ ctl[c].shard = 0
  BY CtlIs, CtlOf DEF GetPending, Phases, CtlSound
<1>2. PICK r : Goes(c, r) /\ CtlSound(r)
  <2>1. CASE pending.ver = 0
    <3>1. AtStep(c, "create").at = "create" /\ AtStep(c, "create").shard = 0
      BY <1>1, CtlIs DEF AtStep, Ctls
    <3>2. Goes(c, AtStep(c, "create"))
      BY <2>1 DEF GetPending
    <3> QED BY <3>1, <3>2, BeforeSound
  <2>2. CASE pending.ver # 0 /\ pending.cfg.Num < ctl[c].new.Num
    <3> DEFINE r == [AtStep(c, "replace") EXCEPT !.ver = pending.ver]
    <3>1. r.at = "replace" /\ r.shard = 0 /\ r.ver = pending.ver /\ r.new = ctl[c].new
      BY <1>1, CtlIs DEF AtStep, Ctls
    <3>2. Goes(c, r)
      BY <2>2, CtlIs DEF GetPending
    <3> HIDE DEF r
    <3>3. CtlSound(r)
      BY <2>2, <3>1, CtlIs DEF CtlSound, Working, Phases
    <3> QED BY <3>2, <3>3
  <2>3. CASE pending.ver # 0 /\ ~(pending.cfg.Num < ctl[c].new.Num)
    <3> DEFINE r == [AtStep(c, "shard") EXCEPT !.new = pending.cfg]
    <3>1. r.at = "shard" /\ r.shard = 0 /\ r.new = pending.cfg
      BY <1>1, CtlIs DEF AtStep, Ctls
    <3>2. Goes(c, r)
      BY <2>3, CtlIs DEF GetPending
    <3> HIDE DEF r
    <3>3. \A s \in Shard : ~(s < 0)
      BY DEF Shard
    <3>4. CtlSound(r)
      BY <2>3, <3>1, <3>3, CtlIs DEF CtlSound, Working, Phases
    <3> QED BY <3>2, <3>4
  <2> QED BY <2>1, <2>2, <2>3
<1>3. r \in Ctls /\ CtlFits(r)
  <2>1. ctl' = [ctl EXCEPT ![c] = r] /\ ctl \in [Controller -> Ctls] /\ posted' = posted
    BY <1>1, <1>2, CtlIs DEF Goes
  <2>2. ctl'[c] = r
    BY <2>1
  <2>3. CtlFits(ctl'[c]) <=> CtlFits(ctl[c])'
    BY <2>1 DEF CtlFits, Query, Good
  <2> QED BY <2>2, <2>3 DEF TypeInv, Types
<1> QED BY <1>1, <1>2, <1>3, QuietMove

\* While a controller that is not superseded moves the shards, what is pending
\* is its configuration.
LEMMA AheadIs ==
  ASSUME TypeInv, Hold, NEW c \in Controller, Working(ctl[c]), Ahead(ctl[c])
  PROVE  /\ ctl[c].new = pending.cfg /\ Changing /\ ctl[c].new.Num = Query.Num + 1
         /\ GidServers(ctl[c].new, ctl[c].shard) = To(ctl[c].shard)
         /\ \A s \in Shard : s < ctl[c].shard \/ ctl[c].at \in {"post", "put"} => Moved(s)
<1>1. ctl[c].new = pending.cfg
      /\ \A s \in Shard : s < ctl[c].shard \/ ctl[c].at \in {"post", "put"} => Moved(s)
  BY CtlOf DEF CtlSound
<1>2. ctl[c].at # "idle"
  BY DEF Working, Phases
<1>3. ctl[c].new.Num = Query.Num + 1
  BY <1>2, CtlIs DEF CtlFits, Ahead
<1> QED BY <1>1, <1>3 DEF Changing, To

\* The next shard is the turn of a controller that has moved the one before.
LEMMA AdvancedSound ==
  ASSUME TypeInv, Hold, NEW c \in Controller, ctl[c].at \in Phases \cup {"shard"},
         Ahead(ctl[c]) => Moved(ctl[c].shard)
  PROVE  CtlSound(Advanced(c))
<1> DEFINE r == Advanced(c)
<1>1. /\ r.at \in {"post", "shard"} /\ r.new = ctl[c].new
      /\ r.at = "post" => ctl[c].shard + 1 = NShards
      /\ r.at = "shard" => r.shard = ctl[c].shard + 1
  BY AdvancedIs
<1> HIDE DEF r
<1>2. Working(ctl[c]) /\ (Ahead(r) <=> Ahead(ctl[c]))
  BY <1>1 DEF Working, Ahead
<1>3. pending.ver > 0 /\ r.new.Num <= pending.cfg.Num /\ (Ahead(r) => r.new = pending.cfg)
  BY <1>1, <1>2, CtlOf DEF CtlSound
<1>4. ASSUME Ahead(r), NEW s \in Shard, s < r.shard \/ r.at = "post" PROVE Moved(s)
  <2>1. s \in Nat /\ s <= NShards - 1 /\ ctl[c].shard \in Nat /\ NShards \in Nat
    BY CtlIs, ShardAssumption DEF Shard
  <2>2. s < ctl[c].shard \/ s = ctl[c].shard
    BY <1>1, <1>4, <2>1
  <2>3. s < ctl[c].shard => Moved(s)
    BY <1>2, <1>4, AheadIs
  <2> QED BY <1>2, <1>4, <2>2, <2>3
<1>5. CtlSound(r)
  BY <1>1, <1>3, <1>4 DEF CtlSound, Phases
<1> QED BY <1>5 DEF r

LEMMA MoveShardHolds ==
  ASSUME TypeInv, TypeInv', Hold, NEW c \in Controller, UNCHANGED kvs, MoveShard(c)
  PROVE  Hold'
<1> DEFINE s == ctl[c].shard
           old == GidServers(Query, s)
           b == [Phase(c, IF old # 0 THEN "Freeze" ELSE "Install") EXCEPT !.old = old]
<1>1. /\ ctl[c].at = "shard" /\ ctl[c].step # "wait" /\ UNCHANGED <<grp, pending, posted>>
      /\ Working(ctl[c]) /\ s \in Shard
  BY CtlIs DEF MoveShard, Phases, Working
<1>2. CASE Superseded(c)
  <2>1. Goes(c, NoChange)
    BY <1>2 DEF MoveShard
  <2> QED BY <1>1, <2>1, IdleFits, IdleSound, QuietMove
<1>3. CASE ~Superseded(c) /\ GidServers(ctl[c].new, s) = old
  <2>1. Goes(c, Advanced(c))
    BY <1>3 DEF MoveShard
  <2>2. Ahead(ctl[c])
    BY <1>3, CtlOf
  <2>3. Moved(s)
    BY <1>1, <1>3, <2>2, AheadIs DEF Moved, Moves, From
  <2>4. CtlSound(Advanced(c)) /\ Advanced(c) \in Ctls /\ CtlFits(Advanced(c))
    BY <1>1, <2>3, AdvancedSound, AdvancedIs
  <2> QED BY <1>1, <2>1, <2>4, QuietMove
<1>4. CASE ~Superseded(c) /\ GidServers(ctl[c].new, s) # old
  <2>1. Goes(c, b)
    BY <1>4 DEF MoveShard
  <2>2. Ahead(ctl[c])
    BY <1>4, CtlOf
  <2>3. b \in Ctls /\ CtlFits(b) /\ b.at = "Freeze" /\ b.new = ctl[c].new /\ b.shard = s /\ b.old = old
    BY <1>1, BeginsIs
  <2>4. old = From(s)
    BY DEF From
  <2>5. pending.ver > 0
    BY <1>1, CtlOf DEF CtlSound
  <2> HIDE DEF s, old, b
  <2>6. Moves(s)
    BY <1>1, <1>4, <2>2, <2>4, AheadIs DEF Moves, s
  <2>7. /\ b.new = pending.cfg /\ (\A t \in Shard : t < b.shard => Moved(t))
        /\ b.new.Num = pending.cfg.Num
    BY <1>1, <2>2, <2>3, AheadIs DEF s
  <2>8. TargetOf(b) = From(s)
    BY <2>3, <2>4 DEF TargetOf
  <2>9. Due(b.at, TargetOf(b), b.shard, b.state)
    BY <2>3, <2>6, <2>8 DEF Due
  <2>10. Ahead(b) /\ b.new.Num <= pending.cfg.Num
    BY <2>2, <2>3, <2>7, CtlIs DEF Ahead
  <2>11. CtlSound(b)
    BY <2>3, <2>4, <2>5, <2>7, <2>9, <2>10 DEF CtlSound
  <2> QED BY <1>1, <2>1, <2>3, <2>11, QuietMove
<1> QED BY <1>2, <1>3, <1>4

\* The steps within a phase leave what is due as it is.
LEMMA StepSound ==
  ASSUME TypeInv, Hold, NEW c \in Controller, ctl[c].step # "none", NEW step \in {"check", "send", "wait"}
  PROVE  CtlSound([ctl[c] EXCEPT !.step = step])
<1> DEFINE r == [ctl[c] EXCEPT !.step = step]
           q == ctl[c]
<1>1. /\ r.at = q.at /\ r.new = q.new /\ r.shard = q.shard /\ r.old = q.old /\ r.state = q.state
      /\ r.ver = q.ver /\ TargetOf(r) = TargetOf(q)
  BY StepIs
<1>2. CtlSound(q)
  BY CtlOf
<1> HIDE DEF r, q
<1>3. CtlSound(r)
  BY <1>1, <1>2 DEF CtlSound, Working, Ahead
<1> QED BY <1>3 DEF r

LEMMA CheckStaleHolds ==
  ASSUME TypeInv, TypeInv', Hold, NEW c \in Controller, UNCHANGED kvs, CheckStale(c)
  PROVE  Hold'
<1>1. ctl[c].step = "check" /\ UNCHANGED <<grp, pending, posted>>
  BY DEF CheckStale
<1>2. CASE Superseded(c)
  <2>1. Goes(c, NoChange)
    BY <1>2 DEF CheckStale
  <2> QED BY <1>1, <2>1, IdleFits, IdleSound, QuietMove
<1>3. CASE ~Superseded(c)
  <2> DEFINE r == [ctl[c] EXCEPT !.step = "send"]
  <2>1. Goes(c, r)
    BY <1>3 DEF CheckStale
  <2>2. r \in Ctls /\ CtlFits(r) /\ CtlSound(r)
    BY <1>1, StepIs, StepSound
  <2> HIDE DEF r
  <2> QED BY <1>1, <2>1, <2>2, QuietMove
<1> QED BY <1>2, <1>3

\* What a controller in a phase calls is sound.
LEMMA CallSound ==
  ASSUME TypeInv, Hold, NEW c \in Controller, ctl[c].at \in Phases
  PROVE  Sound(CallOf(ctl[c]), TargetOf(ctl[c]))
<1> DEFINE r == ctl[c]
           a == CallOf(r)
           g == TargetOf(r)
<1>1. a \in ShardCalls /\ g \in Gid /\ a.op = r.at /\ a.shard = r.shard /\ a.num = r.new.Num
      /\ a.state = r.state /\ r.at \in {"Freeze", "Install", "Delete"}
  BY CtlIs, CallIs DEF Phases
<1>2. CtlSound(r) /\ r.new.Num <= Query.Num + 1 /\ r.new.Num \in Nat /\ Query.Num \in Nat
  BY CtlIs, CtlOf DEF CtlFits, Phases
<1>3. g = IF r.at = "Install" THEN GidServers(r.new, r.shard) ELSE r.old
  BY DEF TargetOf
<1> HIDE DEF r, a, g
<1>4. CASE Ahead(r)
  <2>1. Due(r.at, TargetOf(r), r.shard, r.state) /\ TargetOf(r) = g
    BY <1>2, <1>4 DEF CtlSound, r, g
  <2>2. ~(r.new.Num <= Query.Num)
    BY <1>2, <1>4 DEF Ahead
  <2> QED BY <1>1, <1>2, <2>1, <2>2 DEF Sound, a, g, r
<1>5. CASE ~Ahead(r)
  <2>1. /\ Spent("Freeze", r.old, r.shard, r.new.Num) /\ Spent("Delete", r.old, r.shard, r.new.Num)
        /\ Spent("Install", GidServers(r.new, r.shard), r.shard, r.new.Num)
    BY <1>2, <1>5 DEF CtlSound, r
  <2>2. r.new.Num <= Query.Num
    BY <1>2, <1>5 DEF Ahead
  <2>3. Spent(r.at, g, r.shard, r.new.Num)
    BY <1>1, <1>3, <2>1
  <2>4. Sound(a, g)
    BY <1>1, <1>2, <2>2, <2>3 DEF Sound
  <2> QED BY <2>4 DEF a, g, r
<1> QED BY <1>4, <1>5

LEMMA CallGroupHolds ==
  ASSUME TypeInv, TypeInv', Hold, NEW c \in Controller, UNCHANGED kvs, CallGroup(c)
  PROVE  Hold'
<1> DEFINE r == [ctl[c] EXCEPT !.step = "wait"]
           h == TargetOf(ctl[c])
           b == CallOf(ctl[c])
<1>1. ctl[c].step = "send" /\ Goes(c, r) /\ Idly /\ answer' = answer
  BY DEF CallGroup, Send, Idly, kvs
<1>2. r \in Ctls /\ CtlFits(r) /\ CtlSound(r) /\ ctl[c].at \in Phases
  BY <1>1, StepIs, StepSound
<1>3. answer[c].err = "none"
  <2>1. InOrder(c) /\ ctl[c].step # "wait"
    BY <1>1 DEF TypeInv
  <2> QED BY <2>1, QuietIs DEF Quiet, Answered
<1>4. SentTo(c, h, b) /\ Sound(b, h)
  BY <1>2, CallGroupTypes, CallSound
<1> HIDE DEF r, h, b
<1>5. ASSUME NEW g \in Gid, NEW a \in ShardCalls, Ordered(g, a)' PROVE Ordered(g, a) \/ Sound(a, g)
  <2>1. PICK k \in DOMAIN log'[g] : log'[g][k].args = a
    BY <1>5 DEF Ordered
  <2>2. k \in Nat
    <3>1. log'[g] \in Seq(Entries)
      BY DEF TypeInv, Types
    <3> QED BY <2>1, <3>1, LenProperties
  <2>3. CASE k \in DOMAIN log[g]
    <3>1. log[g][k].args = a
      BY <1>4, <2>1, <2>3 DEF SentTo
    <3> QED BY <2>3, <3>1 DEF Ordered
  <2>4. CASE g = h /\ k = Len(log[h]) + 1
    <3>1. a = b
      BY <1>4, <2>1, <2>4 DEF SentTo
    <3> QED BY <1>4, <2>4, <3>1
  <2> QED BY <1>4, <2>1, <2>2, <2>3, <2>4 DEF SentTo
<1> QED BY <1>1, <1>2, <1>3, <1>5, IdleMove

LEMMA GaveOrders ==
  ASSUME TypeInv, NEW c, Gave(c), NEW g \in Gid, NEW a, Ordered(g, a)'
  PROVE  Ordered(g, a)
<1>0. Types
  BY DEF TypeInv
<1>1. PICK k \in DOMAIN log'[g] : log'[g][k].args = a
  BY DEF Ordered
<1>2. k \in DOMAIN log[g] /\ log[g][k].args = a
  BY <1>0, <1>1, GiveTypes
<1> QED BY <1>2 DEF Ordered

LEMMA GivesUpHolds ==
  ASSUME TypeInv, TypeInv', Hold, NEW c \in Controller, UNCHANGED kvs, CallFails(c) \/ Die(c)
  PROVE  Hold'
<1>1. Gave(c) /\ answer'[c].err = "none" /\ \A d \in Actor : d # c => answer'[d] = answer[d]
  BY GivesUpTypes
<1>2. Idly
  BY DEF CallFails, Die, Forget, Idly, kvs
<1>3. PICK r \in Ctls : CtlFits(r) /\ CtlSound(r) /\ Goes(c, r)
  <2>1. CASE CallFails(c)
    <3> DEFINE r == [ctl[c] EXCEPT !.step = "check"]
    <3>1. ctl[c].step \in {"send", "wait"} /\ Goes(c, r)
      BY <2>1 DEF CallFails
    <3>2. r \in Ctls /\ CtlFits(r) /\ CtlSound(r)
      BY <3>1, StepIs, StepSound
    <3> HIDE DEF r
    <3> QED BY <3>1, <3>2
  <2>2. CASE Die(c)
    BY <2>2, IdleFits, IdleSound DEF Die
  <2> QED BY <2>1, <2>2
<1>4. \A g \in Gid, a \in ShardCalls : Ordered(g, a)' => Ordered(g, a)
  BY <1>1, GaveOrders
<1> QED BY <1>1, <1>2, <1>3, <1>4, IdleMove

\* What follows the phase that has succeeded is due.
LEMMA FollowingSound ==
  ASSUME TypeInv, Hold, NEW c \in Controller, ctl[c].step = "wait", answer[c].err = "OK"
  PROVE  CtlSound(Following(c))
<1> DEFINE q == ctl[c]
           r == Following(c)
           s == q.shard
<1>1. /\ q.at \in Phases /\ r \in Ctls /\ CtlFits(r) /\ r.new = q.new /\ s \in Shard
      /\ q.at = "Freeze" => /\ r.at = "Install" /\ r.shard = s /\ r.old = q.old
                            /\ r.state = answer[c].state
      /\ q.at = "Install" => r.at = "Delete" /\ r.shard = s /\ r.old = q.old
      /\ q.at = "Delete" => r = Advanced(c)
  BY FollowingIs, CtlIs
<1>2. Working(q) /\ CtlSound(q) /\ AnswerSound(q, answer[c])
  BY <1>1, CtlOf DEF Working
<1>3. Ahead(q) => /\ q.new = pending.cfg /\ GidServers(q.new, s) = To(s)
                  /\ \A t \in Shard : t < s => Moved(t)
  BY <1>2, AheadIs
<1>4. Ahead(q) => q.old = From(s) /\ Due(q.at, TargetOf(q), s, q.state)
  BY <1>1, <1>2 DEF CtlSound
<1>5. CASE q.at = "Delete"
  <2>1. Ahead(q) => Moved(s)
    BY <1>2, <1>4, <1>5 DEF Moved, Due, AnswerSound
  <2> QED BY <1>1, <1>5, <2>1, AdvancedSound
<1>6. CASE q.at # "Delete"
  <2> HIDE DEF q, r, s
  <2>1. /\ r.at \in Phases /\ r.at \in {"Install", "Delete"} /\ r.shard = s /\ r.old = q.old
        /\ r.at = "Install" => q.at = "Freeze" /\ r.state = answer[c].state
        /\ r.at = "Delete" => q.at = "Install"
    BY <1>1, <1>6 DEF Phases
  <2>2. Working(r) /\ (Ahead(r) <=> Ahead(q))
    BY <1>1, <2>1 DEF Working, Ahead
  <2>3. pending.ver > 0 /\ r.new.Num <= pending.cfg.Num /\ (Ahead(r) => r.new = pending.cfg)
    BY <1>1, <1>2, <2>2 DEF CtlSound
  <2>4. ASSUME Ahead(r) PROVE Due(r.at, TargetOf(r), r.shard, r.state)
    <3>1. Moves(s) /\ q.old = From(s) /\ GidServers(r.new, s) = To(s)
      BY <1>1, <1>3, <1>4, <2>2, <2>4 DEF Due
    <3>2. CASE r.at = "Install"
      <4>1. TargetOf(r) = To(s)
        BY <2>1, <3>1, <3>2 DEF TargetOf
      <4>2. Reached(From(s), s) /\ (Reached(To(s), s) \/ HasAll(r.state, s))
        BY <1>2, <2>1, <2>2, <2>4, <3>2 DEF AnswerSound, s
      <4> QED BY <2>1, <3>1, <3>2, <4>1, <4>2 DEF Due
    <3>3. CASE r.at = "Delete"
      <4>1. TargetOf(r) = From(s)
        BY <2>1, <3>1, <3>3 DEF TargetOf
      <4>2. Reached(To(s), s)
        BY <1>2, <2>1, <2>2, <2>4, <3>3 DEF AnswerSound, s
      <4> QED BY <2>1, <3>1, <3>3, <4>1, <4>2 DEF Due
    <3> QED BY <2>1, <3>2, <3>3
  <2>5. ~Ahead(r) => /\ Spent("Freeze", r.old, r.shard, r.new.Num)
                     /\ Spent("Install", GidServers(r.new, r.shard), r.shard, r.new.Num)
                     /\ Spent("Delete", r.old, r.shard, r.new.Num)
    BY <1>1, <1>2, <2>1, <2>2 DEF CtlSound, s
  <2>6. Ahead(r) => r.old = From(r.shard) /\ \A t \in Shard : t < r.shard => Moved(t)
    BY <1>3, <1>4, <2>1, <2>2
  <2>7. CtlSound(r)
    BY <2>1, <2>2, <2>3, <2>4, <2>5, <2>6 DEF CtlSound
  <2> QED BY <2>7 DEF r
<1> QED BY <1>5, <1>6

LEMMA CallReturnsHolds ==
  ASSUME TypeInv, TypeInv', Hold, NEW c \in Controller, UNCHANGED kvs, CallReturns(c)
  PROVE  Hold'
<1>1. answer'[c].err = "none" /\ answer[c].err \in {"OK", "ErrStale"}
      /\ \A d \in Actor : d # c => answer'[d] = answer[d]
  BY CallReturnsTypes, EmptyTypes
<1>2. Idly /\ log' = log /\ ctl[c].step = "wait"
  BY DEF CallReturns, Take, Idly, kvs
<1>3. PICK r \in Ctls : CtlFits(r) /\ CtlSound(r) /\ Goes(c, r)
  <2>1. CASE answer[c].err = "ErrStale"
    BY <2>1, IdleFits, IdleSound DEF CallReturns
  <2>2. CASE answer[c].err = "OK"
    <3>1. Goes(c, Following(c))
      BY <2>2 DEF CallReturns
    <3> QED BY <1>2, <2>2, <3>1, FollowingIs, FollowingSound
  <2> QED BY <1>1, <2>1, <2>2
<1>4. ASSUME NEW g \in Gid, NEW a \in ShardCalls, Ordered(g, a)' PROVE Ordered(g, a)
  BY <1>2, <1>4 DEF Ordered
<1> QED BY <1>1, <1>2, <1>3, <1>4, IdleMove

LEMMA GetPostedHolds ==
  ASSUME TypeInv, TypeInv', Hold, NEW c \in Controller, UNCHANGED kvs, GetPosted(c)
  PROVE  Hold'
<1>1. ctl[c].at = "post" /\ ctl[c].step # "wait" /\ UNCHANGED <<grp, pending, posted>>
  BY CtlIs DEF GetPosted, Phases
<1>2. CASE Superseded(c)
  <2>1. Goes(c, NoChange)
    BY <1>2 DEF GetPosted
  <2> QED BY <1>1, <2>1, IdleFits, IdleSound, QuietMove
<1>3. CASE ~Superseded(c)
  <2> DEFINE r == [AtStep(c, "put") EXCEPT !.ver = posted.ver]
             q == ctl[c]
  <2>1. Goes(c, r)
    BY <1>3 DEF GetPosted
  <2>2. /\ r \in Ctls /\ r.at = "put" /\ r.new = q.new /\ r.step = "none" /\ r.ver = posted.ver
        /\ r.shard = q.shard
    BY <1>1, CtlIs DEF AtStep, Ctls, Places, Phases
  <2>3. CtlSound(q)
    BY CtlOf
  <2>4. q.at = "post"
    BY <1>1
  <2>5. q.new.Num > Query.Num
    BY <1>3, CtlIs DEF Superseded
  <2> HIDE DEF r
  <2>6. CtlFits(r)
    BY <1>1, <2>2, <2>5, CtlIs DEF CtlFits, Phases
  <2> HIDE DEF q
  <2>7. CtlSound(r)
    BY <2>2, <2>3, <2>4 DEF CtlSound, Working, Ahead, Phases
  <2> QED BY <1>1, <2>1, <2>2, <2>6, <2>7, QuietMove
<1> QED BY <1>2, <1>3

\* What becomes pending is later than what was.
LEMMA PendingMove ==
  ASSUME TypeInv, TypeInv', Hold, NEW c \in Controller, ~Misled, UNCHANGED kvs,
         CreatePending(c) \/ ReplacePending(c)
  PROVE  /\ ctl[c].at \in {"create", "replace"} /\ ctl[c].shard = 0 /\ posted' = posted
         /\ group' = group /\ log' = log /\ answer' = answer /\ written' = written
         /\ \/ pending' = pending
            \/ /\ pending'.cfg = ctl[c].new /\ pending'.ver = pending.ver + 1
               /\ pending.cfg.Num < ctl[c].new.Num
         /\ \E r \in Ctls :
              /\ Goes(c, r) /\ CtlFits(r) /\ r.at \in {"pending", "shard"} /\ r.new = ctl[c].new
              /\ r.shard = 0
              /\ r.at = "shard" => pending'.cfg = ctl[c].new /\ pending'.ver > 0
<1> DEFINE q == ctl[c]
<1>1. q.at \in {"create", "replace"} /\ q \in Ctls /\ CtlSound(q) /\ q.step = "none"
  BY CtlIs, CtlOf DEF CreatePending, ReplacePending, Phases
<1>2. posted' = posted /\ group' = group /\ log' = log /\ answer' = answer /\ written' = written
  BY DEF CreatePending, ReplacePending, PutPending, grp, kvs
<1>3. q.shard = 0 /\ q.new.Num \in Nat /\ q.new.Num >= 2 /\ q.ver \in Nat /\ pending.ver \in Nat
      /\ (pending.ver = 0 => pending.cfg.Num = 0)
  BY <1>1, CtlIs DEF CtlSound, CtlFits, Ctls, TypeInv, Keys
<1>4. ASSUME NEW at \in {"pending", "shard"}, NEW ver \in Nat
      PROVE  LET r == [AtStep(c, at) EXCEPT !.ver = ver] IN
             /\ r \in Ctls /\ CtlFits(r) /\ r.at = at /\ r.new = q.new /\ r.shard = 0
  <2> DEFINE p == AtStep(c, at)
             r == [p EXCEPT !.ver = ver]
  <2>1. p \in Ctls /\ CtlFits(p) /\ p.at = at /\ p.new = q.new /\ p.shard = q.shard
    BY <1>1, AtStepFits DEF Places, Phases
  <2> HIDE DEF p
  <2>2. r \in Ctls /\ r.at = at /\ r.new = p.new /\ r.shard = p.shard /\ r.step = p.step
        /\ r.old = p.old
    BY <2>1 DEF Ctls
  <2> HIDE DEF r
  <2>3. CtlFits(r)
    BY <2>1, <2>2 DEF CtlFits
  <2> QED BY <1>3, <2>1, <2>2, <2>3 DEF r, p
<1>5. CASE CreatePending(c)
  <2>1. PICK err \in Answers(pending, 0) :
          /\ pending' = After(pending, q.new, 0)
          /\ Goes(c, AtStep(c, IF err = "ErrVersion" THEN "pending" ELSE "shard"))
          /\ err = "ErrMaybe" => pending'.cfg = q.new \/ Misled
    BY <1>5 DEF CreatePending, PutPending
  <2>2. IF pending.ver = 0
        THEN pending'.cfg = q.new /\ pending'.ver = pending.ver + 1 /\ pending.cfg.Num < q.new.Num
        ELSE pending' = pending /\ err \in {"ErrVersion", "ErrMaybe"}
    BY <1>3, <2>1 DEF After, Answers
  <2>3. err = "ErrMaybe" => pending'.cfg = q.new
    BY <2>1
  <2>4. PICK at \in {"pending", "shard"} : Goes(c, AtStep(c, at))
         /\ (at = "shard" => pending'.cfg = q.new /\ pending'.ver > 0)
    <3>1. CASE err = "ErrVersion"
      <4>1. Goes(c, AtStep(c, "pending"))
        BY <2>1, <3>1
      <4> QED BY <4>1
    <3>2. CASE err # "ErrVersion"
      <4>1. Goes(c, AtStep(c, "shard"))
        BY <2>1, <3>2
      <4>2. pending'.cfg = q.new /\ pending'.ver > 0
        BY <1>3, <2>2, <2>3, <3>2
      <4> QED BY <4>1, <4>2
    <3> QED BY <3>1, <3>2
  <2>5. AtStep(c, at) = [AtStep(c, at) EXCEPT !.ver = q.ver]
    BY <1>1 DEF AtStep, Ctls
  <2>6. \E r \in Ctls : /\ Goes(c, r) /\ CtlFits(r) /\ r.at \in {"pending", "shard"} /\ r.new = q.new
                        /\ r.shard = 0
                        /\ r.at = "shard" => pending'.cfg = q.new /\ pending'.ver > 0
    BY <1>3, <1>4, <2>4, <2>5
  <2>7. \/ pending' = pending
        \/ pending'.cfg = q.new /\ pending'.ver = pending.ver + 1 /\ pending.cfg.Num < q.new.Num
    BY <2>2
  <2> QED BY <1>1, <1>2, <1>3, <2>6, <2>7
<1>6. CASE ReplacePending(c)
  <2>1. PICK err \in Answers(pending, q.ver) :
          /\ pending' = After(pending, q.new, q.ver)
          /\ Goes(c, [AtStep(c, IF err = "OK" THEN "shard" ELSE "pending") EXCEPT !.ver = 0])
    BY <1>6 DEF ReplacePending, PutPending
  <2>2. q.at = "replace"
    BY <1>6 DEF ReplacePending
  <2>3. IF pending.ver = q.ver
        THEN /\ pending'.cfg = q.new /\ pending'.ver = pending.ver + 1
             /\ pending.cfg.Num < q.new.Num
        ELSE pending' = pending /\ err # "OK"
    BY <1>1, <2>1, <2>2 DEF After, Answers, CtlSound
  <2>4. PICK at \in {"pending", "shard"} : Goes(c, [AtStep(c, at) EXCEPT !.ver = 0])
         /\ (at = "shard" => pending'.cfg = q.new /\ pending'.ver > 0)
    BY <1>3, <2>1, <2>3
  <2>6. \E r \in Ctls : /\ Goes(c, r) /\ CtlFits(r) /\ r.at \in {"pending", "shard"} /\ r.new = q.new
                        /\ r.shard = 0
                        /\ r.at = "shard" => pending'.cfg = q.new /\ pending'.ver > 0
    BY <1>4, <2>4
  <2> QED BY <1>1, <1>2, <1>3, <2>3, <2>6
<1> QED BY <1>5, <1>6

LEMMA NotAnswered ==
  ASSUME TypeInv, NEW c \in Controller, ctl[c].step # "wait"
  PROVE  answer[c].err = "none"
<1>1. InOrder(c)
  BY DEF TypeInv
<1> QED BY <1>1, QuietIs DEF Quiet, Answered

LEMMA AnsweredIs ==
  ASSUME TypeInv, NEW c \in Controller, answer[c].err # "none"
  PROVE  ctl[c].at \in Phases /\ Working(ctl[c])
<1>1. ctl[c].step = "wait"
  BY NotAnswered
<1> QED BY <1>1, CtlIs DEF Working

\* A new configuration becomes pending only when nothing is under way.
LEMMA PendingHolds ==
  ASSUME TypeInv, TypeInv', Hold, NEW c \in Controller, ~Misled, UNCHANGED kvs,
         CreatePending(c) \/ ReplacePending(c)
  PROVE  Hold'
<1> DEFINE new == ctl[c].new
<1>1. /\ ctl[c].at \in {"create", "replace"} /\ posted' = posted /\ Query' = Query
      /\ group' = group /\ log' = log /\ answer' = answer /\ written' = written
  BY PendingMove DEF Query
<1>2. PICK r \in Ctls :
        /\ Goes(c, r) /\ CtlFits(r) /\ r.at \in {"pending", "shard"} /\ r.new = new
        /\ r.shard = 0
        /\ r.at = "shard" => pending'.cfg = new /\ pending'.ver > 0
  BY PendingMove
<1>3. answer[c].err = "none"
  BY <1>1, CtlIs, NotAnswered DEF Phases
<1>4. /\ new.Num \in Nat /\ new.Num <= Query.Num + 1 /\ Query.Num \in Nat
      /\ pending.cfg.Num \in Nat /\ pending.ver \in Nat
  BY <1>1, CtlIs DEF CtlFits
<1>5. \A s \in Shard : ~(s < 0)
  BY DEF Shard
<1>6. CASE pending' = pending
  <2>1. CtlSound(r)
    <3>1. CASE r.at = "pending"
      BY <1>2, <3>1, BeforeSound
    <3>2. CASE r.at = "shard"
      BY <1>2, <1>4, <1>5, <1>6, <3>2 DEF CtlSound, Working, Phases
    <3> QED BY <1>2, <3>1, <3>2
  <2>2. ASSUME NEW g \in Gid, NEW a \in ShardCalls, Ordered(g, a)' PROVE Ordered(g, a)
    BY <1>1, <2>2 DEF Ordered
  <2>3. Idly
    BY <1>1, <1>6 DEF Idly
  <2> QED BY <1>1, <1>2, <1>3, <2>1, <2>2, <2>3, IdleMove
<1>7. CASE pending'.cfg = new /\ pending'.ver = pending.ver + 1 /\ pending.cfg.Num < new.Num
  <2>0. Placed /\ UpToDate /\ Orders /\ ~Changing
    BY <1>4, <1>7 DEF Hold, Changing
  <2>1. ASSUME NEW g \in Gid, NEW s \in Shard
        PROVE  /\ group[g][s].highest <= Query.Num /\ Settled(g, s)
               /\ ~Owns(g, s) => group[g][s].store = NoStore
    BY <2>0, Bounded DEF InMove, Moves
  <2>2. \A g, s : /\ Owns(g, s)' <=> Owns(g, s)
                  /\ Serves(g, s)' <=> Serves(g, s)
                  /\ From(s)' = From(s)
    BY <1>1 DEF Owns, Serves, From
  <2>3. Placed'
    BY <1>1, <2>1, <2>2 DEF Placed, Settled
  <2>4. UpToDate'
    <3>1. SUFFICES ASSUME NEW g \in Gid, NEW s \in Shard, Owns(g, s)'
                   PROVE  HasAll(group[g][s].store, s)'
      BY DEF UpToDate
    <3>2. HasAll(group[g][s].store, s)
      BY <2>0, <2>1, <2>2, <3>1 DEF Settled, UpToDate
    <3> QED BY <1>1, <3>2 DEF HasAll, Latest
  <2>5. Orders'
    <3>1. SUFFICES ASSUME NEW g \in Gid, NEW a \in ShardCalls, Ordered(g, a)' PROVE Sound(a, g)'
      BY DEF Orders
    <3>2. Sound(a, g)
      BY <1>1, <2>0, <3>1 DEF Orders, Ordered
    <3>3. a.num <= Query.Num /\ Spent(a.op, g, a.shard, a.num)
      BY <2>0, <3>2 DEF Sound, Due, Moves
    <3>4. a.num <= Query.Num + 1
      BY <3>2 DEF Sound
    <3> QED BY <1>1, <3>3, <3>4 DEF Sound, Spent, Owns
  <2>6. ctl'[c] = r /\ \A d \in Controller : d # c => ctl'[d] = ctl[d]
    BY <1>2, CtlIs DEF Goes
  <2>7. ASSUME NEW d \in Controller PROVE ~(Working(ctl[d]) /\ Ahead(ctl[d]))
    BY <2>0, <2>7, AheadIs
  <2>8. ASSUME NEW d \in Controller, NEW q \in Ctls, ctl'[d] = q PROVE CtlSound(q)'
    <3>1. CASE d = c
      <4>1. q = r
        BY <2>6, <2>8, <3>1
      <4>2. CASE r.at = "pending"
        BY <1>2, <4>1, <4>2 DEF CtlSound, Working, Phases
      <4>3. CASE r.at = "shard"
        BY <1>2, <1>4, <1>5, <4>1, <4>3 DEF CtlSound, Working, Phases
      <4> QED BY <1>2, <4>2, <4>3
    <3>2. CASE d # c
      <4>1. q = ctl[d] /\ CtlSound(q) /\ q.ver \in Nat /\ q.new.Num \in Nat
        BY <2>6, <2>8, <3>2, CtlIs, CtlOf DEF Ctls
      <4>2. ~(Working(q) /\ Ahead(q)) /\ (Ahead(q)' <=> Ahead(q)) /\ (q.at \in Phases => Working(q))
        BY <1>1, <2>7, <4>1 DEF Ahead, Working
      <4>3. \A op, g, s, n : Spent(op, g, s, n)' <=> Spent(op, g, s, n)
        BY <1>1 DEF Spent, Owns
      <4>4. q.at = "replace" => q.ver < pending'.ver
        BY <1>4, <1>7, <4>1 DEF CtlSound
      <4>5. Working(q) => pending'.ver > 0 /\ q.new.Num <= pending'.cfg.Num
        BY <1>4, <1>7, <4>1 DEF CtlSound
      <4>6. /\ q.at \in {"recover", "pending", "create", "replace"} => q.shard = 0
            /\ q.at \in Phases => /\ Spent("Freeze", q.old, q.shard, q.new.Num)
                                  /\ Spent("Install", GidServers(q.new, q.shard), q.shard, q.new.Num)
                                  /\ Spent("Delete", q.old, q.shard, q.new.Num)
        BY <4>1, <4>2 DEF CtlSound
      <4>7. q.at = "replace" => q.ver <= pending'.ver /\ q.ver # pending'.ver
        BY <1>4, <1>7, <4>1, <4>4
      <4> HIDE DEF new
      <4> QED BY <4>2, <4>3, <4>5, <4>6, <4>7 DEF CtlSound
    <3> QED BY <3>1, <3>2
  <2>9. ASSUME NEW d \in Controller, NEW q \in Ctls, NEW a \in ShardReplies,
               ctl'[d] = q, answer'[d] = a
        PROVE  AnswerSound(q, a)'
    <3>1. CASE a.err = "none"
      BY <3>1 DEF AnswerSound
    <3>2. CASE a.err # "none"
      <4>1. answer[d] = a /\ d # c /\ ctl[d] = q
        BY <1>1, <1>3, <2>6, <2>9, <3>2
      <4>2. ~Ahead(q)
        BY <2>7, <3>2, <4>1, AnsweredIs
      <4>3. ~Ahead(q)'
        BY <1>1, <4>2 DEF Ahead
      <4> QED BY <4>3 DEF AnswerSound
    <3> QED BY <3>1, <3>2
  <2> QED BY <2>3, <2>4, <2>5, <2>8, <2>9 DEF Hold
<1> QED BY <1>6, <1>7, PendingMove

\* A configuration is posted only when all its shards have moved.
LEMMA PutPostedHolds ==
  ASSUME TypeInv, TypeInv', Hold, NEW c \in Controller, UNCHANGED kvs, PutPosted(c)
  PROVE  Hold'
<1> DEFINE p == ctl[c]
<1>1. /\ p.at = "put" /\ p.step = "none" /\ p \in Ctls /\ CtlFits(p) /\ CtlSound(p)
      /\ group' = group /\ log' = log /\ answer' = answer /\ pending' = pending
      /\ written' = written /\ posted' = After(posted, p.new, p.ver)
  BY CtlIs, CtlOf DEF PutPosted, grp, kvs, Phases
<1>2. PICK r \in Ctls :
        /\ Goes(c, r) /\ CtlFits(r) /\ r.at \in {"idle", "post"}
        /\ r.at = "post" => CtlSound(r) /\ r.new = p.new
  <2> DEFINE q == AtStep(c, "post")
             z == [q EXCEPT !.ver = 0]
  <2>1. Goes(c, NoChange) \/ Goes(c, z)
    BY DEF PutPosted
  <2>2. q \in Ctls /\ CtlFits(q) /\ q.at = "post" /\ q.new = p.new /\ q.shard = p.shard
    BY <1>1, AtStepFits DEF Places, Phases
  <2> HIDE DEF q, p
  <2>3. z \in Ctls /\ z.at = "post" /\ z.new = p.new /\ z.shard = p.shard /\ z.step = q.step
        /\ z.old = q.old
    BY <2>2 DEF Ctls
  <2> HIDE DEF z
  <2>4. CtlFits(z)
    BY <2>2, <2>3 DEF CtlFits
  <2>5. CtlSound(z)
    BY <1>1, <2>3 DEF CtlSound, Working, Ahead, Phases
  <2> QED BY <2>1, <2>3, <2>4, <2>5, IdleFits, FirstTypes
<1>3. answer[c].err = "none"
  BY <1>1, NotAnswered
<1>4. CASE posted' = posted
  <2>1. CtlSound(r)
    <3>1. r.at = "idle" => CtlSound(r)
      BY DEF CtlSound, Working, Phases
    <3> QED BY <1>2, <3>1
  <2>2. ASSUME NEW g \in Gid, NEW a \in ShardCalls, Ordered(g, a)' PROVE Ordered(g, a)
    BY <1>1, <2>2 DEF Ordered
  <2>3. Idly
    BY <1>1, <1>4 DEF Idly
  <2> QED BY <1>1, <1>2, <1>3, <2>1, <2>2, <2>3, IdleMove
<1>5. CASE posted' # posted
  <2>0. /\ Placed /\ UpToDate /\ Orders /\ Query' = p.new /\ p.new.Num = Query.Num + 1
        /\ Query.Num \in Nat
    BY <1>5, PutPostedTypes, CtlIs DEF Hold
  <2>1. Working(p) /\ Ahead(p)
    BY <1>1, <2>0 DEF Working, Ahead
  <2>2. /\ p.new = pending.cfg /\ Changing /\ \A s \in Shard : Moved(s)
        /\ Query'.Num = Query.Num + 1
    BY <1>1, <2>0, <2>1, AheadIs
  <2>3. \A g, s : /\ Owns(g, s)' <=> Owns(g, s)
                  /\ Serves(g, s)' <=> Serves(g, s)
                  /\ From(s)' = To(s)
    BY <1>1, <2>0, <2>2 DEF Owns, Serves, From, To
  <2>4. ASSUME NEW g \in Gid, NEW s \in Shard
        PROVE  /\ group[g][s].highest <= Query.Num + 1
               /\ Owns(g, s) <=> g = To(s)
               /\ Owns(g, s) => Serves(g, s)
               /\ ~Owns(g, s) => group[g][s].store = NoStore
    <3>1. CASE Moves(s)
      <4>1. /\ Reached(From(s), s) /\ ~Owns(From(s), s) /\ Reached(To(s), s) /\ From(s) \in Gid
            /\ To(s) \in Gid /\ From(s) # To(s)
        BY <2>2, <3>1, WorldIs DEF Moved
      <4>2. CASE Reached(g, s)
        BY <2>0, <4>1, <4>2, Bounded DEF InMove, Serves
      <4>3. CASE ~Reached(g, s)
        BY <2>0, <4>1, <4>3, Bounded DEF Settled
      <4> QED BY <4>2, <4>3
    <3>2. CASE ~Moves(s)
      <4>1. From(s) = To(s)
        BY <2>2, <3>2 DEF Moves
      <4> QED BY <2>0, <3>2, <4>1, Bounded DEF InMove, Settled
    <3> QED BY <3>1, <3>2
  <2>5. Placed'
    <3>1. SUFFICES ASSUME NEW g \in Gid, NEW s \in Shard
                   PROVE  /\ group'[g][s].highest <= Query'.Num
                          /\ Settled(g, s)'
                          /\ ~Owns(g, s)' => group'[g][s].store = NoStore
      BY DEF Placed
    <3> QED BY <1>1, <2>2, <2>3, <2>4 DEF Settled
  <2>6. UpToDate'
    <3>1. SUFFICES ASSUME NEW g \in Gid, NEW s \in Shard, Owns(g, s)'
                   PROVE  HasAll(group[g][s].store, s)'
      BY DEF UpToDate
    <3>2. HasAll(group[g][s].store, s)
      BY <2>0, <2>3, <2>4, <3>1 DEF UpToDate
    <3> QED BY <1>1, <3>2 DEF HasAll, Latest
  <2>7. ASSUME NEW s \in Shard, Moves(s)
        PROVE  /\ Spent("Freeze", From(s), s, Query.Num + 1) /\ Spent("Install", To(s), s, Query.Num + 1)
               /\ Spent("Delete", From(s), s, Query.Num + 1)
    <3>1. /\ From(s) \in Gid /\ To(s) \in Gid /\ From(s) # To(s)
          /\ group[From(s)][s].highest = Query.Num + 1 /\ group[To(s)][s].highest = Query.Num + 1
          /\ ~Owns(From(s), s)
      BY <2>2, <2>7, WorldIs DEF Moved, Reached
    <3>2. Owns(To(s), s)
      BY <2>4, <3>1
    <3> QED BY <2>0, <3>1, <3>2 DEF Spent
  <2>8. \A op, g, s, n : Spent(op, g, s, n)' <=> Spent(op, g, s, n)
    BY <1>1 DEF Spent, Owns
  <2>9. Orders'
    <3>1. SUFFICES ASSUME NEW g \in Gid, NEW a \in ShardCalls, Ordered(g, a)' PROVE Sound(a, g)'
      BY DEF Orders
    <3>2. Sound(a, g)
      BY <1>1, <2>0, <3>1 DEF Orders, Ordered
    <3>3. a.num \in Nat /\ a.shard \in Shard /\ a.op \in {"Freeze", "Install", "Delete"}
          /\ a.num <= Query.Num + 1
      BY <3>2 DEF ShardCalls, Sound
    <3>4. Spent(a.op, g, a.shard, a.num)
      <4>1. CASE a.num <= Query.Num
        BY <3>2, <4>1 DEF Sound
      <4>2. CASE ~(a.num <= Query.Num)
        <5>1. a.num = Query.Num + 1 /\ Due(a.op, g, a.shard, a.state)
          BY <2>0, <3>2, <3>3, <4>2 DEF Sound
        <5>2. Moves(a.shard) /\ g = IF a.op = "Install" THEN To(a.shard) ELSE From(a.shard)
          BY <5>1 DEF Due
        <5> QED BY <2>7, <3>3, <5>1, <5>2
      <4> QED BY <4>1, <4>2
    <3>5. Spent(a.op, g, a.shard, a.num)'
      BY <2>8, <3>4
    <3>6. a.num <= Query'.Num /\ a.num <= Query'.Num + 1
      BY <2>0, <2>2, <3>3
    <3> QED BY <3>5, <3>6 DEF Sound
  <2>10. ctl'[c] = r /\ \A d \in Controller : d # c => ctl'[d] = ctl[d]
    BY <1>2, CtlIs DEF Goes
  <2>11. ASSUME NEW q \in Ctls, CtlFits(q), q.at # "idle" PROVE ~Ahead(q)'
    <3>1. q.new.Num <= Query.Num + 1 /\ q.new.Num \in Nat
      BY <2>11 DEF CtlFits, Ctls, Config
    <3>2. q.new.Num <= Query'.Num
      BY <2>2, <3>1
    <3> QED BY <2>0, <2>2, <3>1, <3>2 DEF Ahead
  <2>12. ASSUME NEW q \in Ctls, CtlFits(q), CtlSound(q) PROVE CtlSound(q)'
    <3>1. CASE q.at \notin Phases
      BY <1>1, <2>11, <2>12, <3>1 DEF CtlSound, Working, Phases
    <3>2. CASE q.at \in Phases
      <4>0. q.at # "idle" /\ Working(q) /\ q.at \notin {"replace", "recover", "pending", "create"}
            /\ q.shard \in Shard /\ q.new.Num \in Nat
        BY <3>2 DEF Phases, Working, Ctls, Config
      <4>1. ~Ahead(q)'
        BY <2>11, <2>12, <4>0
      <4>2. /\ Spent("Freeze", q.old, q.shard, q.new.Num)
            /\ Spent("Install", GidServers(q.new, q.shard), q.shard, q.new.Num)
            /\ Spent("Delete", q.old, q.shard, q.new.Num)
        <5>1. CASE ~Ahead(q)
          BY <2>12, <3>2, <5>1 DEF CtlSound
        <5>2. CASE Ahead(q)
          <6>1. q.new = pending.cfg /\ q.old = From(q.shard) /\ Due(q.at, TargetOf(q), q.shard, q.state)
            BY <2>12, <3>2, <4>0, <5>2 DEF CtlSound
          <6>2. Moves(q.shard) /\ GidServers(q.new, q.shard) = To(q.shard)
                /\ q.new.Num = Query.Num + 1
            BY <2>2, <6>1 DEF Due, To, Changing
          <6> QED BY <2>7, <4>0, <6>1, <6>2
        <5> QED BY <5>1, <5>2
      <4>3. pending'.ver > 0 /\ q.new.Num <= pending'.cfg.Num
        BY <1>1, <2>12, <4>0 DEF CtlSound
      <4> QED BY <2>8, <3>2, <4>0, <4>1, <4>2, <4>3 DEF CtlSound
    <3> QED BY <3>1, <3>2
  <2>13. ASSUME NEW d \in Controller, NEW q \in Ctls, ctl'[d] = q PROVE CtlSound(q)'
    <3>1. CASE d = c
      <4>1. CASE r.at = "idle"
        BY <2>10, <2>13, <3>1, <4>1 DEF CtlSound, Working, Phases
      <4>2. CASE r.at = "post"
        BY <1>2, <2>10, <2>12, <2>13, <3>1, <4>2
      <4> QED BY <1>2, <4>1, <4>2
    <3>2. CASE d # c
      <4>1. q = ctl[d] /\ CtlSound(q) /\ CtlFits(q)
        BY <2>10, <2>13, <3>2, CtlIs, CtlOf
      <4> QED BY <2>12, <4>1
    <3> QED BY <3>1, <3>2
  <2>14. ASSUME NEW d \in Controller, NEW q \in Ctls, NEW a \in ShardReplies,
                ctl'[d] = q, answer'[d] = a
         PROVE  AnswerSound(q, a)'
    <3>1. CASE a.err = "none"
      BY <3>1 DEF AnswerSound
    <3>2. CASE a.err # "none"
      <4>1. answer[d] = a /\ d # c /\ ctl[d] = q
        BY <1>1, <1>3, <2>10, <2>14, <3>2
      <4>2. q.at # "idle" /\ CtlFits(q)
        BY <3>2, <4>1, AnsweredIs, CtlIs DEF Phases
      <4> QED BY <2>11, <4>2 DEF AnswerSound
    <3> QED BY <3>1, <3>2
  <2> QED BY <2>5, <2>6, <2>9, <2>13, <2>14 DEF Hold
<1> QED BY <1>4, <1>5

-----------------------------------------------------------------------------
(* The execution of an operation, once more.                               *)

LEMMA LatestIs ==
  ASSUME TypeInv, NEW k \in Key
  PROVE  Latest(k).version = Len(written[k]) /\ Len(written[k]) \in Nat
<1>1. written[k] \in Seq(Value)
  BY DEF TypeInv, Types
<1>2. Len(written[k]) \in Nat /\ (written[k] = <<>> => Len(written[k]) = 0)
  BY <1>1, LenProperties, EmptySeq
<1> QED BY <1>2 DEF Latest, NoRecord

\* What is the same whatever is executed.
LEMMA ExecutionIs ==
  ASSUME TypeInv, TypeInv', NEW g \in Gid, NEW k \in DOMAIN log[g], Execution(g, k)
  PROVE  /\ pending' = pending /\ posted' = posted /\ ctl' = ctl
         /\ \A a : \A h \in Gid : Ordered(h, a)' => Ordered(h, a)
         /\ \E e, s : Executed(g, k, e, s) /\ Ordered(g, e.args)
              /\ written' = IF e.args.op = "Put" /\ ShardDoOp(group[g][s], e.args).reply.err = "OK"
                    THEN [written EXCEPT ![e.args.key] = Append(written[e.args.key], e.args.value)]
                    ELSE written
<1>0. Types /\ pending' = pending /\ posted' = posted /\ ctl' = ctl
  BY DEF Execution, ctrler, TypeInv
<1>1. PICK e, s : Executed(g, k, e, s)
  BY <1>0, ExecutionTypes
<1>2. Ordered(g, e.args)
  BY <1>1 DEF Ordered, Executed
<1>3. written' = IF e.args.op = "Put" /\ ShardDoOp(group[g][s], e.args).reply.err = "OK"
                 THEN [written EXCEPT ![e.args.key] = Append(written[e.args.key], e.args.value)]
                 ELSE written
  BY <1>1 DEF Execution, Effect, Executed
<1>4. ASSUME NEW a, NEW h \in Gid, Ordered(h, a)' PROVE Ordered(h, a)
  <2>1. PICK j \in DOMAIN log'[h] : log'[h][j].args = a
    BY <1>4 DEF Ordered
  <2>2. j \in Nat
    <3>1. log'[h] \in Seq(Entries)
      BY DEF TypeInv, Types
    <3> QED BY <2>1, <3>1, LenProperties
  <2>3. j + Off(g, k)[h] \in DOMAIN log[h] /\ log'[h][j] = log[h][j + Off(g, k)[h]]
    BY <1>0, <2>1, <2>2, ExecutionTypes
  <2> QED BY <2>1, <2>3 DEF Ordered
<1> QED BY <1>0, <1>1, <1>2, <1>3, <1>4

\* Where the shard stays as it is.
LEMMA NothingExecuted ==
  ASSUME TypeInv, TypeInv', Hold, NEW g \in Gid, NEW s \in Shard,
         group'[g][s] = group[g][s], written' = written,
         \A h \in Gid, r \in Shard : h # g \/ r # s => group'[h][r] = group[h][r],
         pending' = pending, posted' = posted
  PROVE  Onward /\ Placed' /\ UpToDate' /\ group' = group
<1>1. \A h \in Gid, r \in Shard : group'[h][r] = group[h][r]
  OBVIOUS
<1>2. group \in [Gid -> [Shard -> Shards]] /\ group' \in [Gid -> [Shard -> Shards]]
  BY DEF TypeInv, Types
<1>3. \A h \in Gid : group'[h] = group[h]
  BY <1>1, <1>2
<1>4. group' = group
  BY <1>2, <1>3
<1>5. Idly
  BY <1>4 DEF Idly
<1> QED BY <1>4, <1>5, IdlyOnward DEF Hold

\* A Get or a Put changes a map only where the shard is served, and what was
\* written with it.
LEMMA AccessOnward ==
  ASSUME TypeInv, TypeInv', Hold, NEW g \in Gid, NEW k \in DOMAIN log[g],
         NEW e, NEW s, Executed(g, k, e, s), e.args \in Args,
         pending' = pending, posted' = posted,
         written' = IF e.args.op = "Put" /\ ShardDoOp(group[g][s], e.args).reply.err = "OK"
                    THEN [written EXCEPT ![e.args.key] = Append(written[e.args.key], e.args.value)]
                    ELSE written
  PROVE  Onward /\ Placed' /\ UpToDate'
<1>0. Placed /\ UpToDate /\ written \in [Key -> Seq(Value)]
  BY DEF Hold, TypeInv, Types
<1>1. s \in Shard /\ group[g][s] \in Shards
  BY WorldIs DEF Executed
<1>2. PICK sh \in Shards : sh = group[g][s]
  BY <1>1
<1>3. PICK a \in Args : a = e.args /\ s = Key2Shard[a.key] /\ a.key \in Key /\ a.value \in Value
  <2>1. s = Key2Shard[e.args.key]
    BY OpIs DEF Executed
  <2> QED BY <2>1 DEF Args
<1>4. PICK t \in Shards : t = group'[g][s]
  BY <1>1 DEF Executed
<1> DEFINE d == DoOp(sh.store, a)
           matches == a.op = "Put" /\ a.version = sh.store[a.key].version
           x == ShardDoOp(sh, a)
<1>5. /\ t.highest = sh.highest /\ t.frozen = sh.frozen /\ t.owned = sh.owned
      /\ IF sh.owned /\ ~sh.frozen THEN t.store = d.store /\ x.reply.err = d.reply.err
         ELSE t = sh /\ x.reply.err # "OK"
  <2>1. t = x.shard
    BY <1>2, <1>3, <1>4 DEF Executed
  <2> QED BY <2>1, AccessIs
<1>6. \A h \in Gid, r \in Shard : h # g \/ r # s => group'[h][r] = group[h][r]
  BY DEF Executed
<1>7. /\ d.store = IF matches
            THEN [sh.store EXCEPT ![a.key] = [value |-> a.value, version |-> sh.store[a.key].version + 1]]
            ELSE sh.store
      /\ a.op = "Put" => (d.reply.err = "OK" <=> matches)
      /\ sh.store \in Stores
  BY DoOpIs DEF Shards
<1>8. written' = IF a.op = "Put" /\ x.reply.err = "OK"
                 THEN [written EXCEPT ![a.key] = Append(written[a.key], a.value)] ELSE written
  BY <1>2, <1>3
<1> HIDE DEF d, x, matches
<1>9. CASE ~(sh.owned /\ ~sh.frozen)
  <2>1. t = sh /\ written' = written
    BY <1>5, <1>8, <1>9
  <2> QED BY <1>1, <1>2, <1>4, <1>6, <2>1, NothingExecuted
<1>10. CASE sh.owned /\ ~sh.frozen
  <2>1. t.store = d.store
        /\ written' = IF matches THEN [written EXCEPT ![a.key] = Append(written[a.key], a.value)] ELSE written
    BY <1>5, <1>7, <1>8, <1>10 DEF matches
  <2>2. Serves(g, s)
    BY <1>2, <1>10 DEF Serves, Owns
  <2>3. HasAll(sh.store, s)
    BY <1>0, <1>1, <1>2, <2>2 DEF UpToDate, Serves
  <2>4. ASSUME NEW j \in Key, j # a.key PROVE Latest(j)' = Latest(j)
    BY <1>0, <2>1, <2>4 DEF Latest
  <2>5. ASSUME NEW j \in Key, Key2Shard[j] = s PROVE t.store[j] = Latest(j)'
    <3>1. CASE j # a.key \/ ~matches
      <4>1. t.store[j] = sh.store[j]
        BY <1>7, <2>1, <3>1
      <4>2. Latest(j)' = Latest(j)
        BY <2>1, <2>4, <3>1 DEF Latest
      <4> QED BY <2>3, <2>5, <4>1, <4>2 DEF HasAll
    <3>2. CASE j = a.key /\ matches
      <4>1. t.store[j] = [value |-> a.value, version |-> sh.store[j].version + 1]
        BY <1>3, <1>7, <2>1, <3>2 DEF Stores
      <4>2. sh.store[j].version = Len(written[j]) /\ Len(written[j]) \in Nat
        BY <2>3, <2>5, LatestIs DEF HasAll
      <4>3. written'[j] = Append(written[j], a.value) /\ written[j] \in Seq(Value)
        BY <1>0, <2>1, <3>2
      <4>4. /\ Len(written'[j]) = Len(written[j]) + 1 /\ written'[j][Len(written[j]) + 1] = a.value
            /\ written'[j] # <<>>
        <5>1. PICK w \in Seq(Value), v \in Value : w = written[j] /\ v = a.value
          BY <1>3, <4>3
        <5>2. Len(Append(w, v)) = Len(w) + 1 /\ Append(w, v)[Len(w) + 1] = v /\ Append(w, v) # <<>>
          BY AppendProperties
        <5>3. written'[j] = Append(w, v)
          BY <4>3, <5>1
        <5> QED BY <5>1, <5>2, <5>3
      <4>5. Latest(j)' = [value |-> a.value, version |-> Len(written[j]) + 1]
        BY <4>4 DEF Latest
      <4> QED BY <4>1, <4>2, <4>5
    <3> QED BY <3>1, <3>2
  <2>6. ASSUME NEW h \in Gid, NEW r \in Shard
        PROVE  /\ group'[h][r].highest = group[h][r].highest
               /\ group'[h][r].owned = group[h][r].owned /\ group'[h][r].frozen = group[h][r].frozen
    <3>1. CASE h = g /\ r = s
      BY <1>2, <1>4, <1>5, <3>1
    <3>2. CASE h # g \/ r # s
      BY <1>6, <3>2
    <3> QED BY <3>1, <3>2
  <2>7. /\ Query' = Query
        /\ \A r : From(r)' = From(r) /\ To(r)' = To(r) /\ (Moves(r)' <=> Moves(r))
    BY DEF Query, From, To, Moves, Changing
  <2>8. ASSUME NEW h \in Gid, NEW r \in Shard
        PROVE  /\ Reached(h, r)' <=> Reached(h, r)
               /\ Owns(h, r)' <=> Owns(h, r)
               /\ Serves(h, r)' <=> Serves(h, r)
               /\ Settled(h, r)' <=> Settled(h, r)
    BY <2>6, <2>7 DEF Reached, Owns, Serves, Settled
  <2>9. ASSUME NEW r \in Shard, Moves(r)
        PROVE  /\ Reached(From(r), r)' <=> Reached(From(r), r)
               /\ Reached(To(r), r)' <=> Reached(To(r), r)
    <3>1. From(r) \in Gid /\ To(r) \in Gid
      BY <2>9, WorldIs
    <3> QED BY <2>6, <2>7, <3>1 DEF Reached
  <2>10. Placed'
    <3>1. ASSUME NEW h \in Gid, NEW r \in Shard
          PROVE  /\ IF group'[h][r].highest <= Query'.Num THEN Settled(h, r)' ELSE InMove(h, r)'
                 /\ ~Owns(h, r)' => group'[h][r].store = NoStore
      <4>1. InMove(h, r) => InMove(h, r)'
        BY <2>7, <2>8, <2>9 DEF InMove
      <4>2. ~Owns(h, r)' => group'[h][r].store = NoStore
        <5>1. ~Owns(h, r) => h # g \/ r # s
          BY <2>2 DEF Serves
        <5> QED BY <1>0, <1>6, <2>8, <5>1 DEF Placed
      <4> QED BY <1>0, <2>6, <2>7, <2>8, <4>1, <4>2 DEF Placed
    <3> QED BY <3>1 DEF Placed
  <2>11. ASSUME NEW r \in Shard, r # s, NEW j \in Key, Key2Shard[j] = r PROVE Latest(j)' = Latest(j)
    BY <1>3, <2>4, <2>11
  <2>12. UpToDate'
    <3>1. SUFFICES ASSUME NEW h \in Gid, NEW r \in Shard, Owns(h, r)',
                          Serves(h, r)' \/ (Moves(r)' /\ ~Reached(To(r), r)'),
                          NEW j \in Key, Key2Shard[j] = r
                   PROVE  group'[h][r].store[j] = Latest(j)'
      BY DEF UpToDate, HasAll
    <3>2. Owns(h, r) /\ (Serves(h, r) \/ (Moves(r) /\ ~Reached(To(r), r)))
      BY <2>7, <2>8, <2>9, <3>1
    <3>3. CASE r # s
      BY <1>0, <1>6, <2>11, <3>1, <3>2, <3>3 DEF UpToDate, HasAll
    <3>4. CASE r = s
      <4>1. h = g
        BY <1>0, <2>2, <3>2, <3>4, OneServer
      <4> QED BY <1>4, <2>5, <3>1, <3>4, <4>1
    <3> QED BY <3>3, <3>4
  <2>13. Onward
    <3>1. ASSUME NEW r \in Shard, Moves(r), Reached(From(r), r), ~Reached(To(r), r),
                 NEW j \in Key, Key2Shard[j] = r
          PROVE  Latest(j)' = Latest(j)
      <4>1. r # s
        BY <1>0, <2>2, <3>1, NobodyServes
      <4> QED BY <2>11, <3>1, <4>1
    <3>2. ASSUME NEW h \in Gid, NEW r \in Shard PROVE group'[h][r].highest >= group[h][r].highest
      BY <2>6, WorldIs
    <3> QED BY <2>8, <3>1, <3>2 DEF Onward
  <2> QED BY <2>10, <2>12, <2>13
<1> QED BY <1>9, <1>10

\* What is installed is all that was written.
LEMMA InstalledHasAll ==
  ASSUME TypeInv, NEW s \in Shard, NEW state, HasAll(state, s)
  PROVE  HasAll(Decoded(NoStore, state), s)
<1>1. SUFFICES ASSUME NEW k \in Key, Key2Shard[k] = s PROVE Decoded(NoStore, state)[k] = Latest(k)
  BY DEF HasAll
<1>2. state[k] = Latest(k)
  BY <1>1 DEF HasAll
<1>3. Decoded(NoStore, state)[k] = IF state[k].version = 0 THEN NoRecord ELSE state[k]
  BY DEF Decoded, NoStore
<1>4. Latest(k).version = 0 => Latest(k) = NoRecord
  <2>1. Len(written[k]) = 0 => written[k] = <<>>
    <3>1. written[k] \in Seq(Value)
      BY DEF TypeInv, Types
    <3> QED BY <3>1, EmptySeq
  <2> QED BY <2>1, LatestIs DEF Latest
<1> QED BY <1>2, <1>3, <1>4

\* The call of a controller that has an effect is one of this change, and comes
\* when it is its turn.
LEMMA EffectIs ==
  ASSUME TypeInv, Hold, NEW g \in Gid, NEW a \in ShardCalls, Ordered(g, a),
         a.num >= group[g][a.shard].highest,
         ~(a.num = group[g][a.shard].highest /\ (group[g][a.shard].owned <=> a.op = "Install"))
  PROVE  a.num = Query.Num + 1 /\ Due(a.op, g, a.shard, a.state)
<1>1. Sound(a, g) /\ a.num \in Nat /\ a.shard \in Shard
  BY DEF Hold, Orders, ShardCalls
<1>2. group[g][a.shard].highest \in Nat /\ Query.Num \in Nat
  BY <1>1, WorldIs
<1>3. ~(a.num <= Query.Num)
  <2>1. ASSUME a.num <= Query.Num PROVE FALSE
    <3>1. Spent(a.op, g, a.shard, a.num)
      BY <1>1, <2>1 DEF Sound
    <3> QED BY <1>1, <1>2, <3>1 DEF Spent, Owns
  <2> QED BY <2>1
<1> QED BY <1>1, <1>2, <1>3 DEF Sound

LEMMA ShardOnward ==
  ASSUME TypeInv, TypeInv', Hold, NEW g \in Gid, NEW k \in DOMAIN log[g],
         NEW e, NEW s, Executed(g, k, e, s), e.args \in ShardCalls, Ordered(g, e.args),
         pending' = pending, posted' = posted, written' = written
  PROVE  Onward /\ Placed' /\ UpToDate'
<1>0. Placed /\ UpToDate
  BY DEF Hold
<1>1. PICK a \in ShardCalls : a = e.args /\ s = a.shard /\ s \in Shard /\ Ordered(g, a)
  BY OpIs DEF Executed
<1>2. PICK sh \in Shards : sh = group[g][s]
  BY <1>1, WorldIs
<1>3. PICK t \in Shards : t = group'[g][s] /\ t = ShardDoOp(sh, a).shard
  BY <1>1, <1>2 DEF Executed
<1>4. \A h \in Gid, r \in Shard : h # g \/ r # s => group'[h][r] = group[h][r]
  BY DEF Executed
<1>5. \/ t = sh
      \/ /\ a.num >= sh.highest /\ ~(a.num = sh.highest /\ (sh.owned <=> a.op = "Install"))
         /\ t.highest = a.num
         /\ a.op = "Freeze" => sh.owned /\ t.owned /\ t.frozen /\ t.store = sh.store
         /\ a.op = "Install" => t.owned /\ ~t.frozen /\ t.store = Decoded(sh.store, a.state)
         /\ a.op = "Delete" => ~t.owned /\ t.store = NoStore
  BY <1>3, MoveIs
<1>6. CASE t = sh
  BY <1>1, <1>2, <1>3, <1>4, <1>6, NothingExecuted
<1>7. CASE t # sh
  <2>1. /\ a.num = Query.Num + 1 /\ Due(a.op, g, s, a.state) /\ t.highest = Query.Num + 1
        /\ sh.highest <= Query.Num + 1
    BY <1>0, <1>1, <1>2, <1>5, <1>7, EffectIs, Bounded
  <2>2. Moves(s) /\ From(s) \in Gid /\ To(s) \in Gid /\ To(s) # From(s)
    BY <1>1, <2>1, WorldIs DEF Due
  <2>3. PICK f \in Gid, d \in Gid : f = From(s) /\ d = To(s) /\ d # f
    BY <2>2
  <2>4. /\ a.op \in {"Freeze", "Install", "Delete"}
        /\ a.op # "Install" => g = f
        /\ a.op = "Install" => g = d /\ Reached(f, s) /\ (Reached(d, s) \/ HasAll(a.state, s))
        /\ a.op = "Delete" => Reached(d, s)
    BY <2>1, <2>3 DEF Due, ShardCalls
  <2>5. /\ Query' = Query
        /\ \A r : From(r)' = From(r) /\ To(r)' = To(r) /\ (Moves(r)' <=> Moves(r))
        /\ \A j : Latest(j)' = Latest(j)
    BY DEF Query, From, To, Moves, Changing, Latest
  <2>6. ASSUME NEW h \in Gid, NEW r \in Shard, h # g \/ r # s
        PROVE  /\ Reached(h, r)' <=> Reached(h, r)
               /\ Owns(h, r)' <=> Owns(h, r)
               /\ Serves(h, r)' <=> Serves(h, r)
               /\ Settled(h, r)' <=> Settled(h, r)
               /\ group'[h][r] = group[h][r]
    BY <1>4, <2>5, <2>6 DEF Reached, Owns, Serves, Settled
  <2>7. /\ Reached(g, s)' /\ (Owns(g, s)' <=> t.owned) /\ (Serves(g, s)' <=> t.owned /\ ~t.frozen)
        /\ Owns(g, s) <=> sh.owned
    BY <1>2, <1>3, <2>1, <2>5 DEF Reached, Owns, Serves
  <2>8. \A h \in Gid, r \in Shard : Reached(h, r) => Reached(h, r)'
    BY <2>6, <2>7
  <2>9. ASSUME NEW r \in Shard, Moves(r)
        PROVE  /\ Reached(From(r), r) => Reached(From(r), r)'
               /\ Reached(To(r), r) => Reached(To(r), r)'
    <3>1. PICK x \in Gid, y \in Gid : x = From(r) /\ y = To(r) /\ x = From(r)' /\ y = To(r)'
      BY <2>5, <2>9, WorldIs
    <3>2. (Reached(x, r)' <=> Reached(From(r), r)') /\ (Reached(y, r)' <=> Reached(To(r), r)')
      BY <3>1 DEF Reached
    <3> QED BY <2>8, <3>1, <3>2
  <2>10. /\ Reached(f, s)' <=> Reached(From(s), s)'
         /\ Reached(d, s)' <=> Reached(To(s), s)'
         /\ f = From(s)' /\ d = To(s)' /\ Moves(s)'
    BY <2>2, <2>3, <2>5 DEF Reached
  <2>11. a.op = "Install" => ~Reached(d, s) /\ ~Owns(d, s) /\ sh.store = NoStore /\ HasAll(a.state, s)
    <3>1. SUFFICES ASSUME a.op = "Install"
                   PROVE  ~Reached(d, s) /\ ~Owns(d, s) /\ sh.store = NoStore /\ HasAll(a.state, s)
      OBVIOUS
    <3>2. ~Reached(d, s)
      <4>1. ASSUME Reached(d, s) PROVE FALSE
        <5>1. Owns(d, s) /\ sh.highest = Query.Num + 1
          BY <1>0, <1>1, <1>2, <2>3, <2>4, <3>1, <4>1, Bounded DEF InMove, Serves, Reached
        <5> QED BY <1>5, <1>7, <2>1, <2>4, <2>7, <3>1, <5>1
      <4> QED BY <4>1
    <3>3. ~Owns(d, s)
      BY <1>0, <1>1, <2>3, <3>2, Bounded DEF Settled
    <3>4. sh.store = NoStore
      BY <1>0, <1>1, <1>2, <2>4, <3>1, <3>3, Bounded
    <3> QED BY <2>4, <3>1, <3>2, <3>3, <3>4
  <2>12. Placed'
    <3>1. SUFFICES ASSUME NEW h \in Gid, NEW r \in Shard
          PROVE  /\ IF group'[h][r].highest <= Query'.Num THEN Settled(h, r)' ELSE InMove(h, r)'
                 /\ ~Owns(h, r)' => group'[h][r].store = NoStore
      BY DEF Placed
    <3>2. CASE h # g \/ r # s
      <4>1. InMove(h, r) => InMove(h, r)'
        BY <2>5, <2>6, <2>9, <3>2 DEF InMove
      <4> QED BY <1>0, <2>5, <2>6, <3>2, <4>1 DEF Placed
    <3>3. CASE h = g /\ r = s
      <4>1. ~(group'[g][s].highest <= Query'.Num)
        BY <1>3, <2>1, <2>5, WorldIs
      <4>2. Owns(g, s)' \/ group'[g][s].store = NoStore
        BY <1>3, <1>5, <1>7, <2>4, <2>7
      <4>3. CASE a.op = "Freeze"
        <5>1. g = From(s)' /\ Owns(g, s)' /\ ~Serves(g, s)'
          BY <1>5, <1>7, <2>4, <2>7, <2>10, <4>3
        <5>2. InMove(g, s)'
          BY <2>7, <2>10, <5>1 DEF InMove
        <5> QED BY <3>3, <4>1, <4>2, <5>2
      <4>4. CASE a.op = "Install"
        <5>1. g = To(s)' /\ Serves(g, s)' /\ Reached(From(s), s)'
          BY <1>5, <1>7, <2>4, <2>7, <2>8, <1>1, <2>10, <4>4
        <5>2. InMove(g, s)'
          BY <2>7, <2>10, <5>1 DEF InMove
        <5> QED BY <3>3, <4>1, <4>2, <5>2
      <4>5. CASE a.op = "Delete"
        <5>1. g = From(s)' /\ ~Owns(g, s)' /\ Reached(To(s), s)'
          BY <1>5, <1>7, <2>4, <2>7, <2>8, <1>1, <2>10, <4>5
        <5>2. InMove(g, s)'
          BY <2>7, <2>10, <5>1 DEF InMove
        <5> QED BY <3>3, <4>1, <4>2, <5>2
      <4> QED BY <2>4, <4>3, <4>4, <4>5
    <3> QED BY <3>2, <3>3
  <2>13. UpToDate'
    <3>1. SUFFICES ASSUME NEW h \in Gid, NEW r \in Shard, Owns(h, r)',
                          Serves(h, r)' \/ (Moves(r)' /\ ~Reached(To(r), r)')
                   PROVE  HasAll(group[h][r].store, r)'
      BY DEF UpToDate
    <3>2. CASE h # g \/ r # s
      <4>1. Owns(h, r) /\ (Serves(h, r) \/ (Moves(r) /\ ~Reached(To(r), r)))
        BY <2>5, <2>6, <2>9, <3>1, <3>2
      <4>2. HasAll(group[h][r].store, r)
        BY <1>0, <4>1 DEF UpToDate
      <4> QED BY <2>5, <2>6, <3>2, <4>2 DEF HasAll
    <3>3. CASE h = g /\ r = s
      <4>1. HasAll(t.store, s)
        <5>1. CASE a.op = "Freeze"
          <6>1. t.store = group[g][s].store /\ Owns(g, s) /\ ~Reached(To(s), s)
            BY <1>1, <1>2, <1>5, <1>7, <2>2, <2>7, <2>9, <3>1, <3>3, <5>1
          <6> QED BY <1>0, <1>1, <2>2, <6>1 DEF UpToDate
        <5>2. CASE a.op = "Install"
          <6>1. t.store = Decoded(NoStore, a.state)
            BY <1>5, <1>7, <2>11, <5>2
          <6> QED BY <1>1, <2>11, <5>2, <6>1, InstalledHasAll
        <5>3. CASE a.op = "Delete"
          BY <1>5, <1>7, <2>7, <3>1, <3>3, <5>3
        <5> QED BY <2>4, <5>1, <5>2, <5>3
      <4> QED BY <1>3, <2>5, <3>3, <4>1 DEF HasAll
    <3> QED BY <3>2, <3>3
  <2>14. Onward
    <3>1. ASSUME NEW h \in Gid, NEW r \in Shard
          PROVE  /\ group'[h][r].highest >= group[h][r].highest
                 /\ group'[h][r].highest = group[h][r].highest =>
                      \/ Owns(h, r)' <=> Owns(h, r)
                      \/ Reached(h, r) /\ Owns(h, r) /\ ~Owns(h, r)'
      <4>1. CASE h # g \/ r # s
        BY <2>6, <4>1, WorldIs
      <4>2. CASE h = g /\ r = s
        <5>1. group'[g][s].highest >= group[g][s].highest
          BY <1>2, <1>3, <2>1, WorldIs
        <5>2. ASSUME group'[g][s].highest = group[g][s].highest
              PROVE  \/ Owns(g, s)' <=> Owns(g, s)
                     \/ Reached(g, s) /\ Owns(g, s) /\ ~Owns(g, s)'
          <6>1. Reached(g, s)
            BY <1>3, <2>1, <5>2 DEF Reached
          <6>2. a.op # "Install"
            BY <2>4, <2>11, <6>1
          <6> QED BY <1>5, <1>7, <2>4, <2>7, <6>1, <6>2
        <5> QED BY <4>2, <5>1, <5>2
      <4> QED BY <4>1, <4>2
    <3> QED BY <2>5, <3>1 DEF Onward
  <2> QED BY <2>12, <2>13, <2>14
<1> QED BY <1>6, <1>7

\* What the controller that waits is told is sound.
LEMMA ToldIsSound ==
  ASSUME TypeInv, TypeInv', Hold, NEW g \in Gid, NEW k \in DOMAIN log[g],
         NEW e, NEW s, Executed(g, k, e, s), e.args \in ShardCalls,
         pending' = pending, posted' = posted, written' = written,
         Placed', UpToDate', Onward,
         NEW c \in Controller, NEW r \in Ctls, ctl[c] = r, e.awaited, e.from = c,
         NEW x \in ShardReplies, x = ShardDoOp(group[g][s], e.args).reply
  PROVE  AnswerSound(r, x)'
<1>0. Placed /\ CtlSound(r) /\ CtlFits(r)
  BY DEF Hold, TypeInv
<1>1. ctl[c].step = "wait" /\ g = TargetOf(ctl[c]) /\ log[g][k].args = CallOf(ctl[c])
  <2>1. InOrder(c) /\ e = log[g][k] /\ k \in Nat
    <3>1. Types
      BY DEF TypeInv
    <3> QED BY <3>1, LogIs DEF TypeInv, Executed
  <2>2. Waits(c, g, k)
    BY <2>1 DEF Waits
  <2> QED BY <2>1, <2>2 DEF InOrder
<1>2. r.step = "wait" /\ g = TargetOf(r) /\ e.args = CallOf(r) /\ r.at \in Phases
  BY <1>0, <1>1 DEF Executed, CtlFits
<1>3. PICK a \in ShardCalls :
        /\ a = e.args /\ s = a.shard /\ s \in Shard /\ s = r.shard /\ a.op = r.at
        /\ a.num = r.new.Num /\ a.state = r.state
  BY <1>0, <1>2, CallIs, OpIs DEF Executed
<1>4. PICK sh \in Shards : sh = group[g][s]
  BY <1>3, WorldIs
<1>5. PICK t \in Shards : t = group'[g][s] /\ t = ShardDoOp(sh, a).shard /\ x = ShardDoOp(sh, a).reply
  BY <1>3, <1>4 DEF Executed
<1>6. \/ /\ t = sh /\ x.err = "ErrStale"
         /\ a.num < sh.highest \/ (a.op = "Freeze" /\ ~sh.owned /\ a.num > sh.highest)
      \/ t = sh /\ x.err = "OK" /\ a.num = sh.highest /\ (sh.owned <=> a.op = "Install")
      \/ /\ x.err = "OK" /\ t.highest = a.num
         /\ a.op = "Freeze" => t.owned /\ t.store = sh.store /\ x.state = sh.store
         /\ a.op = "Delete" => ~t.owned
  BY <1>5, MoveIs
<1>7. Query' = Query /\ (Ahead(r)' <=> Ahead(r)) /\ Query.Num \in Nat /\ r.new.Num \in Nat
  BY WorldIs DEF Query, Ahead, Ctls, Config
<1>8. CASE ~Ahead(r)
  BY <1>7, <1>8 DEF AnswerSound
<1>9. CASE Ahead(r)
  <2>1. a.num = Query.Num + 1
    BY <1>0, <1>2, <1>3, <1>7, <1>9 DEF CtlFits, Ahead, Phases
  <2>2. Due(a.op, g, s, a.state)
    BY <1>0, <1>2, <1>3, <1>9 DEF CtlSound
  <2>3. Moves(s) /\ From(s) \in Gid /\ To(s) \in Gid /\ To(s) # From(s)
    BY <1>3, <2>2, WorldIs DEF Due
  <2>4. PICK f \in Gid, d \in Gid : f = From(s) /\ d = To(s) /\ d # f
    BY <2>3
  <2>5. /\ Moves(s)' /\ f = From(s)' /\ d = To(s)'
        /\ Reached(f, s)' <=> Reached(From(s), s)'
        /\ Reached(d, s)' <=> Reached(To(s), s)'
        /\ Owns(f, s)' <=> Owns(From(s), s)'
    BY <2>3, <2>4 DEF Query, From, To, Moves, Changing, Reached, Owns
  <2>6. a.op \in {"Freeze", "Install", "Delete"} /\ g = IF a.op = "Install" THEN d ELSE f
    BY <2>2, <2>4 DEF Due, ShardCalls
  <2>7. x.err # "ErrStale"
    <3>1. ASSUME x.err = "ErrStale" PROVE FALSE
      <4>1. sh.highest <= Query.Num + 1 /\ sh.highest \in Nat
        BY <1>0, <1>3, <1>4, Bounded, WorldIs
      <4>2. a.op = "Freeze" /\ ~sh.owned /\ sh.highest < Query.Num + 1
        BY <1>6, <1>7, <2>1, <3>1, <4>1
      <4>3. ~Reached(g, s) /\ ~Owns(g, s) /\ g = From(s)
        BY <1>4, <2>4, <2>6, <4>1, <4>2 DEF Reached, Owns
      <4> QED BY <1>0, <1>3, <4>3, Bounded DEF Settled
    <3> QED BY <3>1
  <2>8. Reached(g, s)' /\ (Owns(g, s)' <=> t.owned)
    BY <1>5, <1>6, <1>7, <2>1, <2>7 DEF Reached, Owns
  <2>9. ASSUME a.op = "Freeze" PROVE (Reached(To(s), s) \/ HasAll(x.state, s))'
    <3>1. CASE t = sh /\ ~sh.owned
      <4>1. Reached(g, s) /\ ~Owns(g, s) /\ g = f
        BY <1>4, <1>5, <1>7, <2>6, <2>8, <2>9, <3>1 DEF Reached, Owns
      <4>2. Reached(d, s)
        BY <1>0, <1>3, <2>4, <4>1, Bounded DEF InMove, Serves
      <4>3. Reached(d, s)'
        BY <1>0, <1>3, <4>2, OnwardKeeps
      <4> QED BY <2>5, <4>3
    <3>2. CASE t.owned /\ t.store = sh.store /\ x.state = sh.store
      <4>1. Owns(g, s)' /\ x.state = group'[g][s].store
        BY <1>5, <2>8, <3>2
      <4>2. ~Reached(To(s), s)' => HasAll(group[g][s].store, s)'
        <5>1. UpToDate'
          OBVIOUS
        <5> QED BY <1>3, <2>5, <4>1, <5>1 DEF UpToDate
      <4>3. HasAll(group[g][s].store, s)' => HasAll(x.state, s)'
        BY <4>1 DEF HasAll
      <4> QED BY <4>2, <4>3
    <3> QED BY <1>6, <2>7, <2>9, <3>1, <3>2
  <2>10. a.op = "Delete" => ~t.owned
    BY <1>6, <2>7
  <2>11. /\ a.op = "Freeze" => Reached(From(s), s)'
         /\ a.op = "Install" => Reached(To(s), s)'
         /\ a.op = "Delete" => Reached(From(s), s)' /\ ~Owns(From(s), s)'
    BY <2>5, <2>6, <2>8, <2>10
  <2> QED BY <1>3, <2>5, <2>7, <2>9, <2>11 DEF AnswerSound
<1> QED BY <1>8, <1>9

LEMMA ExecutionHolds ==
  ASSUME TypeInv, TypeInv', Hold, NEW g \in Gid, NEW k \in DOMAIN log[g], Execution(g, k)
  PROVE  Hold'
<1>1. /\ pending' = pending /\ posted' = posted /\ ctl' = ctl
      /\ \A h \in Gid, a \in ShardCalls : Ordered(h, a)' => Ordered(h, a)
  BY ExecutionIs
<1>2. PICK e, s : /\ Executed(g, k, e, s) /\ Ordered(g, e.args)
                  /\ written' = IF e.args.op = "Put" /\ ShardDoOp(group[g][s], e.args).reply.err = "OK"
                       THEN [written EXCEPT ![e.args.key] = Append(written[e.args.key], e.args.value)]
                       ELSE written
  BY ExecutionIs
<1>3. e.args \in Args \cup ShardCalls /\ e.from \in Actor /\ e.from \in Controller \cup Client
      /\ e = log[g][k]
  BY <1>2, Actors DEF Executed, Entries
<1>4. e.args \in ShardCalls => written' = written
  BY <1>2, OpIs
<1>5. Onward /\ Placed' /\ UpToDate'
  <2>1. CASE e.args \in Args
    BY <1>1, <1>2, <2>1, AccessOnward
  <2>2. CASE e.args \in ShardCalls
    BY <1>1, <1>2, <1>4, <2>2, ShardOnward
  <2> QED BY <1>3, <2>1, <2>2
<1>6. ASSUME NEW d \in Controller, NEW r \in Ctls, NEW a \in ShardReplies, ctl'[d] = r, answer'[d] = a
      PROVE  (ctl[d] = r /\ answer[d] = a) \/ a.err = "none" \/ AnswerSound(r, a)'
  <2>1. d \in Actor /\ answer \in [Actor -> ShardReplies] /\ ctl[d] = r
    BY <1>1, <1>6, Actors DEF TypeInv, Types
  <2>2. CASE ~(e.awaited /\ e.from = d)
    BY <1>2, <1>3, <1>6, <2>1, <2>2 DEF Executed
  <2>3. CASE e.awaited /\ e.from = d
    <3>1. a = ShardDoOp(group[g][s], e.args).reply
      BY <1>2, <1>3, <1>6, <2>1, <2>3 DEF Executed
    <3>2. e.args \in ShardCalls
      <4>1. InOrder(d) /\ k \in Nat /\ Types /\ ctl[d] \in Ctls /\ CtlFits(ctl[d])
        <5>1. Types
          BY DEF TypeInv
        <5> QED BY <2>1, <5>1, LogIs, CtlIs DEF TypeInv
      <4>2. Waits(d, g, k)
        BY <1>3, <2>3 DEF Waits
      <4>3. ctl[d].step = "wait" /\ e.args = CallOf(ctl[d])
        BY <1>3, <4>1, <4>2 DEF InOrder
      <4>4. ctl[d].at \in Phases
        BY <4>1, <4>3 DEF CtlFits
      <4> QED BY <4>1, <4>3, <4>4, CallIs
    <3> QED BY <1>1, <1>2, <1>4, <1>5, <2>1, <2>3, <3>1, <3>2, ToldIsSound
  <2> QED BY <2>2, <2>3
<1> QED BY <1>1, <1>5, <1>6, HoldsOn

-----------------------------------------------------------------------------
(* The clerks, and every step.                                             *)

LEMMA ClerkHolds ==
  ASSUME TypeInv, TypeInv', Hold, NEW c \in Client,
         CallsNext(c) \/ Locate(c) \/ AskGroup(c) \/ AskFails(c) \/ AskMaybe(c) \/ AskReturns(c)
  PROVE  Hold'
<1>1. \A d \in Controller : d \in Actor /\ d # c
  BY Actors
<1>2. CASE CallsNext(c) \/ Locate(c)
  <2>1. Idly /\ ctl' = ctl /\ answer' = answer /\ log' = log
    BY <1>2 DEF CallsNext, Locate, grp, ctrler, Idly
  <2>2. \A g \in Gid, a \in ShardCalls : Ordered(g, a)' => Ordered(g, a)
    BY <2>1 DEF Ordered
  <2> QED BY <2>1, <2>2, ClerkMove
<1>3. CASE AskGroup(c)
  <2> DEFINE h == client[c].gid
             b == client[c].args
  <2>1. Idly /\ ctl' = ctl /\ answer' = answer
    BY <1>3 DEF AskGroup, Send, ctrler, Idly
  <2>2. SentTo(c, h, b) /\ b \in Args
    BY <1>3, AskGroupTypes
  <2> HIDE DEF h, b
  <2>3. ASSUME NEW g \in Gid, NEW a \in ShardCalls, Ordered(g, a)' PROVE Ordered(g, a)
    <3>1. PICK k \in DOMAIN log'[g] : log'[g][k].args = a
      BY <2>3 DEF Ordered
    <3>2. k \in Nat
      <4>1. log'[g] \in Seq(Entries)
        BY DEF TypeInv, Types
      <4> QED BY <3>1, <4>1, LenProperties
    <3>3. CASE k \in DOMAIN log[g]
      <4>1. log[g][k].args = a
        BY <2>2, <3>1, <3>3 DEF SentTo
      <4> QED BY <3>3, <4>1 DEF Ordered
    <3>4. CASE g = h /\ k = Len(log[h]) + 1
      <4>1. a = b
        BY <2>2, <3>1, <3>4 DEF SentTo
      <4> QED BY <2>2, <4>1 DEF Args, ShardCalls
    <3> QED BY <2>2, <3>1, <3>2, <3>3, <3>4 DEF SentTo
  <2> QED BY <2>1, <2>3, ClerkMove
<1>4. CASE AskFails(c) \/ AskMaybe(c)
  <2>1. Gave(c) /\ (\A d \in Actor : answer'[d] = answer[d]) /\ UNCHANGED <<group, ctrler, written>>
    BY <1>4, AskEndsTypes
  <2>2. Idly /\ ctl' = ctl
    BY <2>1 DEF ctrler, Idly
  <2>3. \A g \in Gid, a \in ShardCalls : Ordered(g, a)' => Ordered(g, a)
    BY <2>1, GaveOrders
  <2> QED BY <1>1, <2>1, <2>2, <2>3, ClerkMove
<1>5. CASE AskReturns(c)
  <2>1. log' = log /\ (\A d \in Actor : d # c => answer'[d] = answer[d])
        /\ UNCHANGED <<group, ctrler, written>>
    BY <1>5, AskReturnsTypes
  <2>2. Idly /\ ctl' = ctl
    BY <2>1 DEF ctrler, Idly
  <2>3. \A g \in Gid, a \in ShardCalls : Ordered(g, a)' => Ordered(g, a)
    BY <2>1 DEF Ordered
  <2> QED BY <1>1, <2>1, <2>2, <2>3, ClerkMove
<1> QED BY <1>2, <1>3, <1>4, <1>5

LEMMA ControllerHolds ==
  ASSUME TypeInv, TypeInv', Hold, ~Misled, NEW c \in Controller, ControllerStep(c), UNCHANGED kvs
  PROVE  Hold'
<1>1. CASE Start(c) \/ Recover(c) \/ Resume(c)
  BY <1>1, StartHolds
<1>2. CASE GetPending(c) \/ CreatePending(c) \/ ReplacePending(c)
  BY <1>2, GetPendingHolds, PendingHolds
<1>3. CASE MoveShard(c) \/ CheckStale(c) \/ CallGroup(c)
  BY <1>3, MoveShardHolds, CheckStaleHolds, CallGroupHolds
<1>4. CASE CallFails(c) \/ CallReturns(c) \/ Die(c)
  BY <1>4, GivesUpHolds, CallReturnsHolds
<1>5. CASE GetPosted(c) \/ PutPosted(c)
  BY <1>5, GetPostedHolds, PutPostedHolds
<1> QED BY <1>1, <1>2, <1>3, <1>4, <1>5 DEF ControllerStep

LEMMA StepHolds ==
  ASSUME ~Misled, TypeInv, TypeInv', Hold, [SKNext]_skvars
  PROVE  Hold'
<1>1. CASE \E c \in Controller : ControllerStep(c) /\ UNCHANGED kvs
  BY <1>1, ControllerHolds
<1>2. CASE \E c \in Client :
       CallsNext(c) \/ Locate(c) \/ AskGroup(c) \/ AskFails(c) \/ AskMaybe(c) \/ AskReturns(c)
  BY <1>2, ClerkHolds
<1>3. CASE \E g \in Gid : \E k \in DOMAIN log[g] : Execution(g, k)
  BY <1>3, ExecutionHolds
<1>4. CASE UNCHANGED skvars
  <2>1. Idly /\ ctl' = ctl /\ answer' = answer /\ log' = log
    BY <1>4 DEF skvars, grp, ctrler, kvs, Idly
  <2>2. \A g \in Gid, a \in ShardCalls : Ordered(g, a)' => Ordered(g, a)
    BY <2>1 DEF Ordered
  <2> QED BY <2>1, <2>2, ClerkMove
<1> QED BY <1>1, <1>2, <1>3, <1>4 DEF SKNext

LEMMA FirstHolds ==
  ASSUME SKInit
  PROVE  Hold
<1>1. /\ log = [g \in Gid |-> <<>>] /\ answer = [a \in Actor |-> NoAnswer]
      /\ posted = [cfg |-> FirstConfig, ver |-> 1]
      /\ ctl = [c \in Controller |-> NoChange] /\ written = [k \in Key |-> <<>>]
  BY DEF SKInit, CtrlInit, GrpInit
<1>2. Query.Num = 1 /\ \A s \in Shard : From(s) = Gid1
  BY <1>1, FirstTypes DEF Query, From, GidServers
<1>3. ASSUME NEW g \in Gid, NEW s \in Shard
      PROVE  /\ group[g][s].highest <= Query.Num /\ Settled(g, s) /\ group[g][s].store = NoStore
  BY <1>2, <1>3, FirstStores DEF Settled, Serves, Owns
<1>4. Placed
  BY <1>3 DEF Placed
<1>5. UpToDate
  <2>1. \A k \in Key : NoStore[k] = Latest(k)
    BY <1>1 DEF NoStore, Latest
  <2> QED BY <1>3, <2>1 DEF UpToDate, HasAll
<1>6. Orders
  <2>1. \A g \in Gid : log[g] = <<>>
    BY <1>1
  <2>2. DOMAIN <<>> = {}
    BY EmptySeq
  <2> QED BY <2>1, <2>2 DEF Orders, Ordered
<1>7. ASSUME NEW c \in Controller, NEW r \in Ctls, ctl[c] = r PROVE CtlSound(r)
  <2>1. r = NoChange
    BY <1>1, <1>7
  <2> QED BY <2>1, IdleSound
<1>8. ASSUME NEW c \in Controller, NEW r \in Ctls, NEW a \in ShardReplies, answer[c] = a
      PROVE  AnswerSound(r, a)
  <2>1. a = NoAnswer
    BY <1>1, <1>8, Actors
  <2> QED BY <2>1, EmptyTypes DEF AnswerSound
<1> QED BY <1>4, <1>5, <1>6, <1>7, <1>8 DEF Hold

\* Unless a controller takes the failure of its first Put for its success, the
\* shards are where the two configurations say.
LEMMA MoveInvariant ==
  ASSUME ~Misled
  PROVE  SKSpec => []Hold
<1>1. SKInit => Hold
  BY FirstHolds
<1>2. TypeInv /\ TypeInv' /\ Hold /\ [SKNext]_skvars => Hold'
  BY StepHolds
<1> QED BY <1>1, <1>2, TypeInvariant, PTL DEF SKSpec

-----------------------------------------------------------------------------
(* What that means for the clients and the controllers, if no controller   *)
(* is Misled (shardctrler.go:114); one that is may go on beside another    *)
(* with a different configuration of the same number.                      *)

\* While shards move from group to group, and no controller is Misled, no shard
\* is served by two groups, and the one that serves it has all that was written
\* to it: no Freeze, Install or Delete that arrives late takes it back, whoever
\* sent it.
THEOREM ShardsServeLatest ==
  ASSUME ~Misled
  PROVE  SKSpec => []ServesLatest
<1>1. ASSUME TypeInv, Hold PROVE ServesLatest
  <2>1. Placed /\ UpToDate
    BY <1>1 DEF Hold
  <2>2. ASSUME NEW s \in Shard, NEW g \in Gid, NEW h \in Gid, Serves(g, s), Serves(h, s)
        PROVE  g = h
    <3>1. Owns(h, s)
      BY <2>2 DEF Serves
    <3> QED BY <1>1, <2>1, <2>2, <3>1, OneServer
  <2>3. ASSUME NEW s \in Shard, NEW g \in Gid, NEW k \in Key, Serves(g, s), Key2Shard[k] = s
        PROVE  group[g][s].store[k] = Latest(k)
    BY <2>1, <2>3 DEF UpToDate, HasAll, Serves
  <2> QED BY <2>2, <2>3 DEF ServesLatest
<1> QED BY <1>1, TypeInvariant, MoveInvariant, PTL

\* The posted configuration spreads the shards evenly over its groups, and once
\* nothing is pending it is the truth, unless a controller is Misled: every
\* shard is served by the group it names, and no other group keeps a copy.
THEOREM PostedIsServed ==
  ASSUME ~Misled
  PROVE  SKSpec => []PostedServes
<1>1. ASSUME TypeInv, Hold PROVE PostedServes
  <2>1. CheckConfig(Query)
    <3>1. Good(Query)
      BY <1>1 DEF TypeInv, Keys
    <3> QED BY <3>1 DEF Good, CheckConfig
  <2>2. ASSUME pending.cfg.Num <= Query.Num, NEW s \in Shard, NEW g \in Gid
        PROVE  /\ Serves(g, s) <=> g = GidServers(Query, s)
               /\ Owns(g, s) => Serves(g, s)
    <3>1. ~Changing
      BY <1>1, <2>2, WorldIs DEF Changing
    <3>2. ~Reached(g, s) /\ Placed
      BY <1>1, <3>1, Bounded DEF Hold, InMove, Moves
    <3>3. Settled(g, s)
      BY <1>1, <3>2, Bounded
    <3> QED BY <3>3 DEF Settled, From, Serves
  <2> QED BY <2>1, <2>2 DEF PostedServes
<1> QED BY <1>1, TypeInvariant, MoveInvariant, PTL

\* A controller that a group calls stale may give up for good, if none is
\* Misled: what it was about to do has been finished, and posted, by another.
THEOREM StaleMayGiveUp ==
  ASSUME ~Misled
  PROVE  SKSpec => []StaleIsSuperseded
<1>1. ASSUME TypeInv, Hold PROVE StaleIsSuperseded
  <2>1. ASSUME NEW c \in Controller, answer[c].err = "ErrStale" PROVE Superseded(c)
    BY <1>1, <2>1, CtlOf DEF AnswerSound, Hold
  <2> QED BY <2>1 DEF StaleIsSuperseded
<1> QED BY <1>1, TypeInvariant, MoveInvariant, PTL

-----------------------------------------------------------------------------
(* What the clients are told.  The history of a key holds values, and a    *)
(* value tells whose it is if no two calls put the same one to a key.      *)

PutsDiffer ==
  \A c, d \in Client : \A i \in 1 .. Len(Script[c]), j \in 1 .. Len(Script[d]) :
    \A a \in Script[c][i], b \in Script[d][j] :
      a.op = "Put" /\ b.op = "Put" /\ a.key = b.key /\ a.value = b.value => c = d /\ i = j

\* The i-th call of client c, under way or returned, is of a.
Called(c, i, a) ==
  \/ i \in 1 .. Len(done[c]) /\ done[c][i].args = a
  \/ i = Len(done[c]) + 1 /\ client[c].at # "idle" /\ client[c].args = a

\* Put a has taken effect.  Entry k of g's log has lost its chance: g does not
\* serve the shard, and no Install that would change that is before it.
Wrote(a) == a.version + 1 \in 1 .. Len(written[a.key]) /\ written[a.key][a.version + 1] = a.value
Late(g, k) ==
  LET s == ShardOf(log[g][k].args) IN
  /\ ~Serves(g, s)
  /\ \A j \in DOMAIN log[g] :
       j < k /\ log[g][j].args.op = "Install" /\ log[g][j].args.shard = s
       => log[g][j].args.num <= group[g][s].highest
Never(a) == ~Wrote(a) /\ \A g \in Gid : \A k \in DOMAIN log[g] : log[g][k].args = a => Late(g, k)

\* What is true of a call of a that began when floor values were written.
Truth(a, floor, err, value, version) ==
  IF a.op = "Put"
  THEN /\ err = "OK" => Wrote(a)
       /\ err \in {"ErrVersion", "ErrNoKey"} => Never(a)
  ELSE /\ version >= floor /\ version <= Len(written[a.key])
       /\ err = IF version = 0 THEN "ErrNoKey" ELSE "OK"
       /\ version > 0 => value = written[a.key][version]

\* The calls are the script's; what is in a log or in a store comes from them.
AsScripted(c) == \A i, a : Called(c, i, a) => i \in 1 .. Len(Script[c]) /\ a \in Script[c][i]
LogIsCalls == \A g \in Gid : \A k \in DOMAIN log[g] :
  log[g][k].args \in Args =>
    log[g][k].from \in Client /\ \E i : Called(log[g][k].from, i, log[g][k].args)
WrittenIsCalls == \A k \in Key : \A n \in 1 .. Len(written[k]) :
  \E c \in Client, i \in Nat : Called(c, i, PutArgs(k, written[k][n], n - 1))

\* A client waits for the last operation it has in a log.  The first copy of a
\* Put is the only one, and has no effect before it is answered.
WaitsForLast(c) == \A g \in Gid : \A k \in Nat : Waits(c, g, k) =>
  /\ log[g][k].args = client[c].args
  /\ \A j \in DOMAIN log[g] : j > k => log[g][j].from # c
FirstCopy(c) == client[c].at # "idle" /\ ~client[c].resent /\ client[c].args.op = "Put" =>
  /\ \A g \in Gid : \A k \in DOMAIN log[g] :
       log[g][k].from = c /\ log[g][k].args = client[c].args => Waits(c, g, k)
  /\ ~Answered(c) => ~Wrote(client[c].args)

\* What is answered and what is returned is true.
NotYet(c) == client[c].at # "idle" => client[c].floor <= Len(written[client[c].args.key])
AnswerHolds(c) == Answered(c) /\ answer[c].err \notin {"ErrWrongGroup", "ErrFrozen"} =>
  Truth(client[c].args, client[c].floor, Told(c), answer[c].value, answer[c].version)
ReturnsHold(c) == \A i \in 1 .. Len(done[c]) :
  LET d == done[c][i] IN Truth(d.args, d.floor, d.err, d.value, d.version)
ToldTrue(c) ==
  /\ AsScripted(c) /\ WaitsForLast(c) /\ FirstCopy(c)
  /\ NotYet(c) /\ AnswerHolds(c) /\ ReturnsHold(c)

AllTold == LogIsCalls /\ WrittenIsCalls /\ \A c \in Client : ToldTrue(c)

LEMMA CalledIs ==
  ASSUME TypeInv, NEW c \in Client, NEW i, NEW a, Called(c, i, a)
  PROVE  /\ a \in Args /\ i \in Nat /\ i >= 1 /\ a.op \in {"Get", "Put"} /\ a.key \in Key
         /\ a.version \in Nat
         /\ \A b : Called(c, i, b) => b = a
         /\ a.op = "Put" => a = PutArgs(a.key, a.value, a.version)
<1>1. done[c] \in Seq(Returned) /\ Len(done[c]) \in Nat
  BY ClerkIs
<1>2. a \in Args
  <2>1. CASE i \in 1 .. Len(done[c]) /\ done[c][i].args = a
    <3>1. done[c][i] \in Returned
      BY <1>1, <2>1, ElementOfSeq
    <3> QED BY <2>1, <3>1 DEF Returned
  <2>2. CASE client[c].at # "idle" /\ client[c].args = a
    BY <2>2, ClerkIs
  <2> QED BY <2>1, <2>2 DEF Called
<1>3. i \in Nat /\ i >= 1 /\ \A b : Called(c, i, b) => b = a
  BY <1>1 DEF Called
<1>4. a.op = "Put" => a = PutArgs(a.key, a.value, a.version)
  BY <1>2 DEF Args, PutArgs
<1> QED BY <1>2, <1>3, <1>4 DEF Args

LEMMA SamePut ==
  ASSUME PutsDiffer, TypeInv, NEW c \in Client, NEW d \in Client, AsScripted(c), AsScripted(d),
         NEW i, NEW j, NEW a, NEW b, Called(c, i, a), Called(d, j, b),
         a.op = "Put", b.op = "Put", a.key = b.key, a.value = b.value
  PROVE  c = d /\ i = j /\ a = b
<1>1. c = d /\ i = j
  BY DEF PutsDiffer, AsScripted
<1> QED BY <1>1, CalledIs

-----------------------------------------------------------------------------
(* Steps that write nothing.                                               *)

\* Actor x appends an operation of N to a log, or stops waiting, or neither.
LogGoes(x, N) ==
  \A h \in Gid :
    /\ DOMAIN log[h] \subseteq DOMAIN log'[h]
    /\ \A k \in DOMAIN log'[h] :
         \/ /\ k \in DOMAIN log[h] /\ log'[h][k].args = log[h][k].args
            /\ log'[h][k].from = log[h][k].from
            /\ log'[h][k].awaited => log[h][k].awaited
            /\ log[h][k].from # x => (log'[h][k].awaited <=> log[h][k].awaited)
         \/ /\ k \notin DOMAIN log[h] /\ (\A j \in DOMAIN log[h] : j < k)
            /\ k = Len(log'[h])
            /\ log'[h][k].from = x /\ log'[h][k].args \in N /\ log'[h][k].awaited

LEMMA LogsAre ==
  ASSUME TypeInv
  PROVE  \A h \in Gid : /\ DOMAIN log[h] = 1 .. Len(log[h]) /\ Len(log[h]) \in Nat
                        /\ \A k \in DOMAIN log[h] : k \in Nat /\ log[h][k] \in Entries
BY LogIs DEF TypeInv

LEMMA SentGoes ==
  ASSUME TypeInv, TypeInv', NEW c, NEW g \in Gid, NEW a, SentTo(c, g, a)
  PROVE  LogGoes(c, {a})
<1>0. ASSUME NEW h \in Gid
      PROVE  /\ DOMAIN log'[h] = 1 .. Len(log'[h]) /\ Len(log'[h]) \in Nat
             /\ DOMAIN log[h] = 1 .. Len(log[h]) /\ Len(log[h]) \in Nat
  <2>1. log'[h] \in Seq(Entries) /\ log[h] \in Seq(Entries)
    BY DEF TypeInv, Types
  <2> QED BY <2>1, LenProperties
<1>1. ASSUME NEW h \in Gid PROVE DOMAIN log[h] \subseteq DOMAIN log'[h]
  BY <1>0 DEF SentTo
<1>2. ASSUME NEW h \in Gid, NEW k \in DOMAIN log'[h], k \notin DOMAIN log[h]
      PROVE  /\ (\A j \in DOMAIN log[h] : j < k) /\ k = Len(log'[h])
             /\ log'[h][k].from = c /\ log'[h][k].args \in {a} /\ log'[h][k].awaited
  <2>1. k \in Nat
    BY <1>0
  <2>2. h = g /\ k = Len(log[g]) + 1
    BY <1>2, <2>1 DEF SentTo
  <2>3. Len(log'[h]) \in DOMAIN log'[h] /\ k <= Len(log'[h]) /\ Len(log[h]) < k
    BY <1>0, <2>2
  <2>4. Len(log'[h]) = k
    BY <1>0, <2>2, <2>3 DEF SentTo
  <2>5. \A j \in DOMAIN log[h] : j < k
    BY <1>0, <2>2
  <2> QED BY <2>2, <2>4, <2>5 DEF SentTo
<1>3. ASSUME NEW h \in Gid, NEW k \in DOMAIN log[h] PROVE log'[h][k] = log[h][k]
  BY DEF SentTo
<1> QED BY <1>1, <1>2, <1>3 DEF LogGoes

LEMMA GaveGoes ==
  ASSUME TypeInv, NEW c, Gave(c)
  PROVE  LogGoes(c, {})
<1>1. Types
  BY DEF TypeInv
<1>2. ASSUME NEW h \in Gid
      PROVE  /\ DOMAIN log'[h] = DOMAIN log[h]
             /\ \A k \in DOMAIN log[h] :
                  /\ log'[h][k].args = log[h][k].args /\ log'[h][k].from = log[h][k].from
                  /\ log'[h][k].awaited <=> log[h][k].awaited /\ log[h][k].from # c
  BY <1>1, GiveTypes
<1> QED BY <1>2 DEF LogGoes

LEMMA SameGoes ==
  ASSUME log' = log, NEW x
  PROVE  LogGoes(x, {})
BY DEF LogGoes

LEMMA NeverGoesOn ==
  ASSUME TypeInv, TypeInv', NEW x, NEW N, LogGoes(x, N), group' = group, written' = written,
         NEW a, Never(a), a \notin N
  PROVE  Never(a)'
<1>1. ~Wrote(a)'
  BY DEF Never, Wrote
<1>2. ASSUME NEW g \in Gid, NEW k \in DOMAIN log'[g], log'[g][k].args = a PROVE Late(g, k)'
  <2>1. k \in DOMAIN log[g] /\ log[g][k].args = a /\ log'[g][k].args = log[g][k].args
    BY <1>2 DEF LogGoes
  <2>2. Late(g, k)
    BY <2>1 DEF Never
  <2>3. ASSUME NEW j \in DOMAIN log'[g], j < k PROVE j \in DOMAIN log[g] /\ log'[g][j].args = log[g][j].args
    <3>1. j \in Nat /\ j >= 1
      <4>1. log'[g] \in Seq(Entries)
        BY DEF TypeInv, Types
      <4> QED BY <4>1, LenProperties
    <3>2. j \in DOMAIN log[g]
      BY <2>1, <2>3, <3>1, LogsAre
    <3> QED BY <3>2 DEF LogGoes
  <2> QED BY <2>1, <2>2, <2>3 DEF Late, Serves, Owns
<1> QED BY <1>1, <1>2 DEF Never

LEMMA TruthGoesOn ==
  ASSUME TypeInv, TypeInv', NEW x, NEW N, LogGoes(x, N), group' = group, written' = written,
         NEW a, NEW floor, NEW err, NEW value, NEW version,
         Truth(a, floor, err, value, version), a.op = "Put" => a \notin N
  PROVE  Truth(a, floor, err, value, version)'
<1>1. Wrote(a)' <=> Wrote(a)
  BY DEF Wrote
<1>2. a.op = "Put" /\ Never(a) => Never(a)'
  BY NeverGoesOn
<1> QED BY <1>1, <1>2 DEF Truth

\* What is sent is a controller's call or that of the client that acts.
Sends(x, N) == \A n \in N : n \in ShardCalls \/ (x \in Client /\ \E i : Called(x, i, n))

LEMMA OthersTold ==
  ASSUME PutsDiffer, TypeInv, TypeInv', AllTold, NEW x, NEW N, LogGoes(x, N), Sends(x, N),
         group' = group, written' = written, NEW d \in Client, d # x,
         client'[d] = client[d], done'[d] = done[d], answer'[d] = answer[d]
  PROVE  ToldTrue(d)'
<1>0. ToldTrue(d)
  BY DEF AllTold
<1>1. \A i, a : Called(d, i, a)' <=> Called(d, i, a)
  BY DEF Called
<1>2. AsScripted(d)'
  BY <1>0, <1>1 DEF AsScripted, ToldTrue
<1>3. WaitsForLast(d)'
  <2>1. SUFFICES ASSUME NEW g \in Gid, NEW k \in Nat, Waits(d, g, k)'
        PROVE  /\ log'[g][k].args = client'[d].args
               /\ \A j \in DOMAIN log'[g] : j > k => log'[g][j].from # d
    BY DEF WaitsForLast
  <2>2. Waits(d, g, k) /\ log'[g][k].args = log[g][k].args
    BY <2>1 DEF Waits, LogGoes
  <2>3. /\ log[g][k].args = client[d].args
        /\ \A j \in DOMAIN log[g] : j > k => log[g][j].from # d
    BY <1>0, <2>2 DEF WaitsForLast, ToldTrue
  <2> QED BY <2>2, <2>3 DEF LogGoes
<1>4. FirstCopy(d)'
  <2>1. ASSUME client[d].at # "idle", ~client[d].resent, client[d].args.op = "Put",
               NEW g \in Gid, NEW k \in DOMAIN log'[g], log'[g][k].from = d,
               log'[g][k].args = client[d].args
        PROVE  Waits(d, g, k)'
    <3>1. k \in DOMAIN log[g] /\ log[g][k].from = d /\ log[g][k].args = client[d].args
      BY <2>1 DEF LogGoes
    <3>2. Waits(d, g, k)
      BY <1>0, <2>1, <3>1 DEF FirstCopy, ToldTrue
    <3> QED BY <2>1, <3>1, <3>2 DEF Waits, LogGoes
  <2>2. Wrote(client[d].args)' <=> Wrote(client[d].args)
    BY DEF Wrote
  <2>3. Answered(d)' <=> Answered(d)
    BY DEF Answered
  <2>4. client[d].at # "idle" /\ ~client[d].resent /\ client[d].args.op = "Put" /\ ~Answered(d)
          => ~Wrote(client[d].args)
    BY <1>0 DEF FirstCopy, ToldTrue
  <2> QED BY <2>1, <2>2, <2>3, <2>4 DEF FirstCopy
<1>5. NotYet(d)'
  BY <1>0 DEF NotYet, ToldTrue
<1>6. ASSUME NEW i, NEW a, Called(d, i, a), a.op = "Put" PROVE a \notin N
  <2>1. SUFFICES ASSUME a \in N PROVE FALSE
    OBVIOUS
  <2>2. a \notin ShardCalls
    BY <1>6 DEF ShardCalls
  <2>3. x \in Client /\ \E j : Called(x, j, a)
    BY <2>1, <2>2 DEF Sends
  <2>4. AsScripted(x) /\ AsScripted(d)
    BY <2>3 DEF AllTold, ToldTrue
  <2> QED BY <1>6, <2>3, <2>4, SamePut
<1>7. AnswerHolds(d)'
  <2>1. SUFFICES ASSUME Answered(d), answer[d].err \notin {"ErrWrongGroup", "ErrFrozen"}
        PROVE  Truth(client[d].args, client[d].floor, Told(d), answer[d].value, answer[d].version)'
    BY DEF AnswerHolds, Answered
  <2>2. Told(d)' = Told(d)
    BY DEF Told
  <2>3. Truth(client[d].args, client[d].floor, Told(d), answer[d].value, answer[d].version)
    BY <1>0, <2>1 DEF AnswerHolds, ToldTrue
  <2>4. client[d].at # "idle"
    BY <2>1 DEF TypeInv, InOrder
  <2>5. Called(d, Len(done[d]) + 1, client[d].args)
    BY <2>4 DEF Called
  <2> DEFINE a == client[d].args
             f == client[d].floor
             t == Told(d)
             v == answer[d].value
             n == answer[d].version
  <2>6. a.op = "Put" => a \notin N
    BY <1>6, <2>5
  <2>7. a' = a /\ f' = f /\ t' = t /\ v' = v /\ n' = n
    BY <2>2
  <2>8. \A b, e, u, w, m : Truth(b, e, u, w, m) /\ (b.op = "Put" => b \notin N) => Truth(b, e, u, w, m)'
    BY TruthGoesOn
  <2> HIDE DEF a, f, t, v, n
  <2>9. Truth(a, f, t, v, n)'
    BY <2>3, <2>6, <2>7, <2>8 DEF a, f, t, v, n
  <2> QED BY <2>9 DEF a, f, t, v, n
<1>8. ReturnsHold(d)'
  <2>1. SUFFICES ASSUME NEW i \in 1 .. Len(done[d]), NEW r, r = done[d][i]
        PROVE  Truth(r.args, r.floor, r.err, r.value, r.version)'
    BY DEF ReturnsHold
  <2>2. Truth(r.args, r.floor, r.err, r.value, r.version)
    BY <1>0, <2>1 DEF ReturnsHold, ToldTrue
  <2>3. Called(d, i, r.args)
    BY <2>1 DEF Called
  <2>4. r.args.op = "Put" => r.args \notin N
    BY <1>6, <2>3
  <2> QED BY <2>2, <2>4, TruthGoesOn
<1> QED BY <1>2, <1>3, <1>4, <1>5, <1>7, <1>8 DEF ToldTrue

LEMMA GlobalsGoOn ==
  ASSUME TypeInv, TypeInv', AllTold, NEW x, NEW N, LogGoes(x, N), Sends(x, N),
         written' = written,
         \A c \in Client : \A i, a : Called(c, i, a) => Called(c, i, a)'
  PROVE  LogIsCalls' /\ WrittenIsCalls'
<1>1. ASSUME NEW g \in Gid, NEW k \in DOMAIN log'[g], NEW c, NEW a, c = log'[g][k].from,
             a = log'[g][k].args, a \in Args
      PROVE  c \in Client /\ \E i : Called(c, i, a)'
  <2>1. CASE k \in DOMAIN log[g] /\ log'[g][k].args = log[g][k].args
             /\ log'[g][k].from = log[g][k].from
    <3>1. log[g][k].args = a /\ log[g][k].from = c
      BY <1>1, <2>1
    <3>2. c \in Client /\ \E i : Called(c, i, a)
      BY <1>1, <2>1, <3>1 DEF AllTold, LogIsCalls
    <3> QED BY <3>2
  <2>2. CASE c = x /\ a \in N
    <3>1. a \notin ShardCalls
      BY <1>1 DEF Args, ShardCalls
    <3>2. c \in Client /\ \E i : Called(c, i, a)
      BY <2>2, <3>1 DEF Sends
    <3> QED BY <3>2
  <2> QED BY <1>1, <2>1, <2>2 DEF LogGoes
<1>2. LogIsCalls'
  BY <1>1 DEF LogIsCalls
<1>3. ASSUME NEW k \in Key, NEW n \in 1 .. Len(written[k])
      PROVE  \E c \in Client, i \in Nat : Called(c, i, PutArgs(k, written[k][n], n - 1))'
  <2>1. PICK c \in Client, i \in Nat : Called(c, i, PutArgs(k, written[k][n], n - 1))
    BY DEF AllTold, WrittenIsCalls
  <2>2. PICK a : a = PutArgs(k, written[k][n], n - 1)
    OBVIOUS
  <2>3. a = PutArgs(k, written'[k][n], n - 1)
    BY <2>2
  <2>4. Called(c, i, a)'
    BY <2>1, <2>2
  <2> QED BY <2>3, <2>4
<1>4. WrittenIsCalls'
  BY <1>3 DEF WrittenIsCalls
<1> QED BY <1>2, <1>4

LEMMA ControllerTold ==
  ASSUME PutsDiffer, TypeInv, TypeInv', AllTold, NEW c \in Controller, ControllerStep(c), UNCHANGED kvs
  PROVE  AllTold'
<1>1. group' = group /\ written' = written /\ client' = client /\ done' = done
  BY DEF kvs, ControllerStep, Start, Recover, Resume, GetPending, CreatePending, ReplacePending,
         PutPending, MoveShard, CheckStale, CallGroup, CallFails, CallReturns, GetPosted, PutPosted,
         Die, grp, Send, Forget, Take
<1>2. \A d \in Client : d # c /\ d \in Actor
  BY Actors
<1>3. \E N \in SUBSET ShardCalls : LogGoes(c, N)
  <2>1. CASE CallGroup(c)
    <3>1. ctl[c] \in Ctls /\ CtlFits(ctl[c]) /\ ctl[c].at \in Phases
      <4>1. ctl[c] \in Ctls /\ CtlFits(ctl[c]) /\ ctl[c].step = "send"
        BY <2>1, CtlIs DEF TypeInv, CallGroup
      <4> QED BY <4>1 DEF CtlFits
    <3>2. TargetOf(ctl[c]) \in Gid
      BY <3>1, CallIs
    <3>3. SentTo(c, TargetOf(ctl[c]), CallOf(ctl[c])) /\ CallOf(ctl[c]) \in ShardCalls
      BY <2>1, CallGroupTypes
    <3>4. LogGoes(c, {CallOf(ctl[c])})
      BY <3>2, <3>3, SentGoes
    <3> QED BY <3>3, <3>4
  <2>2. CASE CallFails(c) \/ Die(c)
    <3>1. LogGoes(c, {})
      BY <2>2, GivesUpTypes, GaveGoes
    <3> QED BY <3>1
  <2>3. CASE ~(CallGroup(c) \/ CallFails(c) \/ Die(c))
    <3>1. log' = log
      BY <2>3 DEF ControllerStep, Start, Recover, Resume, GetPending, CreatePending, ReplacePending,
                  PutPending, MoveShard, CheckStale, CallReturns, GetPosted, PutPosted, grp, Take
    <3>2. LogGoes(c, {})
      BY <3>1, SameGoes
    <3> QED BY <3>2
  <2> QED BY <2>1, <2>2, <2>3
<1>4. PICK N \in SUBSET ShardCalls : LogGoes(c, N)
  BY <1>3
<1>5. \A d \in Client : answer'[d] = answer[d]
  <2>1. CASE CallFails(c) \/ Die(c)
    BY <1>2, <2>1, GivesUpTypes
  <2>2. CASE CallReturns(c)
    BY <1>2, <2>2, CallReturnsTypes
  <2>3. CASE ~(CallReturns(c) \/ CallFails(c) \/ Die(c))
    <3>1. answer' = answer
      BY <2>3 DEF ControllerStep, Start, Recover, Resume, GetPending, CreatePending, ReplacePending,
                  PutPending, MoveShard, CheckStale, CallGroup, GetPosted, PutPosted, grp, Send
    <3> QED BY <3>1
  <2> QED BY <2>1, <2>2, <2>3
<1>6. Sends(c, N)
  BY <1>4 DEF Sends
<1>7. \A d \in Client : ToldTrue(d)'
  BY <1>1, <1>2, <1>4, <1>5, <1>6, OthersTold
<1>8. \A d \in Client : \A i, a : Called(d, i, a) => Called(d, i, a)'
  BY <1>1 DEF Called
<1>9. LogIsCalls' /\ WrittenIsCalls'
  BY <1>1, <1>4, <1>6, <1>8, GlobalsGoOn
<1> QED BY <1>7, <1>9 DEF AllTold

\* While client c waits for nothing.
LEMMA NotWaiting ==
  ASSUME TypeInv, NEW c \in Client, client[c].at # "wait"
  PROVE  ~Answered(c) /\ \A g \in Gid : \A k \in Nat : ~Waits(c, g, k)
<1>1. InOrder(c)
  BY DEF TypeInv
<1> QED BY <1>1 DEF InOrder

LEMMA WaitsNoMore ==
  ASSUME TypeInv', NEW c \in Client, client'[c].at # "wait"
  PROVE  WaitsForLast(c)' /\ AnswerHolds(c)'
<1>1. InOrder(c)'
  BY DEF TypeInv
<1>2. ~Answered(c)' /\ \A g \in Gid : \A k \in Nat : ~Waits(c, g, k)'
  BY <1>1 DEF InOrder
<1> QED BY <1>2 DEF WaitsForLast, AnswerHolds

LEMMA ReturnsGoOn ==
  ASSUME TypeInv, TypeInv', NEW c \in Client, ToldTrue(c), NEW N, LogGoes(c, N),
         group' = group, written' = written, NEW i \in 1 .. Len(done[c]), NEW r, r = done[c][i],
         r.args.op = "Put" => r.args \notin N
  PROVE  Truth(r.args, r.floor, r.err, r.value, r.version)'
<1>1. Truth(r.args, r.floor, r.err, r.value, r.version)
  BY DEF ReturnsHold, ToldTrue
<1> QED BY <1>1, TruthGoesOn

\* A client goes on with its call.
LEMMA SameCall ==
  ASSUME PutsDiffer, TypeInv, TypeInv', NEW c \in Client, ToldTrue(c),
         NEW N, N \subseteq {client[c].args}, LogGoes(c, N), group' = group, written' = written,
         client[c].at # "idle", client'[c].at # "idle", client'[c].args = client[c].args,
         client'[c].floor = client[c].floor, done'[c] = done[c]
  PROVE  /\ AsScripted(c)' /\ NotYet(c)' /\ ReturnsHold(c)' /\ Sends(c, N)
         /\ \A i, a : Called(c, i, a) => Called(c, i, a)'
<1>1. \A i, a : Called(c, i, a)' <=> Called(c, i, a)
  BY DEF Called
<1>2. AsScripted(c)'
  BY <1>1 DEF AsScripted, ToldTrue
<1>3. NotYet(c)'
  BY DEF NotYet, ToldTrue
<1>4. \A n \in N : Called(c, Len(done[c]) + 1, n)
  BY DEF Called
<1>5. ASSUME NEW i \in 1 .. Len(done[c]), NEW r, r = done[c][i]
      PROVE  Truth(r.args, r.floor, r.err, r.value, r.version)'
  <2>1. Called(c, i, r.args)
    BY <1>5 DEF Called
  <2>2. ASSUME r.args.op = "Put", r.args \in N PROVE FALSE
    <3>1. AsScripted(c) /\ Len(done[c]) \in Nat
      BY ClerkIs DEF ToldTrue
    <3>2. i = Len(done[c]) + 1
      BY <1>4, <2>1, <2>2, <3>1, SamePut
    <3> QED BY <3>1, <3>2
  <2> QED BY <1>5, <2>2, ReturnsGoOn
<1>6. ReturnsHold(c)'
  BY <1>5 DEF ReturnsHold
<1>7. Sends(c, N)
  BY <1>4 DEF Sends
<1> QED BY <1>1, <1>2, <1>3, <1>6, <1>7

LEMMA ClerkTold ==
  ASSUME PutsDiffer, TypeInv, TypeInv', AllTold, NEW c \in Client, NEW N, LogGoes(c, N), Sends(c, N),
         group' = group, written' = written,
         \A d \in Client : d # c => client'[d] = client[d] /\ done'[d] = done[d] /\ answer'[d] = answer[d],
         \A i, a : Called(c, i, a) => Called(c, i, a)', ToldTrue(c)'
  PROVE  AllTold'
<1>1. \A d \in Client : d # c => ToldTrue(d)'
  BY OthersTold
<1>2. ASSUME NEW d \in Client, NEW i, NEW a, Called(d, i, a) PROVE Called(d, i, a)'
  <2>1. CASE d = c
    BY <1>2, <2>1
  <2>2. CASE d # c
    BY <1>2, <2>2 DEF Called
  <2> QED BY <2>1, <2>2
<1>3. LogIsCalls' /\ WrittenIsCalls'
  BY <1>2, GlobalsGoOn
<1> QED BY <1>1, <1>3 DEF AllTold

LEMMA CallsNextTold ==
  ASSUME PutsDiffer, TypeInv, TypeInv', AllTold, NEW c \in Client, CallsNext(c)
  PROVE  AllTold'
<1>0. ToldTrue(c) /\ client[c].at = "idle" /\ client \in [Client -> Clerks] /\ Len(done[c]) \in Nat
      /\ LogIsCalls /\ WrittenIsCalls
  BY ClerkIs DEF AllTold, CallsNext
<1>1. PICK a \in Script[c][Len(done[c]) + 1] :
       client' = [client EXCEPT ![c] = [NoCall EXCEPT
         !.at = "query", !.args = a, !.floor = Len(written[a.key])]]
  BY DEF CallsNext
<1>2. /\ client'[c].at = "query" /\ client'[c].args = a /\ client'[c].floor = Len(written[a.key])
      /\ \A d \in Client : d # c => client'[d] = client[d]
  BY <1>0, <1>1 DEF NoCall
<1>3. group' = group /\ log' = log /\ answer' = answer /\ done' = done /\ written' = written
  BY DEF CallsNext, grp
<1>4. Len(done[c]) + 1 \in 1 .. Len(Script[c])
  <2>1. Script[c] \in Seq(SUBSET Args) /\ Len(done[c]) < Len(Script[c])
    BY ClientAssumption DEF CallsNext
  <2>2. Len(Script[c]) \in Nat
    BY <2>1, LenProperties
  <2> QED BY <1>0, <2>1, <2>2
<1>5. \A i, b : Called(c, i, b)' <=> Called(c, i, b) \/ (i = Len(done[c]) + 1 /\ b = a)
  BY <1>0, <1>2, <1>3 DEF Called
<1>6. AsScripted(c)'
  BY <1>0, <1>1, <1>4, <1>5 DEF AsScripted, ToldTrue
<1>7. a \in Args /\ a.op \in {"Get", "Put"} /\ a.key \in Key /\ a.version \in Nat
  <2>1. Script[c] \in Seq(SUBSET Args)
    BY ClientAssumption
  <2>2. Script[c][Len(done[c]) + 1] \in SUBSET Args
    BY <1>4, <2>1, ElementOfSeq
  <2>3. a \in Args
    BY <1>1, <2>2
  <2> QED BY <2>3 DEF Args
<1>8. \A i : ~Called(c, Len(done[c]) + 1, i)
  BY <1>0 DEF Called
<1>9. FirstCopy(c)'
  <2>1. ASSUME a.op = "Put", NEW g \in Gid, NEW k \in DOMAIN log[g], log[g][k].from = c, log[g][k].args = a
        PROVE  FALSE
    <3>1. PICK i : Called(c, i, a)
      BY <1>0, <1>7, <2>1 DEF LogIsCalls
    <3>2. i \in 1 .. Len(Script[c]) /\ a \in Script[c][i]
      BY <1>0, <3>1 DEF AsScripted, ToldTrue
    <3>3. i = Len(done[c]) + 1
      BY <1>1, <1>4, <2>1, <3>2 DEF PutsDiffer
    <3> QED BY <1>8, <3>1, <3>3
  <2>2. ASSUME a.op = "Put", Wrote(a) PROVE FALSE
    <3>1. a.version + 1 \in 1 .. Len(written[a.key]) /\ written[a.key][a.version + 1] = a.value
      BY <2>2 DEF Wrote
    <3>2. PICK d \in Client, i \in Nat :
            Called(d, i, PutArgs(a.key, written[a.key][a.version + 1], a.version + 1 - 1))
      BY <1>0, <1>7, <3>1 DEF WrittenIsCalls
    <3>3. PICK b : b = PutArgs(a.key, written[a.key][a.version + 1], a.version + 1 - 1)
      OBVIOUS
    <3>4. b.op = "Put" /\ b.key = a.key /\ b.value = a.value
      BY <3>1, <3>3 DEF PutArgs
    <3>5. Called(d, i, b) /\ AsScripted(d)
      BY <3>2, <3>3 DEF AllTold, ToldTrue
    <3>6. i \in 1 .. Len(Script[d]) /\ b \in Script[d][i]
      BY <3>5 DEF AsScripted
    <3>7. d = c /\ i = Len(done[c]) + 1
      BY <1>1, <1>4, <2>2, <3>4, <3>6 DEF PutsDiffer
    <3> QED BY <1>8, <3>5, <3>7
  <2>3. Wrote(a)' <=> Wrote(a)
    BY <1>3 DEF Wrote
  <2> QED BY <1>2, <1>3, <2>1, <2>2, <2>3 DEF FirstCopy
<1>10. NotYet(c)'
  <2>1. Len(written[a.key]) \in Nat
    BY <1>7, LatestIs
  <2> QED BY <1>2, <1>3, <2>1 DEF NotYet
<1>11. WaitsForLast(c)' /\ AnswerHolds(c)'
  BY <1>2, WaitsNoMore
<1>12. LogGoes(c, {})
  BY <1>3, SameGoes
<1>13. ReturnsHold(c)'
  <2>1. ASSUME NEW i \in 1 .. Len(done[c]), NEW r, r = done[c][i]
        PROVE  Truth(r.args, r.floor, r.err, r.value, r.version)'
    BY <1>0, <1>3, <1>12, <2>1, ReturnsGoOn
  <2> QED BY <1>3, <2>1 DEF ReturnsHold
<1>14. ToldTrue(c)'
  BY <1>6, <1>9, <1>10, <1>11, <1>13 DEF ToldTrue
<1>15. Sends(c, {})
  BY DEF Sends
<1> QED BY <1>2, <1>3, <1>5, <1>12, <1>14, <1>15, ClerkTold

LEMMA LocateTold ==
  ASSUME PutsDiffer, TypeInv, TypeInv', AllTold, NEW c \in Client, Locate(c)
  PROVE  AllTold'
<1>0. ToldTrue(c) /\ client[c].at = "query" /\ client[c] \in Clerks /\ client \in [Client -> Clerks]
  BY ClerkIs DEF AllTold, Locate
<1>1. group' = group /\ log' = log /\ answer' = answer /\ done' = done /\ written' = written
  BY DEF Locate, grp
<1>2. /\ client'[c].at = "send" /\ client'[c].args = client[c].args
      /\ client'[c].floor = client[c].floor /\ client'[c].resent = client[c].resent
      /\ \A d \in Client : d # c => client'[d] = client[d]
  BY <1>0 DEF Locate, Clerks
<1>3. LogGoes(c, {}) /\ {} \subseteq {client[c].args}
  BY <1>1, SameGoes
<1>4. /\ AsScripted(c)' /\ NotYet(c)' /\ ReturnsHold(c)' /\ Sends(c, {})
      /\ \A i, a : Called(c, i, a) => Called(c, i, a)'
  BY <1>0, <1>1, <1>2, <1>3, SameCall
<1>5. WaitsForLast(c)' /\ AnswerHolds(c)'
  BY <1>2, WaitsNoMore
<1>6. FirstCopy(c)'
  BY <1>0, <1>1, <1>2 DEF FirstCopy, ToldTrue, Waits, Answered, Wrote
<1>7. ToldTrue(c)'
  BY <1>4, <1>5, <1>6 DEF ToldTrue
<1> QED BY <1>1, <1>2, <1>3, <1>4, <1>7, ClerkTold

LEMMA AskGroupTold ==
  ASSUME PutsDiffer, TypeInv, TypeInv', AllTold, NEW c \in Client, AskGroup(c)
  PROVE  AllTold'
<1>0. ToldTrue(c) /\ client[c].at = "send" /\ client[c] \in Clerks /\ client \in [Client -> Clerks]
      /\ client[c].gid \in Gid
  BY ClerkIs DEF AllTold, AskGroup
<1>1. group' = group /\ answer' = answer /\ done' = done /\ written' = written
  BY DEF AskGroup, Send
<1>2. /\ client'[c].at = "wait" /\ client'[c].args = client[c].args
      /\ client'[c].floor = client[c].floor /\ client'[c].resent = client[c].resent
      /\ \A d \in Client : d # c => client'[d] = client[d]
  BY <1>0 DEF AskGroup, Clerks
<1> DEFINE N == {client[c].args}
<1>3. LogGoes(c, N)
  BY <1>0, AskGroupTypes, SentGoes
<1>4. /\ AsScripted(c)' /\ NotYet(c)' /\ ReturnsHold(c)' /\ Sends(c, N)
      /\ \A i, a : Called(c, i, a) => Called(c, i, a)'
  BY <1>0, <1>1, <1>2, <1>3, SameCall
<1>5. ~Answered(c) /\ ~Answered(c)' /\ \A g \in Gid : \A k \in Nat : ~Waits(c, g, k)
  BY <1>0, <1>1, NotWaiting DEF Answered
<1>6. WaitsForLast(c)'
  <2>1. ASSUME NEW g \in Gid, NEW k \in Nat, Waits(c, g, k)'
        PROVE  /\ log'[g][k].args = client[c].args
               /\ \A j \in DOMAIN log'[g] : ~(j > k)
    <3>1. k \in DOMAIN log'[g] /\ log'[g][k].from = c /\ log'[g][k].awaited
      BY <2>1 DEF Waits
    <3>2. k = Len(log'[g]) /\ log'[g][k].args \in N
      BY <1>3, <1>5, <3>1 DEF LogGoes, Waits
    <3>3. DOMAIN log'[g] = 1 .. Len(log'[g]) /\ Len(log'[g]) \in Nat
      <4>1. log'[g] \in Seq(Entries)
        BY DEF TypeInv, Types
      <4> QED BY <4>1, LenProperties
    <3> QED BY <3>2, <3>3
  <2> QED BY <1>2, <2>1 DEF WaitsForLast
<1>7. FirstCopy(c)'
  <2>1. ASSUME ~client[c].resent, client[c].args.op = "Put", NEW g \in Gid, NEW k \in DOMAIN log'[g],
               log'[g][k].from = c, log'[g][k].args = client[c].args
        PROVE  Waits(c, g, k)'
    <3>1. CASE k \in DOMAIN log[g] /\ log'[g][k].args = log[g][k].args /\ log'[g][k].from = log[g][k].from
      <4>1. Waits(c, g, k)
        BY <1>0, <2>1, <3>1 DEF FirstCopy, ToldTrue
      <4> QED BY <1>5, <3>1, <4>1, LogsAre
    <3>2. CASE log'[g][k].awaited
      BY <2>1, <3>2 DEF Waits
    <3> QED BY <1>3, <2>1, <3>1, <3>2 DEF LogGoes
  <2>2. Wrote(client[c].args)' <=> Wrote(client[c].args)
    BY <1>1, <1>2 DEF Wrote
  <2>3. ~client[c].resent /\ client[c].args.op = "Put" => ~Wrote(client[c].args)
    BY <1>0, <1>5 DEF FirstCopy, ToldTrue
  <2> QED BY <1>2, <2>1, <2>2, <2>3 DEF FirstCopy
<1>8. AnswerHolds(c)'
  BY <1>5 DEF AnswerHolds
<1>9. ToldTrue(c)'
  BY <1>4, <1>6, <1>7, <1>8 DEF ToldTrue
<1> QED BY <1>1, <1>2, <1>3, <1>4, <1>9, ClerkTold

\* A call is tried again.
LEMMA AgainTold ==
  ASSUME PutsDiffer, TypeInv, TypeInv', AllTold, NEW c \in Client, client[c].at # "idle", Again(c),
         LogGoes(c, {}), group' = group, written' = written, done' = done,
         \A d \in Client : d # c => answer'[d] = answer[d]
  PROVE  AllTold'
<1>0. ToldTrue(c) /\ client[c] \in Clerks /\ client \in [Client -> Clerks]
  BY ClerkIs DEF AllTold
<1>2. /\ client'[c].at = "query" /\ client'[c].args = client[c].args
      /\ client'[c].floor = client[c].floor /\ client'[c].resent
      /\ \A d \in Client : d # c => client'[d] = client[d]
  BY <1>0 DEF Again, Clerks
<1>3. {} \subseteq {client[c].args}
  OBVIOUS
<1>4. /\ AsScripted(c)' /\ NotYet(c)' /\ ReturnsHold(c)' /\ Sends(c, {})
      /\ \A i, a : Called(c, i, a) => Called(c, i, a)'
  BY <1>0, <1>2, <1>3, SameCall
<1>5. WaitsForLast(c)' /\ AnswerHolds(c)'
  BY <1>2, WaitsNoMore
<1>6. FirstCopy(c)'
  BY <1>2 DEF FirstCopy
<1>7. ToldTrue(c)'
  BY <1>4, <1>5, <1>6 DEF ToldTrue
<1> QED BY <1>2, <1>4, <1>7, ClerkTold

\* A call ends with what is true.
LEMMA EndsTold ==
  ASSUME PutsDiffer, TypeInv, TypeInv', AllTold, NEW c \in Client, client[c].at # "idle",
         NEW err, NEW r, Ends(c, err, r),
         NEW a, a = client[c].args, NEW floor, floor = client[c].floor,
         NEW value, value = r.value, NEW version, version = r.version,
         Truth(a, floor, err, value, version)',
         LogGoes(c, {}), group' = group, written' = written,
         \A d \in Client : d # c => answer'[d] = answer[d]
  PROVE  AllTold'
<1> DEFINE x == [args |-> a, floor |-> floor, err |-> err, value |-> value, version |-> version]
<1>0. ToldTrue(c) /\ client \in [Client -> Clerks] /\ done \in [Client -> Seq(Returned)]
      /\ done[c] \in Seq(Returned) /\ Len(done[c]) \in Nat
  BY ClerkIs DEF AllTold
<1>1. done' = [done EXCEPT ![c] = Append(done[c], x)] /\ client' = [client EXCEPT ![c] = NoCall]
  BY DEF Ends
<1> HIDE DEF x
<1>2. /\ client'[c].at = "idle"
      /\ \A d \in Client : d # c => client'[d] = client[d] /\ done'[d] = done[d]
  BY <1>0, <1>1, NoCallIs
<1>3. /\ Len(done'[c]) = Len(done[c]) + 1
      /\ \A i \in 1 .. Len(done[c]) : done'[c][i] = done[c][i]
      /\ done'[c][Len(done[c]) + 1] = x
  <2>1. done'[c] = Append(done[c], x) /\ done'[c] \in Seq(Returned)
    <3>1. done' \in [Client -> Seq(Returned)]
      BY DEF TypeInv, Types
    <3> QED BY <1>0, <1>1, <3>1
  <2>2. Append(done[c], x) = [i \in 1 .. Len(done[c]) + 1 |-> IF i = Len(done[c]) + 1 THEN x ELSE done[c][i]]
    BY <1>0
  <2>3. DOMAIN done'[c] = 1 .. Len(done[c]) + 1 /\ DOMAIN done'[c] = 1 .. Len(done'[c]) /\ Len(done'[c]) \in Nat
    BY <2>1, <2>2, LenProperties
  <2>4. Len(done'[c]) = Len(done[c]) + 1
    BY <1>0, <2>3
  <2> QED BY <1>0, <2>1, <2>2, <2>4
<1>4. x.args = a /\ x.floor = floor /\ x.err = err /\ x.value = value /\ x.version = version
  BY DEF x
<1>5. \A i, b : Called(c, i, b)' <=> Called(c, i, b)
  BY <1>0, <1>2, <1>3, <1>4 DEF Called
<1>6. AsScripted(c)'
  BY <1>0, <1>5 DEF AsScripted, ToldTrue
<1>7. WaitsForLast(c)' /\ AnswerHolds(c)'
  BY <1>2, WaitsNoMore
<1>8. FirstCopy(c)' /\ NotYet(c)'
  BY <1>2 DEF FirstCopy, NotYet
<1>9. ReturnsHold(c)'
  <2>1. SUFFICES ASSUME NEW i \in 1 .. Len(done[c]) + 1, NEW d, d = done'[c][i]
                 PROVE  Truth(d.args, d.floor, d.err, d.value, d.version)'
    BY <1>3 DEF ReturnsHold
  <2>2. CASE i \in 1 .. Len(done[c])
    <3>1. d = done[c][i]
      BY <1>3, <2>1, <2>2
    <3> QED BY <1>0, <2>2, <3>1, ReturnsGoOn
  <2>3. CASE i = Len(done[c]) + 1
    <3>1. d = x
      BY <1>3, <2>1, <2>3
    <3> QED BY <1>4, <3>1
  <2> QED BY <1>0, <2>2, <2>3
<1>10. ToldTrue(c)'
  BY <1>6, <1>7, <1>8, <1>9 DEF ToldTrue
<1>11. Sends(c, {})
  BY DEF Sends
<1> QED BY <1>2, <1>5, <1>10, <1>11, ClerkTold

LEMMA AskEndsTold ==
  ASSUME PutsDiffer, TypeInv, TypeInv', AllTold, NEW c \in Client, AskFails(c) \/ AskMaybe(c)
  PROVE  AllTold'
<1>1. Gave(c) /\ (\A d \in Actor : answer'[d] = answer[d]) /\ group' = group /\ written' = written
  BY AskEndsTypes
<1>2. LogGoes(c, {}) /\ \A d \in Client : d # c => answer'[d] = answer[d]
  BY <1>1, GaveGoes, Actors
<1>3. client[c].at # "idle"
  BY DEF AskFails, AskMaybe
<1>4. CASE Again(c) /\ done' = done
  BY <1>1, <1>2, <1>3, <1>4, AgainTold
<1>5. CASE client[c].args.op = "Put" /\ Ends(c, "ErrMaybe", NoAnswer)
  <2>1. PICK a, floor, value, version : a = client[c].args /\ floor = client[c].floor
          /\ value = NoAnswer.value /\ version = NoAnswer.version
    OBVIOUS
  <2>2. Truth(a, floor, "ErrMaybe", value, version)'
    BY <1>5, <2>1 DEF Truth
  <2> QED BY <1>1, <1>2, <1>3, <1>5, <2>1, <2>2, EndsTold
<1> QED BY <1>4, <1>5 DEF AskFails, AskMaybe

LEMMA AskReturnsTold ==
  ASSUME PutsDiffer, TypeInv, TypeInv', AllTold, NEW c \in Client, AskReturns(c)
  PROVE  AllTold'
<1>1. log' = log /\ (\A d \in Actor : d # c => answer'[d] = answer[d]) /\ group' = group
      /\ written' = written
  BY AskReturnsTypes
<1>2. LogGoes(c, {}) /\ \A d \in Client : d # c => answer'[d] = answer[d]
  BY <1>1, SameGoes, Actors
<1>3. client[c].at # "idle" /\ Answered(c) /\ ToldTrue(c)
  BY DEF AskReturns, Take, Answered, AllTold
<1>4. CASE Again(c) /\ done' = done
  BY <1>1, <1>2, <1>3, <1>4, AgainTold
<1>5. CASE answer[c].err \notin {"ErrWrongGroup", "ErrFrozen"} /\ Ends(c, Told(c), answer[c])
  <2>1. PICK a, floor, err, value, version : a = client[c].args /\ floor = client[c].floor
          /\ err = Told(c) /\ value = answer[c].value /\ version = answer[c].version
    OBVIOUS
  <2>2. Truth(a, floor, err, value, version)
    BY <1>3, <1>5, <2>1 DEF ToldTrue, AnswerHolds
  <2>3. Truth(a, floor, err, value, version)'
    BY <1>1, <1>2, <2>2, TruthGoesOn
  <2>4. PICK r : r = answer[c]
    OBVIOUS
  <2>5. Ends(c, err, r)
    BY <1>5, <2>1, <2>4
  <2> QED BY <1>1, <1>2, <1>3, <2>1, <2>3, <2>4, <2>5, EndsTold
<1> QED BY <1>4, <1>5 DEF AskReturns

-----------------------------------------------------------------------------
(* The execution of an operation, and what its client is told.             *)

\* A Get or a Put is answered from what has been written, or not at all.
LEMMA AccessGives ==
  ASSUME TypeInv, Hold, NEW g \in Gid, NEW a \in Args, NEW s, s = Key2Shard[a.key],
         NEW x, x = ShardDoOp(group[g][s], a).reply, NEW n, n = Len(written[a.key])
  PROVE  /\ n \in Nat
         /\ ~Serves(g, s) => x.err \in {"ErrFrozen", "ErrWrongGroup"}
         /\ Serves(g, s) /\ a.op = "Get" =>
              /\ x.version = n /\ x.err = IF n = 0 THEN "ErrNoKey" ELSE "OK"
              /\ n > 0 => x.value = written[a.key][n]
         /\ Serves(g, s) /\ a.op = "Put" =>
              x.err = IF a.version = n THEN "OK" ELSE IF n = 0 THEN "ErrNoKey" ELSE "ErrVersion"
<1>0. a.key \in Key /\ a.op \in {"Get", "Put"} /\ s \in Shard
  BY GroupAssumption DEF Args
<1>1. PICK sh \in Shards : sh = group[g][s]
  BY <1>0, WorldIs
<1> DEFINE d == DoOp(sh.store, a)
           z == ShardDoOp(sh, a)
<1>2. x = z.reply
  BY <1>1
<1>3. IF sh.owned /\ ~sh.frozen
      THEN /\ z.reply.err = d.reply.err /\ z.reply.value = d.reply.value
           /\ z.reply.version = d.reply.version
      ELSE z.reply.err \in {"ErrFrozen", "ErrWrongGroup"}
  BY AccessIs
<1> HIDE DEF z
<1>4. Serves(g, s) <=> sh.owned /\ ~sh.frozen
  BY <1>1 DEF Serves, Owns
<1>5. n \in Nat /\ Latest(a.key).version = n /\ written[a.key] \in Seq(Value)
  BY <1>0, LatestIs DEF TypeInv, Types
<1>6. CASE Serves(g, s)
  <2>1. sh.store[a.key] = Latest(a.key)
    BY <1>0, <1>1, <1>6 DEF Hold, UpToDate, HasAll, Serves
  <2>2. n > 0 => Latest(a.key).value = written[a.key][n]
    <3>1. n > 0 => written[a.key] # <<>>
      BY EmptySeq
    <3> QED BY <3>1 DEF Latest
  <2>3. x.err = d.reply.err /\ x.value = d.reply.value /\ x.version = d.reply.version
    BY <1>2, <1>3, <1>4, <1>6
  <2>4. PICK r : r = sh.store[a.key] /\ r.version = n /\ (n > 0 => r.value = written[a.key][n])
    BY <1>5, <2>1, <2>2
  <2>5. CASE a.op = "Get"
    <3>1. d.reply = [err |-> IF r.version = 0 THEN "ErrNoKey" ELSE "OK",
                     value |-> r.value, version |-> r.version]
      BY <2>4, <2>5 DEF DoOp
    <3> HIDE DEF d
    <3> QED BY <1>5, <1>6, <2>3, <2>4, <2>5, <3>1
  <2>6. CASE a.op = "Put" /\ a.version = n
    <3>1. d.reply = NoReply
      BY <2>4, <2>6 DEF DoOp, SameVersion
    <3> HIDE DEF d
    <3> QED BY <1>5, <1>6, <2>3, <2>6, <3>1 DEF NoReply
  <2>7. CASE a.op = "Put" /\ a.version # n
    <3>1. d.reply = [NoReply EXCEPT !.err = IF r.version = 0 THEN "ErrNoKey" ELSE "ErrVersion"]
      BY <2>4, <2>7 DEF DoOp, SameVersion
    <3> HIDE DEF d
    <3> QED BY <1>5, <1>6, <2>3, <2>4, <2>7, <3>1 DEF NoReply
  <2> QED BY <1>0, <2>5, <2>6, <2>7
<1>7. CASE ~Serves(g, s)
  BY <1>2, <1>3, <1>4, <1>5, <1>7
<1> QED BY <1>6, <1>7

\* Group g executes entry e, the k-th of its log, on shard s.
Runs(g, k, e, s) ==
  /\ Executed(g, k, e, s) /\ k \in DOMAIN log[g] /\ k \in Nat /\ k >= 1
  /\ client' = client /\ done' = done
  /\ written' = IF e.args.op = "Put" /\ ShardDoOp(group[g][s], e.args).reply.err = "OK"
                THEN [written EXCEPT ![e.args.key] = Append(written[e.args.key], e.args.value)]
                ELSE written
  /\ Off(g, k) \in [Gid -> Nat]
  /\ \A h \in Gid : \A j \in DOMAIN log'[h] :
       /\ j \in Nat /\ j >= 1 /\ j + Off(g, k)[h] \in DOMAIN log[h]
       /\ log'[h][j] = log[h][j + Off(g, k)[h]]

LEMMA RunsIs ==
  ASSUME TypeInv, TypeInv', NEW g \in Gid, NEW k \in DOMAIN log[g], Execution(g, k)
  PROVE  \E e, s : Runs(g, k, e, s)
<1>0. Types /\ client' = client /\ done' = done /\ k \in Nat /\ k >= 1
  BY LogsAre DEF Execution, TypeInv
<1>1. PICK e, s : Executed(g, k, e, s)
        /\ written' = IF e.args.op = "Put" /\ ShardDoOp(group[g][s], e.args).reply.err = "OK"
              THEN [written EXCEPT ![e.args.key] = Append(written[e.args.key], e.args.value)]
              ELSE written
  BY ExecutionIs
<1>2. ASSUME NEW h \in Gid, NEW j \in DOMAIN log'[h]
      PROVE  j \in Nat /\ j >= 1 /\ j + Off(g, k)[h] \in DOMAIN log[h]
             /\ log'[h][j] = log[h][j + Off(g, k)[h]]
  <2>1. j \in Nat /\ j >= 1
    <3>1. log'[h] \in Seq(Entries)
      BY DEF TypeInv, Types
    <3> QED BY <3>1, LenProperties
  <2> QED BY <1>0, <2>1, ExecutionTypes
<1>3. Off(g, k) \in [Gid -> Nat]
  BY <1>0, ExecutionTypes
<1>4. Runs(g, k, e, s)
  BY <1>0, <1>1, <1>2, <1>3 DEF Runs
<1> QED BY <1>4

\* What was written stays; what is new is the operation's.
LEMMA WrittenGrows ==
  ASSUME TypeInv, TypeInv', NEW g \in Gid, NEW k, NEW e, NEW s, Runs(g, k, e, s), NEW key \in Key
  PROVE  /\ Len(written[key]) \in Nat /\ Len(written'[key]) >= Len(written[key])
         /\ Len(written'[key]) \in Nat
         /\ \A n \in 1 .. Len(written[key]) : written'[key][n] = written[key][n]
         /\ \A n \in 1 .. Len(written'[key]) : n \notin 1 .. Len(written[key]) =>
              /\ e.args \in Args /\ e.args.op = "Put" /\ e.args.key = key
              /\ n = Len(written[key]) + 1 /\ written'[key][n] = e.args.value
              /\ ShardDoOp(group[g][s], e.args).reply.err = "OK"
<1>0. written \in [Key -> Seq(Value)] /\ Len(written[key]) \in Nat /\ written[key] \in Seq(Value)
      /\ e.args \in Args \cup ShardCalls
  BY LatestIs DEF TypeInv, Types, Runs, Executed, Entries
<1>1. CASE written'[key] = written[key]
  BY <1>0, <1>1
<1>2. CASE written'[key] # written[key]
  <2>1. e.args.op = "Put" /\ ShardDoOp(group[g][s], e.args).reply.err = "OK"
        /\ written' = [written EXCEPT ![e.args.key] = Append(written[e.args.key], e.args.value)]
    BY <1>2 DEF Runs
  <2>2. e.args \in Args /\ e.args.value \in Value
    BY <1>0, <2>1 DEF ShardCalls, Args
  <2>3. e.args.key = key
    BY <1>0, <1>2, <2>1
  <2>4. written'[key] = Append(written[key], e.args.value)
    BY <1>0, <2>1, <2>3
  <2>5. /\ Len(written'[key]) = Len(written[key]) + 1
        /\ \A n \in 1 .. Len(written[key]) : written'[key][n] = written[key][n]
        /\ written'[key][Len(written[key]) + 1] = e.args.value
    BY <1>0, <2>2, <2>4, AppendProperties
  <2> QED BY <1>0, <2>1, <2>2, <2>3, <2>5
<1> QED BY <1>1, <1>2

LEMMA WroteStays ==
  ASSUME TypeInv, TypeInv', NEW g \in Gid, NEW k, NEW e, NEW s, Runs(g, k, e, s),
         NEW a, a.key \in Key, a.version \in Nat
  PROVE  /\ Wrote(a) => Wrote(a)'
         /\ Wrote(a)' /\ ~Wrote(a) =>
              /\ e.args \in Args /\ e.args.op = "Put"
              /\ e.args.key = a.key /\ e.args.value = a.value
              /\ ShardDoOp(group[g][s], e.args).reply.err = "OK"
<1>1. PICK w, v : w = written[a.key] /\ v = written'[a.key]
  OBVIOUS
<1>2. /\ Len(w) \in Nat /\ Len(v) \in Nat /\ Len(v) >= Len(w)
      /\ \A n \in 1 .. Len(w) : v[n] = w[n]
      /\ \A n \in 1 .. Len(v) : n \notin 1 .. Len(w) =>
           /\ e.args \in Args /\ e.args.op = "Put" /\ e.args.key = a.key
           /\ v[n] = e.args.value
           /\ ShardDoOp(group[g][s], e.args).reply.err = "OK"
  BY <1>1, WrittenGrows
<1>3. Wrote(a) <=> a.version + 1 \in 1 .. Len(w) /\ w[a.version + 1] = a.value
  BY <1>1 DEF Wrote
<1>4. Wrote(a)' <=> a.version + 1 \in 1 .. Len(v) /\ v[a.version + 1] = a.value
  BY <1>1 DEF Wrote
<1> HIDE DEF Wrote
<1> QED BY <1>2, <1>3, <1>4

\* What a group does not serve, it does not serve after a step, unless the
\* step is an Install that it has not seen.
LEMMA StaysClosed ==
  ASSUME TypeInv, TypeInv', Hold, NEW g \in Gid, NEW k, NEW e, NEW s, Runs(g, k, e, s),
         NEW h \in Gid, NEW t \in Shard
  PROVE  /\ group'[h][t].highest >= group[h][t].highest
         /\ group'[h][t].highest \in Nat /\ group[h][t].highest \in Nat
         /\ ~Serves(h, t) /\ Serves(h, t)' =>
              /\ h = g /\ e.args.op = "Install" /\ e.args.shard = t
              /\ e.args.num > group[h][t].highest
<1>1. PICK sh \in Shards, sj \in Shards : sh = group[h][t] /\ sj = group'[h][t]
  <2>1. group[h][t] \in Shards /\ group'[h][t] \in Shards
    BY WorldIs DEF TypeInv, Types
  <2> QED BY <2>1
<1>2. /\ Serves(h, t) <=> sh.owned /\ ~sh.frozen
      /\ Serves(h, t)' <=> sj.owned /\ ~sj.frozen
      /\ sh.highest \in Nat /\ sj.highest \in Nat
  BY <1>1 DEF Serves, Owns, Shards
<1>3. e.args \in Args \cup ShardCalls /\ s = ShardOf(e.args) /\ k \in DOMAIN log[g] /\ e = log[g][k]
  BY DEF Runs, Executed, Entries
<1>4. CASE h # g \/ t # s
  <2>1. sj = sh
    BY <1>1, <1>4 DEF Runs, Executed
  <2> QED BY <1>1, <1>2, <2>1
<1>5. CASE h = g /\ t = s
  <2>1. sj = ShardDoOp(sh, e.args).shard
    BY <1>1, <1>5 DEF Runs, Executed
  <2>2. CASE e.args \in Args
    <3>1. sj.highest = sh.highest /\ sj.frozen = sh.frozen /\ sj.owned = sh.owned
      BY <2>1, <2>2, AccessIs
    <3> QED BY <1>1, <1>2, <3>1
  <2>3. CASE e.args \in ShardCalls
    <3>1. PICK a \in ShardCalls : a = e.args /\ a.shard = s
      BY <1>3, <2>3, OpIs
    <3>2. \/ sj = sh
          \/ /\ a.num >= sh.highest /\ ~(a.num = sh.highest /\ (sh.owned <=> a.op = "Install"))
             /\ sj.highest = a.num
             /\ a.op = "Freeze" => sj.frozen
             /\ a.op = "Delete" => ~sj.owned
      BY <2>1, <3>1, MoveIs
    <3>3. CASE sj = sh
      BY <1>1, <1>2, <3>3
    <3>4. CASE /\ a.num >= sh.highest /\ ~(a.num = sh.highest /\ (sh.owned <=> a.op = "Install"))
               /\ sj.highest = a.num
               /\ a.op = "Freeze" => sj.frozen
               /\ a.op = "Delete" => ~sj.owned
      <4>1. a.num \in Nat /\ a.op \in {"Freeze", "Install", "Delete"}
        BY DEF ShardCalls
      <4>2. ASSUME ~Serves(h, t), Serves(h, t)' PROVE a.op = "Install" /\ a.num > sh.highest
        <5>1. a.op = "Install"
          BY <1>2, <3>4, <4>1, <4>2
        <5>2. ASSUME a.num = sh.highest PROVE FALSE
          <6>1. Ordered(g, a)
            BY <1>3, <3>1 DEF Ordered
          <6>2. a.num = Query.Num + 1 /\ Due(a.op, g, a.shard, a.state)
            BY <1>1, <1>5, <3>1, <3>4, <6>1, EffectIs
          <6>3. Moves(s) /\ g = To(s) /\ Reached(g, s)
            BY <1>1, <1>5, <3>1, <5>1, <5>2, <6>2 DEF Due, Reached
          <6>4. To(s) # From(s) /\ Placed
            BY <1>5, <6>3, WorldIs DEF Hold
          <6>5. Serves(g, s)
            BY <1>5, <6>3, <6>4, Bounded DEF InMove
          <6> QED BY <1>5, <4>2, <6>5
        <5> QED BY <1>2, <3>4, <4>1, <5>1, <5>2
      <4> QED BY <1>1, <1>2, <1>5, <3>1, <3>4, <4>1, <4>2
    <3> QED BY <3>2, <3>3, <3>4
  <2> QED BY <1>3, <2>2, <2>3
<1> QED BY <1>4, <1>5

LEMMA LateStays ==
  ASSUME TypeInv, TypeInv', Hold, NEW g \in Gid, NEW k, NEW e, NEW s, Runs(g, k, e, s),
         NEW h \in Gid, NEW j \in DOMAIN log'[h], Late(h, j + Off(g, k)[h])
  PROVE  Late(h, j)'
<1> DEFINE m == Off(g, k)[h]
<1>1. /\ m \in Nat /\ j \in Nat /\ j >= 1 /\ j + m \in DOMAIN log[h] /\ log'[h][j] = log[h][j + m]
      /\ h = g => m = k
  BY DEF Runs, Off
<1>2. PICK t \in Shard : t = ShardOf(log[h][j + m].args)
  <2>1. log[h][j + m] \in Entries
    BY <1>1, LogsAre
  <2> QED BY <2>1, OpIs DEF Entries
<1>3. /\ ~Serves(h, t)
      /\ \A i \in DOMAIN log[h] :
           i < j + m /\ log[h][i].args.op = "Install" /\ log[h][i].args.shard = t
           => log[h][i].args.num <= group[h][t].highest
  BY <1>2 DEF Late
<1>4. /\ group'[h][t].highest >= group[h][t].highest
      /\ group'[h][t].highest \in Nat /\ group[h][t].highest \in Nat
      /\ ~Serves(h, t) /\ Serves(h, t)' =>
           /\ h = g /\ e.args.op = "Install" /\ e.args.shard = t
           /\ e.args.num > group[h][t].highest
  BY StaysClosed
<1>5. ~Serves(h, t)'
  <2>1. SUFFICES ASSUME Serves(h, t)' PROVE FALSE
    OBVIOUS
  <2>2. h = g /\ e.args.op = "Install" /\ e.args.shard = t /\ e.args.num > group[h][t].highest
    BY <1>3, <1>4, <2>1
  <2>3. k \in DOMAIN log[h] /\ k < j + m /\ e = log[h][k] /\ k \in Nat
    BY <1>1, <2>2 DEF Runs, Executed
  <2>4. e.args.num <= group[h][t].highest
    BY <1>3, <2>2, <2>3
  <2>5. e.args.num \in Nat
    <3>1. e.args \in ShardCalls
      BY <2>2 DEF Runs, Executed, Entries, Args
    <3> QED BY <3>1 DEF ShardCalls
  <2> QED BY <1>4, <2>2, <2>4, <2>5
<1>6. ASSUME NEW i \in DOMAIN log'[h], i < j, log'[h][i].args.op = "Install", log'[h][i].args.shard = t
      PROVE  log'[h][i].args.num <= group'[h][t].highest
  <2>1. i \in Nat /\ i + m \in DOMAIN log[h] /\ log'[h][i] = log[h][i + m]
    BY DEF Runs
  <2>2. i + m < j + m
    BY <1>1, <1>6, <2>1
  <2>3. log[h][i + m].args.num <= group[h][t].highest
    BY <1>3, <1>6, <2>1, <2>2
  <2>4. log[h][i + m].args.num \in Nat
    <3>1. log[h][i + m] \in Entries
      BY <2>1, LogsAre
    <3>2. log[h][i + m].args \in ShardCalls
      BY <1>6, <2>1, <3>1 DEF Entries, Args
    <3> QED BY <3>2 DEF ShardCalls
  <2> QED BY <1>4, <2>1, <2>3, <2>4
<1>7. t = ShardOf(log'[h][j].args)
  BY <1>1, <1>2
<1> HIDE DEF m
<1> QED BY <1>5, <1>6, <1>7 DEF Late

\* An operation in a log that has an effect on a value that a Put would write
\* is that Put.
LEMMA OwnPut ==
  ASSUME PutsDiffer, TypeInv, AllTold, NEW g \in Gid, NEW k \in DOMAIN log[g], NEW b, b = log[g][k].args,
         b \in Args, b.op = "Put", NEW c \in Client, NEW i, NEW a, Called(c, i, a), a.op = "Put",
         a.key = b.key, a.value = b.value
  PROVE  a = b /\ log[g][k].from = c
<1>1. PICK d, j : d = log[g][k].from /\ d \in Client /\ Called(d, j, b)
  BY DEF AllTold, LogIsCalls
<1>2. AsScripted(c) /\ AsScripted(d)
  BY <1>1 DEF AllTold, ToldTrue
<1> QED BY <1>1, <1>2, SamePut

LEMMA NeverStays ==
  ASSUME PutsDiffer, TypeInv, TypeInv', Hold, AllTold,
         NEW g \in Gid, NEW k, NEW e, NEW s, Runs(g, k, e, s),
         NEW c \in Client, NEW i, NEW a, Called(c, i, a), a.op = "Put", Never(a)
  PROVE  Never(a)'
<1>0. a \in Args /\ a.key \in Key /\ a.version \in Nat
  BY CalledIs
<1>1. ~Wrote(a)'
  <2>1. SUFFICES ASSUME Wrote(a)' PROVE FALSE
    OBVIOUS
  <2>2. /\ e.args \in Args /\ e.args.op = "Put"
        /\ e.args.key = a.key /\ e.args.value = a.value
        /\ ShardDoOp(group[g][s], e.args).reply.err = "OK"
    BY <1>0, <2>1, WroteStays DEF Never
  <2>3. k \in DOMAIN log[g] /\ e = log[g][k] /\ s = ShardOf(e.args)
    BY DEF Runs, Executed
  <2>4. a = e.args
    BY <2>2, <2>3, OwnPut
  <2>5. Late(g, k)
    BY <2>3, <2>4 DEF Never
  <2>6. ~Serves(g, s)
    BY <2>3, <2>5 DEF Late
  <2>7. s = Key2Shard[a.key]
    BY <1>0, <2>3, <2>4, OpIs
  <2>8. ShardDoOp(group[g][s], a).reply.err \in {"ErrFrozen", "ErrWrongGroup"}
    BY <1>0, <2>6, <2>7, AccessGives
  <2> QED BY <2>2, <2>4, <2>8
<1>2. ASSUME NEW h \in Gid, NEW j \in DOMAIN log'[h], log'[h][j].args = a PROVE Late(h, j)'
  <2>1. j + Off(g, k)[h] \in DOMAIN log[h] /\ log[h][j + Off(g, k)[h]].args = a
    BY <1>2 DEF Runs
  <2>2. Late(h, j + Off(g, k)[h])
    BY <2>1 DEF Never
  <2> QED BY <2>2, LateStays
<1> QED BY <1>1, <1>2 DEF Never

LEMMA TruthStays ==
  ASSUME PutsDiffer, TypeInv, TypeInv', Hold, AllTold,
         NEW g \in Gid, NEW k, NEW e, NEW s, Runs(g, k, e, s),
         NEW c \in Client, NEW i, NEW a, Called(c, i, a),
         NEW floor, NEW err, NEW value, NEW version \in Nat, Truth(a, floor, err, value, version)
  PROVE  Truth(a, floor, err, value, version)'
<1>0. a \in Args /\ a.key \in Key /\ a.version \in Nat
  BY CalledIs
<1>1. CASE a.op = "Put"
  <2>1. Wrote(a) => Wrote(a)'
    BY <1>0, WroteStays
  <2>2. Never(a) => Never(a)'
    BY <1>1, NeverStays
  <2> QED BY <1>1, <2>1, <2>2 DEF Truth
<1>2. CASE a.op # "Put"
  <2>1. /\ Len(written[a.key]) \in Nat /\ Len(written'[a.key]) >= Len(written[a.key])
        /\ Len(written'[a.key]) \in Nat
        /\ \A n \in 1 .. Len(written[a.key]) : written'[a.key][n] = written[a.key][n]
    BY <1>0, WrittenGrows
  <2>2. /\ version >= floor /\ version <= Len(written[a.key])
        /\ err = IF version = 0 THEN "ErrNoKey" ELSE "OK"
        /\ version > 0 => value = written[a.key][version]
    BY <1>2 DEF Truth
  <2>3. version <= Len(written'[a.key]) /\ (version > 0 => value = written'[a.key][version])
    BY <2>1, <2>2
  <2> QED BY <1>2, <2>2, <2>3 DEF Truth
<1> QED BY <1>1, <1>2

\* The operation that client c waits for is executed.
LEMMA AnsweredTruly ==
  ASSUME PutsDiffer, TypeInv, TypeInv', Hold, AllTold,
         NEW g \in Gid, NEW k, NEW e, NEW s, Runs(g, k, e, s), NEW c \in Client, Waits(c, g, k),
         NEW a, a = client[c].args, NEW x, x = ShardDoOp(group[g][s], a).reply,
         x.err \notin {"ErrWrongGroup", "ErrFrozen"},
         NEW told, told = IF a.op = "Put" /\ client[c].resent /\ x.err = "ErrVersion"
                          THEN "ErrMaybe" ELSE x.err
  PROVE  Truth(a, client[c].floor, told, x.value, x.version)'
<1>0. /\ ToldTrue(c) /\ InOrder(c) /\ ~Answered(c) /\ client[c].at = "wait"
      /\ k \in DOMAIN log[g] /\ k \in Nat /\ k >= 1 /\ e = log[g][k]
  BY DEF AllTold, TypeInv, InOrder, Runs, Executed
<1>1. e.args = a /\ \A j \in DOMAIN log[g] : j > k => log[g][j].from # c
  BY <1>0 DEF ToldTrue, WaitsForLast
<1>2. /\ Called(c, Len(done[c]) + 1, a) /\ a \in Args /\ a.op \in {"Get", "Put"} /\ a.key \in Key
      /\ a.version \in Nat
  <2>1. Called(c, Len(done[c]) + 1, a)
    BY <1>0 DEF Called
  <2> QED BY <2>1, CalledIs
<1>3. s = Key2Shard[a.key] /\ s \in Shard
  BY <1>1, <1>2, OpIs DEF Runs, Executed
<1>4. PICK n : n = Len(written[a.key])
  OBVIOUS
<1>5. /\ n \in Nat /\ Serves(g, s)
      /\ a.op = "Get" =>
           /\ x.version = n /\ x.err = IF n = 0 THEN "ErrNoKey" ELSE "OK"
           /\ n > 0 => x.value = written[a.key][n]
      /\ a.op = "Put" => x.err = IF a.version = n THEN "OK" ELSE IF n = 0 THEN "ErrNoKey" ELSE "ErrVersion"
  <2>1. /\ n \in Nat
        /\ ~Serves(g, s) => x.err \in {"ErrFrozen", "ErrWrongGroup"}
        /\ Serves(g, s) /\ a.op = "Get" =>
             /\ x.version = n /\ x.err = IF n = 0 THEN "ErrNoKey" ELSE "OK"
             /\ n > 0 => x.value = written[a.key][n]
        /\ Serves(g, s) /\ a.op = "Put" =>
             x.err = IF a.version = n THEN "OK" ELSE IF n = 0 THEN "ErrNoKey" ELSE "ErrVersion"
    <3>1. a \in Args /\ s = Key2Shard[a.key] /\ x = ShardDoOp(group[g][s], a).reply
          /\ n = Len(written[a.key]) /\ g \in Gid
      BY <1>2, <1>3, <1>4
    <3> QED BY ONLY TypeInv, Hold, <3>1, AccessGives
  <2>2. Serves(g, s)
    BY <2>1
  <2> QED BY <2>1, <2>2
<1>6. CASE a.op = "Get"
  <2>1. written' = written
    BY <1>1, <1>6 DEF Runs
  <2>2. client[c].floor <= n /\ client'[c].floor = client[c].floor
    BY <1>0, <1>4 DEF ToldTrue, NotYet, Runs
  <2>3. told = x.err
    BY <1>6
  <2> QED BY <1>4, <1>5, <1>6, <2>1, <2>2, <2>3 DEF Truth
<1>7. CASE a.op = "Put" /\ a.version = n
  <2>1. x.err = "OK" /\ told = "OK"
    BY <1>5, <1>7
  <2>2. written' = [written EXCEPT ![a.key] = Append(written[a.key], a.value)]
    BY <1>1, <1>7, <2>1 DEF Runs
  <2>3. written \in [Key -> Seq(Value)] /\ written[a.key] \in Seq(Value) /\ a.value \in Value
    BY <1>2 DEF TypeInv, Types, Args
  <2>4. written'[a.key] = Append(written[a.key], a.value)
    BY <1>2, <2>2, <2>3
  <2>5. Len(written'[a.key]) = n + 1 /\ written'[a.key][n + 1] = a.value
    BY <1>4, <2>3, <2>4, AppendProperties
  <2>6. Wrote(a)'
    BY <1>5, <1>7, <2>5 DEF Wrote
  <2> QED BY <1>7, <2>1, <2>6 DEF Truth
<1>8. CASE a.op = "Put" /\ a.version # n
  <2>1. x.err = IF n = 0 THEN "ErrNoKey" ELSE "ErrVersion"
    BY <1>5, <1>8
  <2>2. written' = written
    BY <1>1, <2>1 DEF Runs
  <2>3. ASSUME NEW h \in Gid, NEW j \in DOMAIN log'[h], log'[h][j].args = a
        PROVE  /\ j \in Nat /\ j >= 1 /\ j + Off(g, k)[h] \in DOMAIN log[h]
               /\ log'[h][j] = log[h][j + Off(g, k)[h]]
               /\ log[h][j + Off(g, k)[h]].from = c /\ log[h][j + Off(g, k)[h]].args = a
    <3>1. /\ j \in Nat /\ j >= 1 /\ j + Off(g, k)[h] \in DOMAIN log[h]
          /\ log'[h][j] = log[h][j + Off(g, k)[h]]
      BY DEF Runs
    <3>2. log[h][j + Off(g, k)[h]].args = a
      BY <2>3, <3>1
    <3>3. log[h][j + Off(g, k)[h]].from = c
      BY <1>2, <1>8, <3>1, <3>2, OwnPut
    <3> QED BY <3>1, <3>2, <3>3
  <2>4. \A h \in Gid : Off(g, k)[h] = IF h = g THEN k ELSE 0
    BY DEF Off
  <2>5. CASE n = 0
    <3>1. ~Wrote(a)'
      BY <1>2, <1>4, <2>2, <2>5 DEF Wrote
    <3>2. ASSUME NEW h \in Gid, NEW j \in DOMAIN log'[h], log'[h][j].args = a PROVE Late(h, j)'
      <4>1. CASE h = g
        <5>1. j + k \in DOMAIN log[g] /\ j + k > k /\ log[g][j + k].from = c
          BY <1>0, <2>3, <2>4, <3>2, <4>1
        <5> QED BY <1>1, <5>1
      <4>2. CASE h # g
        <5>1. j \in Nat /\ j + 0 = j /\ j \in DOMAIN log[h] /\ log[h][j].args = a
          BY <2>3, <2>4, <3>2, <4>2
        <5>2. ~Serves(h, s)
          <6>1. ASSUME Serves(h, s) PROVE h = g
            <7>1. Owns(h, s) /\ Placed
              BY <6>1 DEF Serves, Hold
            <7> QED BY <1>3, <1>5, <6>1, <7>1, OneServer
          <6> QED BY <4>2, <6>1
        <5>3. ASSUME NEW i \in DOMAIN log[h], log[h][i].args.op = "Install", log[h][i].args.shard = s
              PROVE  log[h][i].args.num <= group[h][s].highest
          <6>1. PICK b : b = log[h][i].args
            OBVIOUS
          <6>2. b \in ShardCalls /\ Ordered(h, b) /\ b.op = "Install" /\ b.shard = s /\ b.num \in Nat
            <7>1. log[h][i] \in Entries
              BY LogsAre
            <7>2. b \in ShardCalls
              BY <5>3, <6>1, <7>1 DEF Entries, Args
            <7> QED BY <5>3, <6>1, <7>2 DEF Ordered, ShardCalls
          <6>3. Sound(b, h) /\ Placed
            BY <6>2 DEF Hold, Orders
          <6>4. group[h][s].highest \in Nat /\ Query.Num \in Nat
            BY <1>3, WorldIs
          <6>5. CASE b.num <= Query.Num
            BY <6>1, <6>2, <6>3, <6>4, <6>5 DEF Sound, Spent
          <6>6. CASE ~(b.num <= Query.Num)
            <7>1. h = To(s) /\ Reached(From(s), s) /\ b.num <= Query.Num + 1
              BY <6>2, <6>3, <6>6 DEF Sound, Due
            <7>2. Reached(h, s)
              BY <1>3, <1>5, <6>3, <7>1, NobodyServes
            <7> QED BY <6>1, <7>1, <7>2 DEF Reached
          <6> QED BY <6>5, <6>6
        <5>4. Late(h, j)
          <6>1. ShardOf(log[h][j].args) = s
            BY <1>2, <1>3, <5>1, OpIs
          <6> QED BY <5>2, <5>3, <6>1 DEF Late
        <5>5. Off(g, k)[h] = 0 /\ j + Off(g, k)[h] = j
          BY <2>4, <4>2, <5>1
        <5> QED BY <5>4, <5>5, LateStays
      <4> QED BY <4>1, <4>2
    <3>3. Never(a)'
      BY <3>1, <3>2 DEF Never
    <3>4. told # "OK"
      BY <2>1, <2>5
    <3> QED BY <1>8, <3>3, <3>4 DEF Truth
  <2>6. CASE n # 0 /\ ~client[c].resent
    <3>1. ~Wrote(a)'
      <4>1. ~Wrote(a)
        BY <1>0, <1>8, <2>6 DEF ToldTrue, FirstCopy
      <4> QED BY <2>2, <4>1 DEF Wrote
    <3>2. ASSUME NEW h \in Gid, NEW j \in DOMAIN log'[h], log'[h][j].args = a PROVE FALSE
      <4>1. Waits(c, h, j + Off(g, k)[h])
        BY <1>0, <1>8, <2>3, <2>6, <3>2 DEF ToldTrue, FirstCopy
      <4>2. j + Off(g, k)[h] \in Nat
        BY <2>3, <3>2, LogsAre
      <4>3. h = g /\ j + Off(g, k)[h] = k
        BY <1>0, <4>1, <4>2 DEF InOrder
      <4>4. j + k = k
        BY <2>4, <4>3
      <4> QED BY <1>0, <2>3, <3>2, <4>4
    <3>3. Never(a)'
      BY <3>1, <3>2 DEF Never
    <3>4. told # "OK"
      BY <2>1, <2>6
    <3> QED BY <1>8, <3>3, <3>4 DEF Truth
  <2>7. CASE n # 0 /\ client[c].resent
    <3>1. told = "ErrMaybe"
      BY <1>8, <2>1, <2>7
    <3> QED BY <1>8, <3>1 DEF Truth
  <2> QED BY <2>5, <2>6, <2>7
<1> QED BY <1>2, <1>6, <1>7, <1>8

LEMMA ExecutionTellsTrue ==
  ASSUME PutsDiffer, TypeInv, TypeInv', Hold, AllTold,
         NEW g \in Gid, NEW k, NEW e, NEW s, Runs(g, k, e, s), NEW c \in Client
  PROVE  ToldTrue(c)'
<1>0. /\ ToldTrue(c) /\ InOrder(c) /\ client' = client /\ done' = done
      /\ k \in DOMAIN log[g] /\ k \in Nat /\ k >= 1 /\ e = log[g][k] /\ s = ShardOf(e.args)
      /\ answer' = IF e.awaited
                   THEN [answer EXCEPT ![e.from] = ShardDoOp(group[g][s], e.args).reply] ELSE answer
  BY DEF AllTold, TypeInv, Runs, Executed
<1>1. c \in Actor /\ answer \in [Actor -> ShardReplies] /\ answer' \in [Actor -> ShardReplies]
  BY Actors DEF TypeInv, Types
<1>2. ASSUME NEW h \in Gid, NEW j \in DOMAIN log'[h]
      PROVE  /\ j + Off(g, k)[h] \in DOMAIN log[h] /\ log'[h][j] = log[h][j + Off(g, k)[h]]
             /\ j \in Nat /\ Off(g, k)[h] \in Nat
  BY DEF Runs
<1>3. \A i, a : Called(c, i, a)' <=> Called(c, i, a)
  BY <1>0 DEF Called
<1>4. AsScripted(c)'
  BY <1>0, <1>3 DEF AsScripted, ToldTrue
<1>5. NotYet(c)'
  <2>1. SUFFICES ASSUME client[c].at # "idle" PROVE client[c].floor <= Len(written'[client[c].args.key])
    BY <1>0 DEF NotYet
  <2>2. client[c].args.key \in Key /\ client[c].floor \in Nat
    BY <2>1, ClerkIs DEF Args, Clerks
  <2>3. client[c].floor <= Len(written[client[c].args.key])
    BY <1>0, <2>1 DEF NotYet, ToldTrue
  <2> QED BY <2>2, <2>3, WrittenGrows
<1>6. ReturnsHold(c)'
  <2>1. SUFFICES ASSUME NEW i \in 1 .. Len(done[c]), NEW d, d = done[c][i]
                 PROVE  Truth(d.args, d.floor, d.err, d.value, d.version)'
    BY <1>0 DEF ReturnsHold
  <2>2. Called(c, i, d.args) /\ Truth(d.args, d.floor, d.err, d.value, d.version)
    BY <1>0, <2>1 DEF Called, ReturnsHold, ToldTrue
  <2>3. d.version \in Nat
    <3>1. d \in Returned
      BY <2>1, ClerkIs, ElementOfSeq
    <3> QED BY <3>1 DEF Returned
  <2> QED BY <2>2, <2>3, TruthStays
<1>7. WaitsForLast(c)'
  <2>1. SUFFICES ASSUME NEW h \in Gid, NEW j \in Nat, Waits(c, h, j)'
                 PROVE  /\ log'[h][j].args = client[c].args
                        /\ \A i \in DOMAIN log'[h] : i > j => log'[h][i].from # c
    BY <1>0 DEF WaitsForLast
  <2> DEFINE m == Off(g, k)[h]
  <2>2. j \in DOMAIN log'[h] /\ j + m \in DOMAIN log[h] /\ log'[h][j] = log[h][j + m] /\ m \in Nat
    BY <1>2, <2>1 DEF Waits
  <2>3. Waits(c, h, j + m) /\ j + m \in Nat
    BY <2>1, <2>2 DEF Waits
  <2>4. /\ log[h][j + m].args = client[c].args
        /\ \A i \in DOMAIN log[h] : i > j + m => log[h][i].from # c
    BY <1>0, <2>3 DEF WaitsForLast, ToldTrue
  <2>5. ASSUME NEW i \in DOMAIN log'[h], i > j PROVE log'[h][i].from # c
    <3>1. i + m \in DOMAIN log[h] /\ log'[h][i] = log[h][i + m] /\ i + m > j + m
      BY <1>2, <2>2, <2>5
    <3> QED BY <2>4, <3>1
  <2> QED BY <2>2, <2>4, <2>5
<1>8. FirstCopy(c)'
  <2>1. SUFFICES ASSUME client[c].at # "idle", ~client[c].resent, client[c].args.op = "Put"
        PROVE  /\ \A h \in Gid : \A j \in DOMAIN log'[h] :
                    log'[h][j].from = c /\ log'[h][j].args = client[c].args => Waits(c, h, j)'
               /\ ~Answered(c)' => ~Wrote(client[c].args)'
    BY <1>0 DEF FirstCopy
  <2>2. /\ \A h \in Gid : \A j \in DOMAIN log[h] :
             log[h][j].from = c /\ log[h][j].args = client[c].args => Waits(c, h, j)
        /\ ~Answered(c) => ~Wrote(client[c].args)
    BY <1>0, <2>1 DEF FirstCopy, ToldTrue
  <2>3. ASSUME NEW h \in Gid, NEW j \in DOMAIN log'[h], log'[h][j].from = c,
               log'[h][j].args = client[c].args
        PROVE  Waits(c, h, j)'
    <3>1. Waits(c, h, j + Off(g, k)[h])
      BY <1>2, <2>2, <2>3
    <3> QED BY <1>2, <2>3, <3>1 DEF Waits
  <2>4. ASSUME ~Answered(c)', Wrote(client[c].args)' PROVE FALSE
    <3>1. PICK a : a = client[c].args
      OBVIOUS
    <3>2. Called(c, Len(done[c]) + 1, a)
      BY <2>1, <3>1 DEF Called
    <3>3. a \in Args /\ a.key \in Key /\ a.version \in Nat /\ a.op = "Put" /\ Wrote(a)'
      <4>1. a = client'[c].args
        BY <1>0, <3>1
      <4> QED BY <2>1, <2>4, <3>1, <3>2, <4>1, CalledIs
    <3>4. ~Answered(c)
      <4>1. CASE e.awaited /\ e.from = c
        <5>1. Waits(c, g, k)
          BY <1>0, <4>1 DEF Waits
        <5> QED BY <1>0, <5>1 DEF InOrder
      <4>2. CASE ~(e.awaited /\ e.from = c)
        <5>1. answer'[c] = answer[c]
          BY <1>0, <1>1, <4>2
        <5> QED BY <2>4, <5>1 DEF Answered
      <4> QED BY <4>1, <4>2
    <3>5. ~Wrote(a)
      BY <2>2, <3>1, <3>4
    <3>6. e.args \in Args /\ e.args.op = "Put" /\ e.args.key = a.key /\ e.args.value = a.value
          /\ ShardDoOp(group[g][s], e.args).reply.err = "OK"
      BY <3>3, <3>5, WroteStays
    <3>7. a = e.args /\ e.from = c
      BY <1>0, <3>2, <3>3, <3>6, OwnPut
    <3>8. Waits(c, g, k)
      BY <1>0, <2>2, <3>1, <3>7
    <3>9. answer'[c].err = "OK"
      BY <1>0, <1>1, <3>6, <3>7, <3>8 DEF Waits
    <3> QED BY <2>4, <3>9 DEF Answered
  <2> QED BY <2>3, <2>4
<1>9. AnswerHolds(c)'
  <2>1. SUFFICES ASSUME Answered(c)', answer'[c].err \notin {"ErrWrongGroup", "ErrFrozen"}
        PROVE  Truth(client[c].args, client[c].floor, Told(c), answer[c].value, answer[c].version)'
    BY DEF AnswerHolds
  <2>2. PICK a, floor, told, x : a = client[c].args /\ floor = client[c].floor /\ x = answer'[c]
          /\ told = IF a.op = "Put" /\ client[c].resent /\ x.err = "ErrVersion"
                    THEN "ErrMaybe" ELSE x.err
    OBVIOUS
  <2>3. a = client'[c].args /\ floor = client'[c].floor /\ told = Told(c)'
    BY <1>0, <2>2 DEF Told
  <2>4. Truth(a, floor, told, x.value, x.version)'
    <3>1. CASE e.awaited /\ e.from = c
      <4>1. Waits(c, g, k)
        BY <1>0, <3>1 DEF Waits
      <4>2. e.args = a
        BY <1>0, <2>2, <4>1 DEF ToldTrue, WaitsForLast
      <4>3. x = ShardDoOp(group[g][s], a).reply
        BY <1>0, <1>1, <2>2, <3>1, <4>2
      <4>4. Truth(a, client[c].floor, told, x.value, x.version)'
        BY <2>1, <2>2, <4>1, <4>3, AnsweredTruly
      <4> QED BY <2>2, <2>3, <4>4
    <3>2. CASE ~(e.awaited /\ e.from = c)
      <4>1. answer'[c] = answer[c]
        BY <1>0, <1>1, <3>2
      <4>2. Answered(c) /\ answer[c].err \notin {"ErrWrongGroup", "ErrFrozen"} /\ x = answer[c]
        BY <2>1, <2>2, <4>1 DEF Answered
      <4>3. told = Told(c)
        BY <2>2, <4>2 DEF Told
      <4>4. Truth(a, floor, told, x.value, x.version)
        BY <1>0, <2>2, <4>2, <4>3 DEF ToldTrue, AnswerHolds
      <4>5. Called(c, Len(done[c]) + 1, a)
        BY <1>0, <2>2, <4>2 DEF InOrder, Called
      <4>6. x.version \in Nat
        BY <1>1, <4>2 DEF ShardReplies
      <4> QED BY <4>4, <4>5, <4>6, TruthStays
    <3> QED BY <3>1, <3>2
  <2> QED BY <2>2, <2>3, <2>4
<1> QED BY <1>4, <1>5, <1>6, <1>7, <1>8, <1>9 DEF ToldTrue

LEMMA ExecutionTold ==
  ASSUME PutsDiffer, TypeInv, TypeInv', Hold, AllTold, NEW g \in Gid, NEW k \in DOMAIN log[g],
         Execution(g, k)
  PROVE  AllTold'
<1>1. PICK e, s : Runs(g, k, e, s)
  BY RunsIs
<1>2. \A c \in Client : ToldTrue(c)'
  BY <1>1, ExecutionTellsTrue
<1>3. client' = client /\ done' = done /\ e = log[g][k] /\ s = ShardOf(e.args)
  BY <1>1 DEF Runs, Executed
<1>4. \A c, i, a : Called(c, i, a)' <=> Called(c, i, a)
  BY <1>3 DEF Called
<1>5. LogIsCalls'
  <2>1. ASSUME NEW h \in Gid, NEW j \in DOMAIN log'[h], NEW d, NEW a, d = log'[h][j].from,
               a = log'[h][j].args, a \in Args
        PROVE  d \in Client /\ \E i : Called(d, i, a)'
    <3>1. j + Off(g, k)[h] \in DOMAIN log[h] /\ log'[h][j] = log[h][j + Off(g, k)[h]]
      BY <1>1 DEF Runs
    <3>2. d \in Client /\ \E i : Called(d, i, a)
      BY <2>1, <3>1 DEF AllTold, LogIsCalls
    <3> QED BY <1>4, <3>2
  <2> QED BY <2>1 DEF LogIsCalls
<1>6. WrittenIsCalls'
  <2>1. ASSUME NEW key \in Key, NEW n \in 1 .. Len(written'[key]), NEW a,
               a = PutArgs(key, written'[key][n], n - 1)
        PROVE  \E c \in Client, i \in Nat : Called(c, i, a)
    <3>1. CASE n \in 1 .. Len(written[key])
      <4>1. a = PutArgs(key, written[key][n], n - 1)
        BY <1>1, <2>1, <3>1, WrittenGrows
      <4> QED BY <3>1, <4>1 DEF AllTold, WrittenIsCalls
    <3>2. CASE n \notin 1 .. Len(written[key])
      <4>1. /\ Len(written[key]) \in Nat
            /\ e.args \in Args /\ e.args.op = "Put" /\ e.args.key = key
            /\ n = Len(written[key]) + 1 /\ written'[key][n] = e.args.value
            /\ ShardDoOp(group[g][s], e.args).reply.err = "OK"
        BY <1>1, <3>2, WrittenGrows
      <4>2. PICK b, x, m : b = e.args /\ x = ShardDoOp(group[g][s], e.args).reply
              /\ m = Len(written[key])
        OBVIOUS
      <4>3. s = Key2Shard[b.key]
        BY <1>3, <4>1, <4>2, OpIs
      <4>4. b.version = m
        <5>1. b \in Args /\ s = Key2Shard[b.key] /\ x = ShardDoOp(group[g][s], b).reply
              /\ m = Len(written[b.key]) /\ g \in Gid
          BY <4>1, <4>2, <4>3
        <5>2. /\ ~Serves(g, s) => x.err \in {"ErrFrozen", "ErrWrongGroup"}
              /\ Serves(g, s) /\ b.op = "Put" =>
                   x.err = IF b.version = m THEN "OK" ELSE IF m = 0 THEN "ErrNoKey" ELSE "ErrVersion"
          BY ONLY TypeInv, Hold, <5>1, AccessGives
        <5>3. x.err = "OK" /\ b.op = "Put"
          BY <4>1, <4>2
        <5> QED BY <5>2, <5>3
      <4>5. b = PutArgs(key, b.value, b.version)
        BY <4>1, <4>2 DEF Args, PutArgs
      <4>6. a = b
        BY <2>1, <4>1, <4>2, <4>4, <4>5
      <4>7. PICK d, i : d \in Client /\ Called(d, i, b)
        BY <1>3, <4>1, <4>2 DEF AllTold, LogIsCalls
      <4> QED BY <4>6, <4>7, CalledIs
    <3> QED BY <3>1, <3>2
  <2> QED BY <1>4, <2>1 DEF WrittenIsCalls
<1> QED BY <1>2, <1>5, <1>6 DEF AllTold

-----------------------------------------------------------------------------
(* Every step, the first state, and what it means for the clients.         *)

LEMMA NothingTold ==
  ASSUME AllTold, UNCHANGED skvars
  PROVE  AllTold'
<1>1. /\ group' = group /\ log' = log /\ answer' = answer
      /\ client' = client /\ done' = done /\ written' = written
  BY DEF skvars, grp, kvs
<1>2. \A c, i, a : Called(c, i, a)' <=> Called(c, i, a)
  BY <1>1 DEF Called
<1>3. LogIsCalls' /\ WrittenIsCalls'
  BY <1>1, <1>2 DEF AllTold, LogIsCalls, WrittenIsCalls
<1>4. \A a : (Wrote(a)' <=> Wrote(a)) /\ (Never(a)' <=> Never(a))
  BY <1>1 DEF Wrote, Never, Late, Serves, Owns
<1>5. \A a, floor, err, value, version :
        Truth(a, floor, err, value, version)' <=> Truth(a, floor, err, value, version)
  BY <1>1, <1>4 DEF Truth
<1>6. ASSUME NEW c \in Client PROVE ToldTrue(c)'
  <2>1. ToldTrue(c)
    BY DEF AllTold
  <2>2. AsScripted(c)'
    BY <1>2, <2>1 DEF ToldTrue, AsScripted
  <2>3. WaitsForLast(c)'
    BY <1>1, <2>1 DEF ToldTrue, WaitsForLast, Waits
  <2>4. FirstCopy(c)'
    BY <1>1, <1>4, <2>1 DEF ToldTrue, FirstCopy, Waits, Answered
  <2>5. NotYet(c)'
    BY <1>1, <2>1 DEF ToldTrue, NotYet
  <2>6. AnswerHolds(c)'
    BY <1>1, <1>5, <2>1 DEF ToldTrue, AnswerHolds, Answered, Told
  <2>7. ReturnsHold(c)'
    BY <1>1, <1>5, <2>1 DEF ToldTrue, ReturnsHold
  <2> QED BY <2>2, <2>3, <2>4, <2>5, <2>6, <2>7 DEF ToldTrue
<1> QED BY <1>3, <1>6 DEF AllTold

LEMMA StepTold ==
  ASSUME PutsDiffer, TypeInv, TypeInv', Hold, AllTold, [SKNext]_skvars
  PROVE  AllTold'
<1>1. CASE \E c \in Controller : ControllerStep(c) /\ UNCHANGED kvs
  BY <1>1, ControllerTold
<1>2. CASE \E c \in Client :
       CallsNext(c) \/ Locate(c) \/ AskGroup(c) \/ AskFails(c) \/ AskMaybe(c) \/ AskReturns(c)
  BY <1>2, CallsNextTold, LocateTold, AskGroupTold, AskEndsTold, AskReturnsTold
<1>3. CASE \E g \in Gid : \E k \in DOMAIN log[g] : Execution(g, k)
  BY <1>3, ExecutionTold
<1>4. CASE UNCHANGED skvars
  BY <1>4, NothingTold
<1> QED BY <1>1, <1>2, <1>3, <1>4 DEF SKNext

LEMMA FirstTold ==
  ASSUME SKInit
  PROVE  AllTold
<1>1. /\ log = [g \in Gid |-> <<>>] /\ answer = [a \in Actor |-> NoAnswer]
      /\ client = [c \in Client |-> NoCall] /\ done = [c \in Client |-> <<>>]
      /\ written = [k \in Key |-> <<>>]
  BY DEF SKInit, CtrlInit, GrpInit
<1>2. Len(<<>>) = 0 /\ DOMAIN <<>> = {}
  BY EmptySeq
<1>3. LogIsCalls /\ WrittenIsCalls
  BY <1>1, <1>2 DEF LogIsCalls, WrittenIsCalls
<1>4. ASSUME NEW c \in Client PROVE ToldTrue(c)
  <2>1. client[c].at = "idle" /\ done[c] = <<>> /\ ~Answered(c)
    BY <1>1, <1>4, Actors, EmptyTypes, NoCallIs DEF Answered
  <2>2. \A i, a : ~Called(c, i, a)
    BY <1>2, <2>1 DEF Called
  <2>3. \A g \in Gid, k \in Nat : ~Waits(c, g, k)
    BY <1>1, <1>2 DEF Waits
  <2>4. AsScripted(c) /\ WaitsForLast(c) /\ FirstCopy(c) /\ NotYet(c) /\ AnswerHolds(c)
    BY <2>1, <2>2, <2>3 DEF AsScripted, WaitsForLast, FirstCopy, NotYet, AnswerHolds
  <2>5. ReturnsHold(c)
    BY <1>2, <2>1 DEF ReturnsHold
  <2> QED BY <2>4, <2>5 DEF ToldTrue
<1> QED BY <1>3, <1>4 DEF AllTold

\* Unless a controller is Misled, everyone has been told the truth.
LEMMA TellInvariant ==
  ASSUME PutsDiffer, ~Misled
  PROVE  SKSpec => []AllTold
<1>1. SKInit => AllTold
  BY FirstTold
<1>2. TypeInv /\ TypeInv' /\ Hold /\ AllTold /\ [SKNext]_skvars => AllTold'
  BY StepTold
<1> QED BY <1>1, <1>2, TypeInvariant, MoveInvariant, PTL DEF SKSpec

LEMMA OnceWritten ==
  ASSUME PutsDiffer, TypeInv, AllTold, NEW c \in Client, NEW i, NEW a, Called(c, i, a), a.op = "Put"
  PROVE  TimesWritten(a) = IF Wrote(a) THEN {a.version + 1} ELSE {}
<1>1. a.key \in Key /\ a.version \in Nat /\ AsScripted(c)
  BY CalledIs DEF AllTold, ToldTrue
<1>2. Len(written[a.key]) \in Nat
  BY <1>1, LatestIs
<1>3. ASSUME NEW n \in TimesWritten(a) PROVE n = a.version + 1 /\ Wrote(a)
  <2>1. n \in 1 .. Len(written[a.key]) /\ written[a.key][n] = a.value
    BY DEF TimesWritten
  <2>2. PICK d \in Client, j \in Nat : Called(d, j, PutArgs(a.key, written[a.key][n], n - 1))
    BY <1>1, <2>1 DEF AllTold, WrittenIsCalls
  <2>3. PICK b : b = PutArgs(a.key, written[a.key][n], n - 1)
    OBVIOUS
  <2>4. b.op = "Put" /\ b.key = a.key /\ b.value = a.value /\ b.version = n - 1
    BY <2>1, <2>3 DEF PutArgs
  <2>5. Called(d, j, b) /\ AsScripted(d)
    BY <2>2, <2>3 DEF AllTold, ToldTrue
  <2>6. a = b
    BY <1>1, <2>4, <2>5, SamePut
  <2>7. n = a.version + 1
    BY <1>2, <2>1, <2>4, <2>6
  <2> QED BY <2>1, <2>7 DEF Wrote
<1>4. Wrote(a) => a.version + 1 \in TimesWritten(a)
  BY DEF Wrote, TimesWritten
<1> QED BY <1>3, <1>4

\* If no controller is Misled, and no two calls put the same value to a key, so
\* that a value tells whose it is, then what the clients are told is true wherever
\* their keys are moved to, whatever is resent, executed twice or executed late: a
\* Put takes effect at most once, and as OK, ErrVersion and ErrNoKey say for ever,
\* and a Get returns what was written, and nothing older than when it was called.
\* Of ErrMaybe nothing is claimed: the Put may take effect later (CallsInOrder).
THEOREM AnswersAreTrue ==
  ASSUME PutsDiffer, ~Misled
  PROVE  SKSpec => []AnswersTrue
<1>1. ASSUME TypeInv, AllTold PROVE AnswersTrue
  <2>1. ASSUME NEW c \in Client, NEW i \in 1 .. Len(done[c]), NEW d, d = done[c][i], NEW a, a = d.args
        PROVE  /\ a.op = "Put" =>
                    /\ Cardinality(TimesWritten(a)) <= 1
                    /\ d.err = "OK" => TimesWritten(a) = {a.version + 1}
                    /\ d.err \in {"ErrVersion", "ErrNoKey"} => TimesWritten(a) = {}
               /\ a.op # "Put" =>
                    /\ d.version >= d.floor
                    /\ d.err = IF d.version = 0 THEN "ErrNoKey" ELSE "OK"
                    /\ d.version > 0 => d.value = written[a.key][d.version]
    <3>1. Truth(a, d.floor, d.err, d.value, d.version)
      BY <1>1, <2>1 DEF AllTold, ToldTrue, ReturnsHold
    <3>2. Called(c, i, a)
      BY <2>1 DEF Called
    <3>3. CASE a.op = "Put"
      <4>1. TimesWritten(a) = IF Wrote(a) THEN {a.version + 1} ELSE {}
        BY <1>1, <3>2, <3>3, OnceWritten
      <4>2. Cardinality(TimesWritten(a)) <= 1
        <5>1. Cardinality({}) = 0 /\ Cardinality({a.version + 1}) = 1
          BY FS_EmptySet, FS_Singleton
        <5> QED BY <4>1, <5>1
      <4> QED BY <3>1, <3>3, <4>1, <4>2 DEF Truth, Never
    <3>4. CASE a.op # "Put"
      BY <3>1, <3>4 DEF Truth
    <3> QED BY <3>3, <3>4
  <2> QED BY <2>1 DEF AnswersTrue
<1> QED BY <1>1, TypeInvariant, TellInvariant, PTL
=============================================================================
