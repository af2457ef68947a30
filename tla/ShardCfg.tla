------------------------------- MODULE ShardCfg -------------------------------
(***************************************************************************)
(* shardkv/shardcfg/shardcfg.go: configurations, which say what group has  *)
(* what shard, and how Join and Leave spread the shards over the groups.   *)
(* The servers of a group never change, so that Groups is a set of gids.   *)
(***************************************************************************)
EXTENDS Naturals, FiniteSets

CONSTANTS
  NShards,   \* how many shards there are; the first one is 0
  Gid        \* the groups there may be; 0 stands for no group

ASSUME ShardAssumption == NShards \in Nat \ {0} /\ Gid \subseteq Nat \ {0} /\ 1 \in Gid

Shard == 0 .. NShards - 1
Gid1 == 1
Config == [Num : Nat, Shards : [Shard -> Gid \cup {0}], Groups : SUBSET Gid]
MakeShardConfig == [Num |-> 0, Shards |-> [s \in Shard |-> 0], Groups |-> {}]
FirstConfig == [Num |-> 1, Shards |-> [s \in Shard |-> Gid1], Groups |-> {Gid1}]

First(S) == CHOOSE x \in S : \A y \in S : x <= y
Has(shards, g) == {s \in Shard : shards[s] = g}
Count(shards, g) == Cardinality(Has(shards, g))

\* analyze: ties go to the smallest gid.
Least(shards, groups) ==
  First({g \in groups : \A h \in groups : Count(shards, g) <= Count(shards, h)})
Most(shards, groups) ==
  First({g \in groups : \A h \in groups : Count(shards, g) >= Count(shards, h)})

Even(shards, groups) ==
  Count(shards, Most(shards, groups)) < Count(shards, Least(shards, groups)) + 2

\* Every shard of a group that is not there goes to the least loaded one.
Assign(shards, groups) ==
  LET a[n \in 0 .. NShards] ==
        IF n = 0 THEN shards
        ELSE LET b == a[n - 1] IN
             IF b[n - 1] \in groups THEN b
             ELSE [b EXCEPT ![n - 1] = Least(b, groups)]
  IN a[NShards]

\* The first shard of the most loaded group moves to the least loaded one,
\* until they are even: no more than NShards moves.
Spread(shards, groups) ==
  LET a[n \in 0 .. NShards] ==
        IF n = 0 THEN shards
        ELSE LET b == a[n - 1] IN
             IF Even(b, groups) THEN b
             ELSE [b EXCEPT ![First(Has(b, Most(b, groups)))] = Least(b, groups)]
  IN a[NShards]

Rebalance(shards, groups) ==
  IF groups = {} THEN [s \in Shard |-> 0] ELSE Spread(Assign(shards, groups), groups)

Changed(c, groups) ==
  [Num |-> c.Num + 1, Shards |-> Rebalance(c.Shards, groups), Groups |-> groups]

\* The configurations that follow c: a group joins that is not there, or one
\* leaves that is.
JoinBalance(c, g) == IF g \in c.Groups THEN {} ELSE {Changed(c, c.Groups \cup {g})}
LeaveBalance(c, g) == IF g \notin c.Groups THEN {} ELSE {Changed(c, c.Groups \ {g})}

GidServers(c, s) == c.Shards[s]

\* CheckConfig: every shard has a group of the configuration, and no group has
\* two shards more than another.
CheckConfig(c) ==
  c.Groups # {} =>
    /\ \A s \in Shard : c.Shards[s] \in c.Groups
    /\ \A g, h \in c.Groups : Count(c.Shards, g) <= Count(c.Shards, h) + 1
=============================================================================
