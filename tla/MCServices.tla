----------------------------- MODULE MCServices -----------------------------
(***************************************************************************)
(* Instances of the two services that run on replicated groups: KVRaft,    *)
(* and ShardKV in three deployments, each with something to concentrate    *)
(* on.  Only one of the Deployments runs at a time.                        *)
(***************************************************************************)
EXTENDS KVRaft, ShardKV, TLC

CONSTANTS
  s1, s2, A, B,            \* servers and clerks of KVRaft
  c1, c2, p, k1, vA, vB,   \* controllers, client, key and values
  Deployments              \* bound: what may run; "kvraft" is the KVRaft

VARIABLE service           \* which deployment this is

Attempts == ({A} \X (1 .. 2)) \cup ({B} \X (1 .. 1))
Asks == [k \in Clerk |->
  IF k = A THEN {PutArgs(k1, vA, 0)}
           ELSE {PutArgs(k1, vB, 0), PutArgs(k1, vB, 1), GetArgs(k1)}]
PutThenGet == [k \in Clerk |->
  IF k = A THEN {PutArgs(k1, vB, 1), GetArgs(k1)} ELSE {PutArgs(k1, vA, 0)}]

\* Of ShardKV there are three.  "rivals": two controllers want different groups
\* to join and leave, and nobody writes; "racing": two controllers make
\* one change, with a client; "series": one controller, that may die, makes
\* several.
Keyed == [k \in Key |-> 0]
Calls == [c \in Client |-> <<{PutArgs(k1, vA, 0)}, {PutArgs(k1, vB, 1), GetArgs(k1)}>>]
Reads == [c \in Client |-> <<{GetArgs(k1)}>>]

\* The key has been written before the rivals begin.
HasBeenWritten ==
  /\ CtrlInit([NoStore EXCEPT ![k1] = [value |-> vA, version |-> 1]])
  /\ client = [c \in Client |-> NoCall] /\ done = [c \in Client |-> <<>>]
  /\ written = [k \in Key |-> <<vA>>]

MCInit ==
  /\ service \in Deployments
  /\ KVInit
  /\ IF service = "rivals" THEN HasBeenWritten ELSE SKInit

MCNext ==
  /\ UNCHANGED service
  /\ \/ service = "kvraft" /\ KVNext /\ UNCHANGED skvars
     \/ service # "kvraft" /\ SKNext /\ UNCHANGED kvvars

MCSpec == MCInit /\ [][MCNext]_<<service, kvvars, skvars>>

\* Where the instances end.
Within ==
  /\ Rollback => \A k \in Clerk :
       ~clerk[k].resent /\ (clerk[k].first > 1 => clerk[k].args.op = "Get")
  /\ service = "rivals" => client[p] = NoCall \/ (client[p].args.op = "Get" /\ Query.Num > 1)
  /\ service = "racing" =>
       /\ \A c \in Controller : ctl[c].new.Num <= 2
       /\ client[p].args # PutArgs(k1, vB, 1)
  /\ service = "series" =>
       /\ \E c \in Controller : ctl[c] = NoChange
       /\ Len(log[1]) + Len(log[2]) <= 2
  /\ service # "series" \/ Query.Num > 1 => \A g \in Gid : Len(log[g]) <= 1
  /\ service # "rivals" => \A c \in Controller : 3 \notin ctl[c].new.Groups
Symmetry == Permutations(Controller)

\* The algorithm of Join and Leave on a larger instance than the one that is
\* deployed: every outcome is even, and a group that joins takes shards but
\* never makes the others exchange any.
Large == INSTANCE ShardCfg WITH NShards <- 5, Gid <- {1, 2, 3}
LargeShards == [0 .. 4 -> {1, 2, 3}]
LargeGroups == SUBSET {1, 2, 3} \ {{}}
Balanced(shards, groups) ==
  [Num |-> 1, Shards |-> Large!Rebalance(shards, groups), Groups |-> groups]
ASSUME RebalanceIsEven == \A shards \in LargeShards, groups \in LargeGroups :
  Large!CheckConfig(Balanced(shards, groups))
ASSUME JoinTakesOnly ==
  \A shards \in LargeShards, groups \in LargeGroups, g \in {1, 2, 3} :
    LET c == Balanced(shards, groups) IN
    \A d \in Large!JoinBalance(c, g), s \in 0 .. 4 : d.Shards[s] \in {c.Shards[s], g}

TypeOK == KVTypeOK /\ SKTypeOK
=============================================================================
