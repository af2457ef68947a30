------------------------------- MODULE ShardGrp -------------------------------
(***************************************************************************)
(* shardkv/shardgrp: the groups, as replicated objects that keep the       *)
(* promise of Submission: what is submitted to a group is executed in the  *)
(* order of submission or not at all, with or without an answer.           *)
(***************************************************************************)
EXTENDS KVOps, ShardCfg, Sequences

CONSTANTS
  Actor,       \* whoever calls a group: controllers and clients
  Key2Shard,   \* the shard of a key
  MaxLog       \* bound: operations submitted to a group and not yet executed

ASSUME GroupAssumption == Key2Shard \in [Key -> Shard] /\ MaxLog \in Nat

VARIABLES
  group,   \* per gid and shard: highestConfig, frozen, owned and valueStore
  log,     \* per gid: the operations submitted to it, in order
  answer   \* per actor: the reply to the operation it waits for, or NoAnswer

grp == <<group, log, answer>>

NoAnswer == [err |-> "none", value |-> Empty, version |-> 0, state |-> NoStore]
Reply(err) == [NoAnswer EXCEPT !.err = err]

\* What the log holds: a Get or Put of KVOps, or the move of a shard.
ShardArgs(op, s, n, state) == [op |-> op, shard |-> s, num |-> n, state |-> state]
ShardOf(a) == IF a.op \in {"Get", "Put"} THEN Key2Shard[a.key] ELSE a.shard

\* The first group starts with all the shards, and in them store.
GrpInit(store) ==
  /\ group = [g \in Gid |-> [s \in Shard |->
       [highest |-> 0, frozen |-> FALSE, owned |-> g = Gid1,
        store |-> [k \in Key |-> IF g = Gid1 /\ Key2Shard[k] = s THEN store[k] ELSE NoRecord]]]]
  /\ log = [g \in Gid |-> <<>>]
  /\ answer = [a \in Actor |-> NoAnswer]

-----------------------------------------------------------------------------
(* DoOp: the shard sh after operation a, and the reply.                    *)

Gives(sh, r) == [shard |-> sh, reply |-> r]

\* Mutants: a frozen shard still takes Gets and Puts; a move that has been made
\* already is not recognised.
ServesFrozen(sh) == FALSE
NeverGivenAway(sh, a) == FALSE

Closed(sh) == sh.frozen
Stale(sh, a) == a.num < sh.highest
GivenAway(sh, a) == a.num = sh.highest /\ ~sh.owned
Installed(sh, a) == a.num = sh.highest /\ sh.owned

Access(sh, a) ==
  CASE Closed(sh) -> Gives(sh, Reply("ErrFrozen"))
    [] ~Closed(sh) /\ ~sh.owned -> Gives(sh, Reply("ErrWrongGroup"))
    [] OTHER ->
         LET done == DoOp(sh.store, a) IN
         Gives([sh EXCEPT !.store = done.store],
               [Reply(done.reply.err) EXCEPT !.value = done.reply.value,
                                             !.version = done.reply.version])

\* A shard that this very configuration has given away gives no state.
FreezeShard(sh, a) ==
  CASE Stale(sh, a) -> Gives(sh, Reply("ErrStale"))
    [] ~Stale(sh, a) /\ GivenAway(sh, a) -> Gives(sh, Reply("OK"))
    [] ~Stale(sh, a) /\ ~GivenAway(sh, a) /\ ~sh.owned -> Gives(sh, Reply("ErrStale"))
    [] OTHER -> Gives([sh EXCEPT !.highest = a.num, !.frozen = TRUE],
                      [Reply("OK") EXCEPT !.state = sh.store])

InstallShard(sh, a) ==
  CASE Stale(sh, a) -> Gives(sh, Reply("ErrStale"))
    [] ~Stale(sh, a) /\ Installed(sh, a) -> Gives(sh, Reply("OK"))
    [] OTHER -> Gives([highest |-> a.num, frozen |-> FALSE, owned |-> TRUE,
                       store |-> Decoded(sh.store, a.state)], Reply("OK"))

\* The shard stays frozen until it is installed again.
DeleteShard(sh, a) ==
  CASE Stale(sh, a) -> Gives(sh, Reply("ErrStale"))
    [] ~Stale(sh, a) /\ GivenAway(sh, a) -> Gives(sh, Reply("OK"))
    [] OTHER -> Gives([sh EXCEPT !.highest = a.num, !.owned = FALSE, !.store = NoStore],
                      Reply("OK"))

ShardDoOp(sh, a) ==
  CASE a.op \in {"Get", "Put"} -> Access(sh, a)
    [] a.op = "Freeze" -> FreezeShard(sh, a)
    [] a.op = "Install" -> InstallShard(sh, a)
    [] a.op = "Delete" -> DeleteShard(sh, a)

-----------------------------------------------------------------------------
(* The group, and how it is called (shardgrp/client.go).                   *)

\* Actor c's call reaches Submit on a leader of group g.
Send(c, g, a) ==
  /\ Len(log[g]) < MaxLog
  /\ log' = [log EXCEPT ![g] = Append(@, [from |-> c, awaited |-> TRUE, args |-> a])]
  /\ UNCHANGED <<group, answer>>

ForgetsNothing(c) == UNCHANGED <<group, log, answer>>   \* mutant

\* Actor c hears nothing, ErrWrongLeader or ErrMaybe: its operation may be in
\* the log all the same.
Forget(c) ==
  /\ log' = [g \in Gid |-> [k \in DOMAIN log[g] |->
       [log[g][k] EXCEPT !.awaited = @ /\ log[g][k].from # c]]]
  /\ UNCHANGED <<group, answer>>

\* Actor c takes the reply it has got.
Take(c) ==
  /\ answer[c].err # "none"
  /\ answer' = [answer EXCEPT ![c] = NoAnswer]
  /\ UNCHANGED <<group, log>>

\* What executing the k-th operation of g's log gives.
Effect(g, k) ==
  LET a == log[g][k].args IN ShardDoOp(group[g][ShardOf(a)], a)

\* Mutant: what was submitted earlier can be executed later.
ExecutesInAnyOrder(g, k) ==
  LET e == log[g][k] IN
  /\ group' = [group EXCEPT ![g][ShardOf(e.args)] = Effect(g, k).shard]
  /\ log' = [log EXCEPT ![g] = SubSeq(@, 1, k - 1) \o SubSeq(@, k + 1, Len(@))]
  /\ answer' = IF e.awaited THEN [answer EXCEPT ![e.from] = Effect(g, k).reply] ELSE answer

\* The group executes an operation, and none submitted before it any more.
ExecuteShardOp(g, k) ==
  LET e == log[g][k] IN
  /\ group' = [group EXCEPT ![g][ShardOf(e.args)] = Effect(g, k).shard]
  /\ log' = [log EXCEPT ![g] = SubSeq(@, k + 1, Len(@))]
  /\ answer' = IF e.awaited THEN [answer EXCEPT ![e.from] = Effect(g, k).reply] ELSE answer
=============================================================================
