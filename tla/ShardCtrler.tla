----------------------------- MODULE ShardCtrler -----------------------------
(***************************************************************************)
(* shardkv/shardctrler/shardctrler.go: controllers, which take one         *)
(* configuration to the next shard by shard.  They may run at the same     *)
(* time, be as slow as they like, or die; what they know of each other is  *)
(* in two keys of a kvsrv.  A read or a Put of such a key is one step, at  *)
(* the moment it takes effect (KVService, which Lock uses as well).        *)
(***************************************************************************)
EXTENDS ShardGrp

CONSTANTS
  Controller,
  Misled,       \* whether the first Put of Pending may answer ErrMaybe although
                \* another controller's was there before
  MaxNum,       \* bound: the number of a configuration
  Wanted        \* bound: the groups that join and leave

ASSUME ControllerAssumption ==
  Controller \subseteq Actor /\ Misled \in BOOLEAN /\ MaxNum \in Nat /\ Wanted \subseteq Gid

VARIABLES
  pending,   \* the key "Pending": the configuration and the version
  posted,    \* the key "Gid1": likewise
  ctl        \* per controller: where it is

ctrler == <<pending, posted, ctl>>

\* The loop variables of ChangeConfigTo; step is a call's, within a phase.
NoChange == [at |-> "idle", step |-> "none", new |-> MakeShardConfig, shard |-> 0, old |-> 0,
         state |-> NoStore, ver |-> 0]

CtrlInit(store) ==
  /\ GrpInit(store)
  /\ pending = [cfg |-> MakeShardConfig, ver |-> 0]
  /\ posted = [cfg |-> FirstConfig, ver |-> 1]
  /\ ctl = [c \in Controller |-> NoChange]

Goes(c, r) == ctl' = [ctl EXCEPT ![c] = r]
AtStep(c, at) == [ctl[c] EXCEPT !.at = at]
Query == posted.cfg
Superseded(c) == Query.Num >= ctl[c].new.Num

-----------------------------------------------------------------------------
(* The keys.  A Put whose version matches takes effect and answers OK, or  *)
(* ErrMaybe after a resend; one that does not answers ErrVersion or, again *)
(* after a resend, ErrMaybe.                                               *)

Answers(key, ver) == {IF key.ver = ver THEN "OK" ELSE "ErrVersion", "ErrMaybe"}
After(key, cfg, ver) == IF key.ver = ver THEN [cfg |-> cfg, ver |-> ver + 1] ELSE key

\* The tester asks for the configuration with one group more or less.
Start(c) ==
  /\ ctl[c].at = "idle" /\ Query.Num < MaxNum
  /\ \E g \in Wanted : \E new \in JoinBalance(Query, g) \cup LeaveBalance(Query, g) :
       new.Groups # {} /\ Goes(c, [NoChange EXCEPT !.at = "pending", !.new = new])
  /\ UNCHANGED <<grp, pending, posted>>

\* InitController.
Recover(c) ==
  /\ ctl[c].at = "idle" /\ pending.ver > 0
  /\ Goes(c, [NoChange EXCEPT !.at = "recover", !.new = pending.cfg])
  /\ UNCHANGED <<grp, pending, posted>>

Resume(c) ==
  /\ ctl[c].at = "recover"
  /\ Goes(c, IF ctl[c].new.Num >= Query.Num THEN AtStep(c, "pending") ELSE NoChange)
  /\ UNCHANGED <<grp, pending, posted>>

\* A configuration that is pending with this number or a later one is taken
\* over.
GetPending(c) ==
  /\ ctl[c].at = "pending"
  /\ Goes(c,
       CASE pending.ver = 0 -> AtStep(c, "create")
         [] pending.ver > 0 /\ pending.cfg.Num < ctl[c].new.Num ->
              [AtStep(c, "replace") EXCEPT !.ver = pending.ver]
         [] OTHER -> [AtStep(c, "shard") EXCEPT !.new = pending.cfg])
  /\ UNCHANGED <<grp, pending, posted>>

PutPending(c, ver, err) ==
  /\ err \in Answers(pending, ver)
  /\ pending' = After(pending, ctl[c].new, ver)
  /\ UNCHANGED <<grp, posted>>

\* ErrMaybe counts as success, also when a controller that is Misled has failed.
CreatePending(c) ==
  /\ ctl[c].at = "create"
  /\ \E err \in {"OK", "ErrVersion", "ErrMaybe"} :
       /\ PutPending(c, 0, err)
       /\ Goes(c, AtStep(c, IF err = "ErrVersion" THEN "pending" ELSE "shard"))
       /\ err = "ErrMaybe" => pending'.cfg = ctl[c].new \/ Misled

ReplacePending(c) ==
  /\ ctl[c].at = "replace"
  /\ \E err \in {"OK", "ErrVersion", "ErrMaybe"} :
       /\ PutPending(c, ctl[c].ver, err)
       /\ Goes(c, [AtStep(c, IF err = "OK" THEN "shard" ELSE "pending") EXCEPT !.ver = 0])

-----------------------------------------------------------------------------
(* The shards, one after the other.                                        *)

Phase(c, at) == [AtStep(c, at) EXCEPT !.step = "check"]

\* The rest of the loop after a shard is done.
Advanced(c) ==
  IF ctl[c].shard + 1 = NShards
  THEN [NoChange EXCEPT !.at = "post", !.new = ctl[c].new]
  ELSE [NoChange EXCEPT !.at = "shard", !.new = ctl[c].new, !.shard = ctl[c].shard + 1]

MoveShard(c) ==
  LET s == ctl[c].shard
      old == GidServers(Query, s)
  IN
  /\ ctl[c].at = "shard"
  /\ Goes(c,
       CASE Superseded(c) -> NoChange
         [] ~Superseded(c) /\ GidServers(ctl[c].new, s) = old -> Advanced(c)
         [] OTHER -> [Phase(c, IF old # 0 THEN "Freeze" ELSE "Install") EXCEPT !.old = old])
  /\ UNCHANGED <<grp, pending, posted>>

\* The stale function that is called before every attempt.
CheckStale(c) ==
  /\ ctl[c].step = "check"
  /\ Goes(c, IF Superseded(c) THEN NoChange ELSE [ctl[c] EXCEPT !.step = "send"])
  /\ UNCHANGED <<grp, pending, posted>>

Target(c) ==
  IF ctl[c].at = "Install" THEN GidServers(ctl[c].new, ctl[c].shard) ELSE ctl[c].old

CallGroup(c) ==
  /\ ctl[c].step = "send"
  /\ Send(c, Target(c), ShardArgs(ctl[c].at, ctl[c].shard, ctl[c].new.Num, ctl[c].state))
  /\ Goes(c, [ctl[c] EXCEPT !.step = "wait"])
  /\ UNCHANGED <<pending, posted>>

\* An attempt that is lost or refused before or after it reaches the log.
CallFails(c) ==
  /\ ctl[c].step \in {"send", "wait"} /\ answer[c].err = "none"
  /\ Forget(c)
  /\ Goes(c, [ctl[c] EXCEPT !.step = "check"])
  /\ UNCHANGED <<pending, posted>>

\* Mutant: the old group is not told to delete its copy.
LeavesCopy(c) ==
  IF ctl[c].at = "Freeze" THEN [Phase(c, "Install") EXCEPT !.state = answer[c].state]
  ELSE Advanced(c)

\* What follows the phase that has succeeded.
Following(c) ==
  CASE ctl[c].at = "Freeze" /\ GidServers(ctl[c].new, ctl[c].shard) # 0 ->
         [Phase(c, "Install") EXCEPT !.state = answer[c].state]
    [] (ctl[c].at = "Freeze" /\ GidServers(ctl[c].new, ctl[c].shard) = 0)
       \/ (ctl[c].at = "Install" /\ ctl[c].old # 0) ->
         [Phase(c, "Delete") EXCEPT !.state = NoStore]
    [] OTHER -> Advanced(c)

CallReturns(c) ==
  /\ ctl[c].step = "wait" /\ Take(c)
  /\ Goes(c, IF answer[c].err = "ErrStale" THEN NoChange ELSE Following(c))
  /\ UNCHANGED <<pending, posted>>

GetPosted(c) ==
  /\ ctl[c].at = "post"
  /\ Goes(c, IF Superseded(c) THEN NoChange ELSE [AtStep(c, "put") EXCEPT !.ver = posted.ver])
  /\ UNCHANGED <<grp, pending, posted>>

PutPosted(c) ==
  /\ ctl[c].at = "put"
  /\ \E err \in Answers(posted, ctl[c].ver) :
       Goes(c, IF err = "OK" THEN NoChange ELSE [AtStep(c, "post") EXCEPT !.ver = 0])
  /\ posted' = After(posted, ctl[c].new, ctl[c].ver)
  /\ UNCHANGED <<grp, pending>>

\* A controller dies, or its machine is cut off; its call may be in a log.
Die(c) ==
  /\ ctl[c].at # "idle"
  /\ log' = [g \in Gid |-> [k \in DOMAIN log[g] |->
       [log[g][k] EXCEPT !.awaited = @ /\ log[g][k].from # c]]]
  /\ answer' = [answer EXCEPT ![c] = NoAnswer]
  /\ Goes(c, NoChange)
  /\ UNCHANGED <<group, pending, posted>>

ControllerStep(c) ==
  \/ Start(c) \/ Recover(c) \/ Resume(c)
  \/ GetPending(c) \/ CreatePending(c) \/ ReplacePending(c)
  \/ MoveShard(c) \/ CheckStale(c) \/ CallGroup(c) \/ CallFails(c) \/ CallReturns(c)
  \/ GetPosted(c) \/ PutPosted(c) \/ Die(c)
=============================================================================
