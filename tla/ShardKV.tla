------------------------------- MODULE ShardKV -------------------------------
(***************************************************************************)
(* The sharded key/value service: groups, controllers, and clients, whose  *)
(* clerk (shardkv/client.go) asks the controller's kvsrv which group has   *)
(* the shard of a key and then asks that group.                            *)
(***************************************************************************)
EXTENDS ShardCtrler

CONSTANTS
  Client,
  Script   \* bound, per client: the requests of each of its calls, in order

ASSUME ClientAssumption ==
  Client \subseteq Actor \ Controller /\ Script \in [Client -> Seq(SUBSET Args)]

VARIABLES
  client,    \* per client: its call
  done,      \* history, per client: the calls that have returned
  written    \* history, per key: the values written, in order

kvs == <<client, done, written>>
skvars == <<grp, ctrler, kvs>>

NoCall == [at |-> "idle", args |-> GetArgs(CHOOSE k \in Key : TRUE), gid |-> 0,
           resent |-> FALSE, floor |-> 0]

SKInit ==
  /\ CtrlInit(NoStore)
  /\ client = [c \in Client |-> NoCall]
  /\ done = [c \in Client |-> <<>>]
  /\ written = [k \in Key |-> <<>>]

-----------------------------------------------------------------------------
(* The clerk.                                                              *)

CallsNext(c) ==
  /\ client[c].at = "idle" /\ Len(done[c]) < Len(Script[c])
  /\ \E a \in Script[c][Len(done[c]) + 1] :
       client' = [client EXCEPT ![c] = [NoCall EXCEPT
         !.at = "query", !.args = a, !.floor = Len(written[a.key])]]
  /\ UNCHANGED <<grp, ctrler, done, written>>

Locate(c) ==
  /\ client[c].at = "query"
  /\ client' = [client EXCEPT ![c].at = "send",
       ![c].gid = GidServers(Query, Key2Shard[client[c].args.key])]
  /\ UNCHANGED <<grp, ctrler, done, written>>

AskGroup(c) ==
  /\ client[c].at = "send"
  /\ Send(c, client[c].gid, client[c].args)
  /\ client' = [client EXCEPT ![c].at = "wait"]
  /\ UNCHANGED <<ctrler, done, written>>

Again(c) == client' = [client EXCEPT ![c].at = "query", ![c].gid = 0, ![c].resent = TRUE]

\* The call ends with error err and what the reply r holds.
Ends(c, err, r) ==
  /\ done' = [done EXCEPT ![c] = Append(@,
       [args |-> client[c].args, floor |-> client[c].floor, err |-> err,
        value |-> r.value, version |-> r.version])]
  /\ client' = [client EXCEPT ![c] = NoCall]

\* No answer, or one of a server that does not lead.
AskFails(c) ==
  /\ client[c].at \in {"send", "wait"} /\ answer[c].err = "none"
  /\ Forget(c) /\ Again(c)
  /\ UNCHANGED <<ctrler, done, written>>

\* ErrMaybe of a server that has stopped waiting goes to the caller of Put.
AskMaybe(c) ==
  /\ client[c].at = "wait" /\ answer[c].err = "none"
  /\ Forget(c)
  /\ IF client[c].args.op = "Put" THEN Ends(c, "ErrMaybe", NoAnswer)
                                  ELSE Again(c) /\ UNCHANGED done
  /\ UNCHANGED <<ctrler, written>>

AsTold(c) == answer[c].err   \* mutant: a resend is forgotten

Told(c) ==
  IF client[c].args.op = "Put" /\ client[c].resent /\ answer[c].err = "ErrVersion"
  THEN "ErrMaybe" ELSE answer[c].err

AskReturns(c) ==
  /\ client[c].at = "wait" /\ Take(c)
  /\ IF answer[c].err \in {"ErrWrongGroup", "ErrFrozen"}
     THEN Again(c) /\ UNCHANGED done
     ELSE Ends(c, Told(c), answer[c])
  /\ UNCHANGED <<ctrler, written>>

\* A group executes an operation; a Put that takes effect is recorded.
Execution(g, k) ==
  LET a == log[g][k].args IN
  /\ ExecuteShardOp(g, k)
  /\ written' = IF a.op = "Put" /\ Effect(g, k).reply.err = "OK"
                THEN [written EXCEPT ![a.key] = Append(@, a.value)] ELSE written
  /\ UNCHANGED <<ctrler, client, done>>

SKNext ==
  \/ \E c \in Controller : ControllerStep(c) /\ UNCHANGED kvs
  \/ \E c \in Client :
       CallsNext(c) \/ Locate(c) \/ AskGroup(c) \/ AskFails(c) \/ AskMaybe(c) \/ AskReturns(c)
  \/ \E g \in Gid : \E k \in DOMAIN log[g] : Execution(g, k)

SKSpec == SKInit /\ [][SKNext]_skvars

-----------------------------------------------------------------------------

Owns(g, s) == group[g][s].owned
Serves(g, s) == Owns(g, s) /\ ~group[g][s].frozen
Latest(k) ==
  IF written[k] = <<>> THEN NoRecord
  ELSE [value |-> written[k][Len(written[k])], version |-> Len(written[k])]

\* Types of the variables; only the addressee of a reply that waits has one.
SKTypeOK ==
  /\ group \in [Gid -> [Shard ->
       [highest : Nat, frozen : BOOLEAN, owned : BOOLEAN, store : [Key -> Records]]]]
  /\ \A g \in Gid : Len(log[g]) <= MaxLog
  /\ {pending.cfg, posted.cfg} \subseteq Config /\ {pending.ver, posted.ver} \subseteq Nat
  /\ \A c \in Controller :
       /\ ctl[c].new \in Config /\ ctl[c].shard \in Shard /\ ctl[c].old \in Gid \cup {0}
       /\ answer[c].err # "none" => ctl[c].step = "wait"
  /\ \A c \in Client : answer[c].err # "none" => client[c].at = "wait"
  /\ \A k \in Key : written[k] \in Seq(Value)

\* While shards move, no shard is served by two groups, and the one that serves
\* it has all that was written, though a superseded or dead controller's calls
\* are still executed.  This and what follows holds only if no controller is Misled.
ServesLatest == \A s \in Shard :
  /\ \A g, h \in Gid : Serves(g, s) /\ Serves(h, s) => g = h
  /\ \A g \in Gid, k \in Key :
       Serves(g, s) /\ Key2Shard[k] = s => group[g][s].store[k] = Latest(k)

\* Once no change is pending, the posted configuration is the truth: it is
\* even, every shard is served by the group it names, and no other keeps a copy.
PostedServes ==
  /\ CheckConfig(Query)
  /\ pending.cfg.Num <= Query.Num =>
       \A s \in Shard, g \in Gid :
         /\ Serves(g, s) <=> g = GidServers(Query, s)
         /\ Owns(g, s) => Serves(g, s)

\* A controller that is told its call is stale may give up for good: what it
\* was about to do has been finished and posted.
StaleIsSuperseded == \A c \in Controller :
  ctl[c].step = "wait" /\ answer[c].err = "ErrStale" => Superseded(c)

\* What a client is told is true, wherever its key has moved to meanwhile: a
\* Put takes effect at most once, and as OK, ErrVersion or ErrNoKey says for ever;
\* ErrMaybe says nothing, not even that the effect has been (CallsInOrder).  A Get
\* returns what was written, and nothing older than when it was called.
TimesWritten(a) == {n \in 1 .. Len(written[a.key]) : written[a.key][n] = a.value}
AnswersTrue == \A c \in Client : \A i \in 1 .. Len(done[c]) :
  LET d == done[c][i] IN
  CASE d.args.op = "Put" ->
         /\ Cardinality(TimesWritten(d.args)) <= 1
         /\ d.err = "OK" => TimesWritten(d.args) = {d.args.version + 1}
         /\ d.err \in {"ErrVersion", "ErrNoKey"} => TimesWritten(d.args) = {}
    [] OTHER ->
         /\ d.version >= d.floor
         /\ d.err = IF d.version = 0 THEN "ErrNoKey" ELSE "OK"
         /\ d.version > 0 => d.value = written[d.args.key][d.version]

\* The version that call d says was there before it.
Shown(d) ==
  CASE d.err = "ErrNoKey" -> 0
    [] d.err = "OK" /\ d.args.op = "Put" -> d.args.version
    [] OTHER -> d.version

\* A client's calls on a key take effect in the order it makes them: a Put that
\* is executed after it has returned ErrMaybe is missed by none of the calls after it.
CallsInOrder == \A c \in Client : \A j \in 1 .. Len(done[c]) : \A i \in 1 .. j - 1 :
  LET put == done[c][i].args
      d == done[c][j]
  IN put.op = "Put" /\ put.key = d.args.key /\ d.err \in {"OK", "ErrNoKey"} =>
       \A n \in TimesWritten(put) : n <= Shown(d)
=============================================================================
