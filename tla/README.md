# TLA+ verification of the MIT 6.824 labs (Raft, the key/value services, lock, MapReduce)

The repository under `src/` is a Go implementation of the labs of MIT 6.824:
MapReduce, a key/value server with a lock, Raft, a key/value service replicated
with Raft, and a sharded key/value service.  `src/README.md` promises that it
"ensures linearizability and idempotency".  This directory holds TLA+ modules
translated from that code, the TLC configurations that check them, and theorems
about them proved with TLAPS.

The test harness, the RPC library (`labrpc`), the persister and `labgob` are not
part of the repository.  What the code relies on from them is modelled from its
use and marked external in the map.

## 1. Inventory

| component | state | operations | talks to |
|---|---|---|---|
| Raft (`raft/raft.go`) | `currentTerm`, `votedFor`, `log`, `state`, `commitIndex`, `lastApplied`, `nextIndex`, `matchIndex`, `lastIncludedIndex/Term`, `snapshotPending`; the persister | `Start`, `Snapshot`, `RequestVote`, `AppendEntries`, `InstallSnapShot`, ticker, heartbeats, applier, `Make` | its peers by RPC; its service by `applyCh` |
| rsm (`kvraft/rsm/rsm.go`) | `opId`, `pending[index]`, `lastApplied` | `Submit`, `reader` | Raft (`Start`, `GetState`, `Snapshot`, `applyCh`), the state machine (`DoOp`, `Snapshot`, `Restore`) |
| kvraft server and clerk | the map key -> value, version; the clerk's last leader | `Get`, `Put`, `DoOp`, `Snapshot`, `Restore` | rsm; clerk -> every server by RPC |
| kvsrv server and clerk | the map key -> value, version | `Get`, `Put` | clerk -> server by RPC |
| Lock (`kvsrv/lock/lock.go`) | a key of the store and the client's random id | `Acquire`, `Release` | the clerk |
| MapReduce coordinator | `maps`, `reduces`, two counters of reports | `GetTask`, `ReportTask`, `Done`, the ten-second timers | workers by RPC |
| MapReduce worker | the files it writes | the task loop | coordinator; the file system |
| shardcfg | a configuration: shard -> gid, gid -> servers | `Join`, `Leave`, `rebalance`, `CheckConfig`, JSON | - |
| shard controller | keys of a kvsrv: current configuration, `Pending`, first group | `InitController`, `InitConfig`, `ChangeConfigTo`, `Query` | kvsrv clerk; shard group clerks |
| shard group server | per shard: map, owned/frozen flags, configuration number | `Get`, `Put`, `FreezeShard`, `InstallShard`, `DeleteShard` | rsm |
| shard group clerk, sharded clerk | last leader; cached configuration and clerks | `Get`, `Put` and the three shard calls | controller, group servers |

What is hard in each, and what makes it correct:

* **Raft.** All state is under one mutex, but every RPC is sent and its reply used
  after the mutex was released and taken again, elections are started in a goroutine
  that reads the term a second time, and a heartbeat round may start while calls of
  the last one are still out.  Servers crash between any two steps and restart from
  the persister; calls and replies are lost and delayed.  Indexes are logical, the
  slice is physical, and the difference moves with every snapshot.  Correct means: one
  leader per term, a vote never changes within a term, what is answered is on disk,
  logs agree below any common entry, committed entries are in every later leader's
  log, two servers never commit different entries at an index, the service is always
  the result of a prefix of the committed log, and a lagging follower catches up.
* **The applier** drops the mutex around every send on `applyCh`, and leaves a
  snapshot pending across that gap.
* **kvsrv and its clerk.** A clerk resends until it is answered, and cannot tell a
  lost request from a lost reply: whatever a `Put` that was sent again is answered, it
  returns `ErrMaybe`.  Correct means linearizable, with an error that is true, and a
  conditional `Put` performed at most once.
* **Lock.** Neither `Acquire` nor `Release` looks at the error of its `Put`.  Correct
  means exclusion, and that a released lock is free, whatever was lost.
* **MapReduce.** A worker may die, or merely be slow, at any point of its file work.
  Correct means: no reduce task before all map files are complete, `Done` only with
  complete output, and the job ends in spite of crashes.
* **rsm.** A `Submit` waits on a channel in a table indexed by log index while leaders
  change, other operations take its index, the process restarts with `opId` at zero.
  Correct means: an `OK` carries the result of that very operation, an
  `ErrWrongLeader` that it never runs, and all replicas execute the same operations in
  the order of submission.
* **kvraft.** The clerk goes on to the next server when it hears nothing, although its
  last attempt may still be in a log; a server crashes, or skips operations because it
  gets a snapshot, which `Restore` decodes into the map that is already there, even if
  that is newer.  Correct
  means: every replica has the map of the operations it has executed, and server and
  clerk together are the service that `kvsrv` is.
* **Shards.** A controller dies half way, another one repeats its work, both run at
  once, one that has been overtaken goes on for a while; every shard call is resent and
  the earlier copies may be executed late.  Correct means: a shard is served by one
  group at a time and with all that was written to it, a posted configuration is true,
  a controller gives up only what somebody else has finished, a client of a key
  that moves is told the truth, and a `Put` that comes late is missed by nothing its
  client does later.
* **Balance.** `Join` and `Leave` must leave no group two shards ahead of another, and
  move no shard that need not move.

`PROJECT.json` lists each hazard at its line, with the property that covers it or the
reason that none does yet.

## 2. Modules

```
Raft          RaftProofs <- RaftLogProofs (theorems)
MCRaft        EXTENDS Raft: where instances start;  MCRaftScenarios pairs of instances

ReplicatedLog a Raft group as its service sees it, one step per election or call
RSM           EXTENDS ReplicatedLog: Submit and the reader     MCRSM (instances)
              RSMProofs (theorems)

KVService     what a linearizable, versioned key/value service promises
KVSrv         server, clerks, network;  Service == INSTANCE KVService WITH ...
Lock          EXTENDS KVSrv: the clients are users of the lock
MCLock        (instance)             KVSrvProofs <- LockProofs (theorems)

Submission    what a replicated group promises to those who submit operations;
              RSM implements it, KVRaft and (as a log per group) ShardGrp build on it
KVOps         requests, replies, DoOp of a Get or a Put
KVRaft        EXTENDS KVOps, Submission: servers and clerks;
              Service == INSTANCE KVService WITH ...      KVRaftProofs (theorems)
ShardCfg      configurations, Join, Leave, rebalance, CheckConfig
ShardGrp      EXTENDS KVOps, ShardCfg: DoOp of a group, how a group is called
ShardCtrler   EXTENDS ShardGrp: controllers and the two keys they share
ShardKV       EXTENDS ShardCtrler: the clerk, the whole sharded service
              ShardProofs (theorems)
MCServices    EXTENDS KVRaft, ShardKV (one instance of KVRaft, three of ShardKV)

MapReduce     coordinator, workers and files      MCMapReduce (instances)
              MapReduceProofs (theorems)
```

### Raft.tla (`src/raft/raft.go`)

One variable per field of `Raft`, as a function of the server; `persister` is the
external disk, written by `persist()` in the actions that call it.  One action per
critical section of `rf.mu`:

| action | code |
|---|---|
| `Timeout`, `CallElection` | `ticker` raising the term and voting for itself; the goroutine of `startElection`, which reads the term again |
| `RequestVote`, `CountVote`, `StepDown` | the handler; the reply handled in `startElection`; a reply with a higher term |
| `Heartbeat` | one call of `sendHeartBeats` to one peer: `AppendEntries` or, below `lastIncludedIndex`, `InstallSnapShot` |
| `AppendEntries`, `HandleAppendReply` | the handler (its refusals by term and by log, and the acceptance with truncation and `leaderCommit`); the reply with `nextIndex`, `matchIndex` and the commit rule by the median |
| `InstallSnapShot`, `HandleSnapshotReply` | the same for snapshots |
| `Start`, `Snapshot` | the calls of the service |
| `Apply` | the applier, one step per point at which it holds or drops the mutex, with the reader of rsm at the far end of `applyCh` (`ReaderRestore`, `ReaderDoOp`) |
| `Restart` | a crash followed by `Make` |

An RPC in flight is a record in `rpcs`.  It may stay there for ever (delay), be
removed (`Lose`), and be delivered in any order.  Two calls of a kind from one server
to one peer differ in their `slot`.  A caller that crashes leaves its calls to be
executed (`awaited = FALSE`).

Abstracted: an entry is its term and command (`Entry.Index` is its position); time is
the freedom of `Timeout` and `Heartbeat` to happen at any moment; a snapshot is the
sequence of commands it stands for.  A slice access out of range is not a step of the
model; `IndexesInRange` shows that none occurs.  History, not in the code: `tally`
keeps the votes counted per term, `chosen` the entries some server has committed, `sm`
the commands the service's state stands for.

### ReplicatedLog.tla, RSM.tla (`src/raft/raft.go`, `src/kvraft/rsm/rsm.go`)

`ReplicatedLog` is Raft with an election, the delivery of an `AppendEntries` and the
decision to commit as one step each, no snapshots, and the restart that forgets who
leads and what is committed.  Deposed leaders that do not know it, calls that arrive
late with a shorter log or an older `leaderCommit`, and logs that are overwritten are
all in it.  An election takes the votes of its majority in one step.  With three
servers that is one vote besides the candidate's own, so that nothing is lost; with more
the steps are a subset of Raft's behaviours.

A leader commits what a majority has accepted from itself, in its own term:
`matchIndex[i][j]` is what `j` has accepted from `i` since `i` was elected, and a reply
that arrives late is a `Commit` that comes late.  It is not enough that a majority has
the entry in its log: with five servers some may have got it from an earlier leader
and be about to lose it again to a candidate of a term between.  The proof of
`ServersExecuteAlike` depends on this.

`RSM` adds `Submit` in the pieces between which `rsm.mu` is free: `Submit` (the id,
`Start` and the registration in `pending`) or `SubmitElsewhere` (a server that does not
lead, which uses up an id all the same), then `Receive` or `GiveUp`, then `Leave`, the
deferred delete.  `Reader` executes the next committed entry and answers whoever is
registered at its index.  A channel is named by its caller.  `outcome` is history:
what `Submit` returned.

### Submission.tla (`src/kvraft/rsm/rsm.go`, `Submit` and `reader`)

The abstract specification of `RSM`, and what the services above it are built on.  A
request is submitted, and later executed, once, after everything submitted and executed
before it; the group may skip it for good; its `Submit` returns `OK` only after the
execution, `ErrWrongLeader` only if there will be none, and may give up with
`ErrMaybe` at any time.  `RSM!IsSubmission` is the refinement: `submitted` and
`executed` record, as history, the requests in the order of `Submit` and of their first
execution on any server; the queue is what was submitted after the last one executed.
An operation that was refused stays there, and is never executed.

### KVService.tla, KVSrv.tla (`src/kvsrv/server.go`, `client.go`, `rpc/rpc.go`)

`KVService` is the abstract specification: a client invokes a `Get` or a `Put`, the
service performs a `Put` at most once at one moment between invocation and answer, and
the answer is the one due at that moment; `ErrMaybe` may stand for an answer the
client cannot have.  A `Put` may be performed for a call that goes on without an answer
(`PerformUnanswered`), as one of `kvraft` does while its clerk tries the next server.

`KVSrv` is the code: the clerk sends (`SendGet`, `SendPut`), the server performs `Get`
and `Put` under its mutex in one step, and the reply arrives or is lost; a call that
fails was either not executed or executed with its reply lost, which is what the
clerk's comments and its loops assume of `labrpc`.  The clerk's answers follow its
code: the error of a `Put` that was sent once is passed on, that of one that was sent
again, `OK` included, becomes `ErrMaybe` (`client.go:67-74`).  The clerks of `kvraft` and of
the shards do that with `ErrVersion` only.  The refinement mapping (`status`, `request`,
`performed`, `answer`) reads the abstract
state from what the clerk has out and what the server did with it; `store` is the
server's map.

### Lock.tla (`src/kvsrv/lock/lock.go`)

The locals and the place of a caller in `Acquire` and `Release` are `lock`.  `Checks`,
`Takes`, `Releases`, `Frees` are the four points at which those loops look at a
clerk's answer, each with the next call of the clerk in the same step, as the code
has it.  Clients that do not use the lock call `Get` and `Put` on other keys, as the
service allows.

### KVOps.tla, KVRaft.tla (`src/kvraft/server.go`, `client.go`)

The group is `Submission`; a request of it is one attempt of one clerk.  `valueStore`
and `applied` are a server's map and how far its reader has come; `history` is the map
after each operation of the group, and its reply.

| action | code |
|---|---|
| `Apply` | the reader executing `DoOp`, and `Get` or `Put` returning to whoever waits for it there |
| `Restore` | a snapshot another server has taken, decoded into the map that is there (`Decoded`); an older one than what has been executed only with `Rollback` |
| `Crash` | the process ends; `StartKVServer` begins with an empty map.  Calls that waited are cut off |
| `Call`, `Try`, `TryInVain`, `Resend`, `Finish` | the loops of the clerk: the application's call, an attempt that a leader accepts, one that is lost or refused, no answer, the answer with the rule for `ErrVersion` |

The code has no test that keeps an older snapshot from being decoded (`server.go:74-81`,
`rsm.go:28-30`), and Raft delivers such ones (`raft_snapshot_rollback`).  The constant
`Rollback` says whether they occur.  With it, `applied` stays as it is, because Raft does
not send the operations after the snapshot again, and the service is not what `KVService`
promises (`kvraft_rollback`).  Without it, it is; this is what is proved.

The clerk remembers the last leader only to begin its loop there: any server may be
the next one.  `Service` maps this to `KVService`: a `Put` is performed when the group
executes the attempt that succeeds, whichever it is, and the answer is due from the
execution of the attempt the clerk waits for.  `IsService` is that refinement,
`KVIsService`, in the form that TLC evaluates fastest; the theorem states both.  That no
server is called `"idle"`, `"calling"` or `"cut off"` is an assumption (`ServerAssumption`),
because a clerk's record says with one field where its call is.

### ShardCfg.tla (`src/shardkv/shardcfg/shardcfg.go`)

Configurations, and `Join` and `Leave` of one group with `analyze` (`Least`, `Most`) and
the two loops of `Rebalance` (`Assign`, `Spread`) as functions.  Go's map order does not
matter to them, because ties go to the smallest gid.  The servers of a gid never
change, so that a set of gids stands for the map.

### ShardGrp.tla (`src/shardkv/shardgrp/server.go`, `client.go`)

A group is one replicated object: per shard `highest`, `frozen`, `owned` and the map.
`Access`, `FreezeShard`, `InstallShard`, `DeleteShard` are the branches of `DoOp`, in
their order.  `log[g]` is what was submitted to group `g` and not executed; executing an
operation drops those before it, as `Submission` allows.  `Send`, `Forget`, `Take` are
how a clerk of a group calls: an attempt that is given up stays in the log without
anybody waiting for it.

### ShardCtrler.tla (`src/shardkv/shardctrler/shardctrler.go`)

`pending` and `posted` are the keys `Pending` and `Gid1` of the controllers' kvsrv; a
read or a `Put` of them is one step with the answers `KVService` allows, `ErrMaybe`
included, whatever it did.  `ctl` is a controller's place in `ChangeConfigTo`:

| action | code |
|---|---|
| `Start`, `Recover`, `Resume` | the tester asks for a change; `InitController` reads `Pending`, then the configuration |
| `GetPending`, `CreatePending`, `ReplacePending` | the loop that makes the change known, or takes over the one that is |
| `MoveShard` | the next shard: give up if superseded, skip it if it stays, else begin |
| `CheckStale`, `CallGroup`, `CallFails`, `CallReturns` | one attempt of a freeze, install or delete, with the test for a newer configuration before each, and what follows the answer |
| `GetPosted`, `PutPosted` | the loop that posts the configuration |
| `Die` | at any point; its last call stays in a log |

`CreatePending` takes `ErrMaybe` for success, as the code does (`shardctrler.go:114`).  When
the first copy of the `Put` is lost and another controller's comes before the second, this
is wrong: the constant `Misled` says whether that occurs.  With it two groups may serve a
shard (`shard_misled`); without it what is checked and proved of the sharded service holds.

### ShardKV.tla (`src/shardkv/client.go`)

The sharded clerk: ask for the configuration (`Locate`), ask the group (`AskGroup`), and
either end or start again.  `Execution` is a group executing an operation; it records,
as history, the values written to each key in order.  `done` keeps what the calls
returned.

### MapReduce.tla (`src/mapreduce/coordinator.go`, `worker.go`, `rpc.go`)

`GetTask`, `ReportTask` and the take-back timer are the coordinator's critical
sections.  A worker's task is cut where it touches the file system: a file created or
opened, a record appended or read, an output printed.  A crash may fall between any
two.  Files are sets of record numbers; a file created again starts empty; a reader
stops at the first gap.  `Slow` says whether a worker may still be alive ten seconds
after it was given a task.  A worker that is told to wait takes no step of the model.

## 3. Runs

With two workers `rsm` and `services` take about three minutes, `raft_elections_pipelining`
and `raft_changes_snapshots` two, and every other run one and a half or less; half as long
again with TLC's coverage statistics.

| run | what it shows |
|---|---|
| `raft_elections_pipelining` | two scenarios.  "elections", from `Make`: two candidates and a voter, all of which may crash, two terms, three calls in flight: `ElectionSafety`, `VoteOncePerTerm`, `DiskIsCurrent`, and the inductive invariant `ElectionInv` of the proof.  "pipelining": one leader, two calls in flight to each peer, lost and reordered: `MatchIndexSound` (an index is counted as replicated only where the peer has the leader's entries), `IndexesInRange`, `CommitMonotonic` |
| `raft_changes_snapshots` | two scenarios.  "leader changes", from the diverged logs of figure 8 of the Raft paper: an old leader replicates, crashes, is overtaken by a server with a newer history: `LogMatching`, `StateMachineSafety`, `LeaderCompleteness`, `LeaderAppendOnly`.  "snapshots": a server is elected, applies, compacts, crashes and restarts from its snapshot, and sends snapshots to peers with conflicting logs: the same and `IndexesInRange`, `ServiceInStep` |
| `raft_catch_up` | liveness: followers with a longer conflicting log and with an empty one come to execute every entry of the leader's term |
| `raft_snapshot_rollback` | a violation of `ServiceInStep`, see section 6 |
| `rsm` | two callers, three servers, three terms, a server that restarts: `AnswersOwn` (an `OK` has the result of the caller's own operation), `ReplicasAgree` (no two servers execute different operations at a position), `IsSubmission` (the refinement of `Submission`) |
| `rsm_restart` | a violation of `AnswersOwn` with five servers, see section 6 |
| `services` | the two services on replicated groups, in four deployments (below).  Replicated: `StoresInStep` (a server has the map of the operations it has executed, snapshots and crashes or not) and `IsService`, the refinement of `KVService`.  Sharded: `ServesLatest` (a shard is served by one group, with all that was written), `PostedServes` (once nothing is pending the posted configuration is balanced, true, and nobody else keeps a copy), `StaleIsSuperseded` (a controller that is told `ErrStale` gives up, and may: somebody has posted its configuration or a later one), `AnswersTrue` (a `Put` takes effect at most once, and as `OK`, `ErrVersion` and `ErrNoKey` say for ever; a `Get` returns nothing older than its call), `CallsInOrder` (a `Put` that is executed after it has returned `ErrMaybe` was missed by none of its client's later calls).  All of it without `Rollback` and `Misled` |
| `kvraft_rollback` | with `Rollback`, a violation of `IsService`, see section 6 |
| `shard_misled` | with `Misled`, a violation of `AnswersTrue`, see section 6 |
| `lock` | two clients, each with a lock or using another key, requests and replies lost: `MutualExclusion`, `ReleaseFrees`, `AcquireReturns`, the invariants `LockInv` and `PutsOnce` of the proofs, and `IsService`, the refinement of `KVService` |
| `mapreduce` | three workers, two of which may crash anywhere: `CountsReports`, `ReducesReadAll`, `DoneIsFinished`, `JobIsDone` |
| `mapreduce_slow` | a violation of `DoneIsFinished`, see section 6 |

### Bounds, and why they are enough

* Three servers: the smallest group with a majority that excludes somebody, and every
  hazard of section 1 needs an old leader, a new one and a voter.
* `MaxTerm`: two for elections (a vote of an old term counted in a new one), four for
  figure 8 (terms 1 to 3 are in the initial state, the fourth overtakes).  `MaxIndex`
  is two: an entry and the one it must not be confused with.  `MaxInFlight` two, so
  that replies overtake each other.  `MaxRPCs` bounds the calls under way at once.
* Breadth-first search from `Make()` does not get to diverged logs within minutes.
  `MCRaft` therefore starts some runs from `InitElected`, `InitDiverged` and
  `InitBehind`, whose comments give the behaviour that leads to them.  The scenario
  "elections" starts from `Init`.
* `MCRaftScenarios` has two scenarios per run, which differ in where they start and in
  what `Bounds` lets them do; a behaviour stays in one of them.  Between them they
  take every action of `Next` (TLC's statistics of expressions show it).  `raft_catch_up` has
  a next-state relation without elections, crashes and compaction, `BehindNext`.
* `Electable`, `Restartable`, `Applying` and `Compactable` name who may time out,
  crash, apply, and at which indexes the service may compact, so that each run spends
  its states on its own question.
* `rsm`: two callers, an index each may take, and three terms: a leader is deposed, its
  operation overwritten, and it is elected again while its caller still waits, so that
  two callers meet at one index of one server.  `s3` only votes.
  `rsm_restart` starts from `InitRestarted`, whose comment gives its past: the
  operation that comes back must have survived on a minority that does not include
  its own server, so that five servers are needed.
* `services` has one of four deployments per behaviour, so that no run mixes them; the
  constraint `Within` says where each ends.
  - `kvraft`: two servers, so that one can be behind, crash and be restored by the
    other; clerk `A` puts with two attempts, `B` puts, conditionally or not, or gets.
    The group itself needs no majority here, it is `Submission`.  `kvraft_rollback` has
    this deployment with other requests (`PutThenGet`) and no resends: a `Put` that
    succeeds after another clerk's, and a `Get` of the same clerk after that, the least that
    a return to an older map shows in.
  - `rivals`: two controllers ask for groups 2 and 3 to join and leave, up to
    configuration 3, on a key that was written before; nobody writes, and in
    `shard_misled`, which has this deployment only, the client reads once a change is posted.
  - `racing`: two controllers make the change to configuration 2 while a client puts
    and gets.
  - `series`: one controller at a time makes changes up to configuration 3, dies and
    recovers, while the client puts, then puts or gets.
  There are two shards, so that a change moves one and leaves one, and up to three
  groups.  `MaxLog` operations wait in a group's log: two in `series` up to the first
  change, for an abandoned copy next to the one that is waited for; else one, which
  may be an abandoned one that is executed late; and two in all in `series`, in the logs
  of the two groups it has.  `Symmetry` exchanges the
  controllers, which no definition tells apart.
* `Join` and `Leave` are checked apart from that, by assumptions of `MCServices`, from
  every assignment of five shards to three groups: `RebalanceIsEven`, `JoinTakesOnly`.
* The lock run has two acquisitions per client and versions up to two, which is
  enough for a second `Acquire` to meet a lock that was taken and freed, and for a
  stale `Put` to meet a version that moved on.
* MapReduce has three maps, two reduces and three records with two records in one
  file: a file can be cut between records, and a reduce can miss a file.

`CHECK_DEADLOCK FALSE` stands in every configuration: with all bounds used up the
system has nothing left to do.

### Fairness

* `raft_catch_up`: weak fairness of `Heartbeat`, of the handlers and replies, and of
  the applier.  The ticker of a leader calls `sendHeartBeats` for ever, each goroutine
  runs, and the run assumes one leader and no losses from some point on, which is what
  any liveness claim about Raft needs.
* `lock`: weak fairness of the server answering what it received; strong fairness of a
  clerk's call succeeding, because it resends for ever and a network that loses every
  copy makes nothing return; weak fairness of `Release`, because `AcquireReturns` is
  owed only when holders do release: the lock has no lease, by design.
* `rsm` and `services` state safety only.  That a change of configuration is posted in
  the end is not claimed: a controller gives way to any other that is ahead of it, and
  dies at will.
* `mapreduce`: weak fairness of each worker that has not crashed and of the timers.
  `MaxCrashes` leaves one worker alive.

## 4. Proofs

All theorems hold for every value of the constants, under the named assumptions of the
modules they are about and the hypotheses that the table names.  Each property was
checked by TLC before it was proved.

| theorem | says |
|---|---|
| `RaftProofs!TypeCorrect` | `TypeOK` of Raft |
| `RaftProofs!DiskAlwaysCurrent` | term and vote are on disk before any message can carry them |
| `RaftProofs!ElectionIsSafe` | at most one leader per term, any number of servers |
| `RaftProofs!VotesAreFinal` | no step, not even a restart, changes a vote within a term |
| `RaftProofs!VotesAreCountedRight` | the inductive invariant of elections, `ElectionInv` |
| `RaftLogProofs!IndexesStayInRange` | no index of `raft.go` leaves the slice it is used on |
| `RaftLogProofs!LogsAlwaysMatch`, `MatchIndexesAreSound` | logs that agree in an entry agree up to it; what a leader counts as replicated is |
| `RaftLogProofs!CommitsAgree`, `LeadersAreComplete` | no two servers commit different entries at an index; a leader of the highest term has all that were committed |
| `RaftLogProofs!LeadersOnlyAppend`, `CommitsStay` | action properties: a leader changes nothing that is in its log, only a restart takes `commitIndex` back |
| `RaftLogProofs!ServiceStaysInStep` | the service has executed the entries up to `lastApplied`, in order, each once; if nothing is ever compacted (`Compactable = {}`) |
| `LockProofs!LockTypes`, `LockAgrees` | types; the inductive invariant `LockInv` |
| `LockProofs!LockExcludes`, `LockIsFreed` | exclusion; a released lock is free of its client's id |
| `LockProofs!PutIsPerformedOnce` | no copy of a `Put` is performed after the first that is |
| `KVRaftProofs!KVRaftTypes`, `StoresAgree` | types of the replicated service; every replica has the map of the operations it has executed, if it is given no snapshot older than that (`~Rollback`; the types hold without) |
| `KVRaftProofs!KeepsTheService` | servers and clerks of the replicated service refine `KVService`; under the same hypothesis |
| `LockProofs!ImplementsService` | server, clerks and lock users refine `KVService` |
| `RSMProofs!RSMTypes` | types of rsm and of the group under it |
| `RSMProofs!ServersExecuteAlike` | all servers execute the same operations in the same order, none twice: `ReplicasAgree`, any number of servers and terms, with restarts |
| `RSMProofs!AnswersAreOwn` | an `OK` of `Submit` has the result of the caller's own operation, if no server restarts (`Restartable = {}`) |
| `RSMProofs!KeepsThePromise` | servers, readers and callers of `Submit` refine `Submission`, under the same hypothesis |
| `MapReduceProofs!MapReduceTypes` | types, slow workers or not |
| `MapReduceProofs!CountIsRight`, `ReducesReadEverything`, `DoneJobIsFinished` | the coordinator's count, what a reduce task reads, what `Done` means; if no worker is slow (`~Slow`) |
| `ShardProofs!SKTypes` | types of the sharded service |
| `ShardProofs!ShardsServeLatest` | no shard is served by two groups, and the one that serves it has all that was written; if no controller takes another's first `Put` of `Pending` for its own (`~Misled`) |
| `ShardProofs!PostedIsServed` | a posted configuration is balanced and, once nothing is pending, true; likewise `~Misled` |
| `ShardProofs!StaleMayGiveUp` | a controller that is told `ErrStale` is superseded; likewise `~Misled` |
| `ShardProofs!AnswersAreTrue` | what clients of the sharded service are told is true, `ErrMaybe` apart, which says nothing; likewise `~Misled`, and if no two calls put the same value to a key (`PutsDiffer`) |

**Elections.**  `ElectionSafety` is not inductive: nothing in it says where a leader's
votes came from.  `ElectionInv` ties every counted vote and every granted reply in
flight to the voter's `votedFor` in that term, or to a voter whose term has moved on,
and every call in flight to a candidate of that term; `DiskIsCurrent` carries this
through a restart.  Two leaders of one term would have two majorities of votes, these
meet in a server (a lemma about cardinalities), and it would have voted twice.

**Raft's log.**  None of its properties is inductive.  `LogMatching` compares two logs, and a
call in flight may overwrite either; `StateMachineSafety` compares what two servers have
committed, and says nothing of the server that is about to be elected; `MatchIndexSound`
says nothing of the replies a leader has yet to read.  The invariant, `LogInv`, is about
what is not in any variable: `L[T]`, all that the leader of term `T` has ever had in its
log, what it has compacted included, and `A[q][t]`, how far server `q` has acknowledged
that log.  No variable of the model was added for them: `LogInv` says that two such
functions exist, and the proof of each action names those that fit the next state
(`LogStep` says how a step may change them).  Its parts:
- `Coherent`, `LogsFit`, `LeadersFit`, `CallsFit`: every log, every entry in a call, every
  snapshot and every sentinel is a part of some `L[T]`, and `L[T]` up to an entry of term
  `t` is `L[t]`.  `LogMatching` and the index arithmetic follow.
- `Choosable`: half of the servers have acknowledged an entry of term `t` in that term, or
  may still do so.  `Beyond`: such an entry is in the log of every later leader.
  `Ballots` says it of candidates and the servers that voted for them, so that an election,
  which may come long after the votes were given, finds it ready.  An entry stops being
  choosable when too many servers have moved on; nothing becomes choosable again.
- `AckKeeps`: a server does not lose what it has acknowledged of a choosable entry: the
  only call that could cut it off is one of a later leader, who has it.
- `Chosens`, `Seals`: what is committed was committed so, by a leader in its own term.
- `Ranges`: the order of a server's own indexes.

An election wins with more than half of the votes, and the commit rule is content with half
of the servers: the median at `raft.go:247` is, of an even number, the upper of the
two in the middle.  A majority and a half share a server (`Half`), so that the theorems need no
assumption about the number of servers.  Lost, delayed and repeated calls, crashes between
`persist` and reply, and snapshots are all covered, as they are in the runs; the theorems
are about `Spec`, which starts from `Make()`, while most of the runs start later.

`ServiceInStep` is proved only for a service that does not compact (`maxraftstate` is
-1, `rsm.go:49`).  With compaction it is false: that is the finding `raft_snapshot_rollback`
of section 6.

**Lock.**  `MutualExclusion` needs to know that the record of the lock agrees with
where each client is.  `LockInv` says so: a client that holds the lock is its owner, a
client whose `Put` is out would write its own id, a client that has read the lock free
at a version can succeed only if nobody wrote since.  `PutsOnce` bounds the version a
pending copy can match: once one copy is performed the version is past it for ever,
so that a resent `Put` cannot take a lock that was given back meanwhile.

**Refinement.**  `KVInitMaps` and `KVStepMaps` map initial states and every step of
`KVSrv` through the mapping, the server's step on the copy that succeeds being the
abstract performance of the `Put`; the others are stutters, invocations or answers.
`ImplementsService` composes this with the steps of the lock.

**Replicas.**  `StoresInStep` is not inductive because of `Restore`: what a snapshot does
not hold survives in the map it is decoded into.  `HistoryInv` adds that each map in
`history` is what `DoOp` makes of the one before, and that later maps keep the keys of
earlier ones (`DoOpKeeps`: no `Put` removes a key).  With `~Rollback`, the hypothesis of
this theorem and the next, a server decodes only a later map into an earlier one, so that
nothing survives that is not in the snapshot (`DecodedIsData`).  The hypothesis is one that
the code does not establish: section 6.  The proof rests on `Submission`'s promise, not on Raft.

**The replicated service.**  A call of the clerk may have many attempts in the log.  In the
refinement the execution of the attempt the clerk waits for is the abstract `Perform`,
`Decline` or `Read`; the execution of an abandoned one is `PerformUnanswered` if it succeeds,
and not seen else.  That the former never comes after the latter has had its effect, and that
an error tells the truth, is `CallsInv`.  `QueueOfCalls` and `AttemptsAscend`: what waits in
the log belongs to the clerk's present call, because executing its last attempt drops the
earlier ones.  `PastVersion`: once a `Put` has taken effect its version is past, so that no
other copy of it succeeds.  `AttemptsCounted`: a clerk that does not remember having sent
twice has one attempt, so that `ErrVersion` is true; after a resend it becomes `ErrMaybe`.
`NoKeyIsTrue`: `ErrNoKey`, which the clerk passes on even after a resend, is true because a
`Put` that had taken effect would have left the key there.

**The log of a group.**  `ReplicasAgree` compares what two readers have executed, which
is what their servers hold as committed; it needs that an entry once committed stays
where it is in every log that matters.  `GroupInv` has three parts.  `LogInv`: terms
ascend along a log, a term has one leader, logs that agree in the term of an entry agree
up to it, and a leader's log has all entries of its term.  `CommitsAreSafe`: whatever a
server holds as committed is the beginning of a sequence of entries that a majority
holds, at least those that the leader counted, and that everybody holds who leads in a
later term or has entries of one (`Beyond`).  `LeadersKnow`: what a leader counts in
`matchIndex` is held by the server it counts.  A new leader has the votes of a majority,
which meets the one that holds a committed sequence in a server whose log is no newer
than its own; the induction along terms that the usual argument has is in `Beyond`.  The
proof failed for the commit rule that the model had at first, which counted copies from
whoever they came (section 2): with five servers that rule loses what it commits.

**Answers of Submit.**  `AnswersOwn` needs that a pair of server and id names one
operation for ever (`IdsUsed`, `CallIdsUsed`, `IdsOwn`).  A restart resets `opId`, which
is the finding `rsm_restart`: the hypothesis `Restartable = {}` is what the code lacks.

`KeepsThePromise` needs it for the same reason.  The abstract queue is what was submitted
after the last operation executed, so that what has to be shown of an execution is that
no operation is executed after one that was submitted later.  `OrderInv` says this of what
lies in the logs already: every log has its operations in the order of their submission
(`LogsInOrder`, `SubmittedOnce`), which a leader keeps because it appends what is submitted
last, and with `GroupInv` above what is executed is the beginning of such a log.
`Refusals`: an operation whose `Submit` has returned `ErrWrongLeader`, because another one
was executed at its index, is in logs only where something else has been executed, so that
no leader that commits more can have it.  `ChannelsExecuted`: what
lies in a caller's channel has been executed.

**MapReduce.**  `JobInv` says, for the task in a worker's hands, how far its files are, and
that nobody else has that task (`MapsHandedOut`, `ReducesHandedOut`).  The last is false
when a worker is slow, as the run `mapreduce_slow` shows; with `~Slow` the timer takes a
task only from a worker that has crashed.  Crashes between any two file operations are
covered: the next worker creates the files again.

**Shards.**  The theorems follow from one invariant, `Hold`: where every shard is, given
the two configurations in the controllers' keys.
- `Placed`: a group that no call of the change under way has reached (`highest` is at most
  the posted number) owns a shard exactly if the posted configuration says so, and serves
  what it owns.  One that has been reached is the new group, which serves the shard, or the
  old one, which keeps it frozen or, after the new one has it, not at all.
- `UpToDate`: who serves a shard, and who has it frozen while the new group does not serve
  it yet, has the latest value of each of its keys.
- `Orders`: what is to be said of a call that lies in a log, whoever sent it and whether or
  not anybody still waits.  If it belongs to a change that is posted it is `Spent`, and
  executing it changes nothing.  If it belongs to the one under way it is `Due`: it is
  addressed to the right group and the steps before it have been taken; an `Install`
  carries the latest values, or comes too late to matter.
- `CtlSound` and `AnswerSound` say the same of the call a controller is about to make and
  of the answer it is about to read: a controller that is not superseded works for the
  pending configuration and has moved all the shards before its own, and one that is
  superseded has only `Spent` calls left.
`Onward` is what all steps of the groups have in common (numbers do not fall, nobody writes
to a shard on its way), and each of these parts is shown once to survive it.  The two
steps that move the configurations are `PendingHolds`, where nothing may be under way, and
`PutPostedHolds`, where everything must have arrived.  A controller that
is `Misled` breaks the invariant when it goes on with a configuration that is not the
pending one; `~Misled` is the hypothesis, and the code does not establish it (section 6).
The theorems are about `SKSpec`; the deployment `rivals` of the run
starts in another state, one with a value written.

**Answers of the sharded service.**  `AnswersTrue` speaks of what was written, which the
history `written` keeps as values; that a value tells whose it is (`PutsDiffer`) is
how calls are told apart and asks nothing of the code, which never looks at a value; the
scripts of the run satisfy it.
`AllTold` ties the calls, the logs, the history and the answers together.  All that is in
a log or was written is some client's call (`LogIsCalls`, `WrittenIsCalls`).  A client
waits for the last of its operations in any log (`WaitsForLast`).  The first copy of a
`Put` is the only one and has no effect before it is answered (`FirstCopy`), so its
`ErrVersion` is final; a later copy's is passed on as `ErrMaybe`, which promises nothing.
The hard case is `ErrNoKey`, which the clerk passes on even after a resend.  An earlier
copy may then still lie in the log of another group, and could take effect there if the
shard came back while its key is new.  It cannot: a copy that a group has in its log while
it does not serve the shard is `Late` unless an `Install` is before it, and what `Hold` says of the
groups leaves no such `Install` while another group serves the shard.  `LateStays`
carries this through every step.  Like the other theorems it is about `SKSpec` and
has the hypothesis `~Misled`.

**Balance.**  That `Rebalance` ends with every shard in a group that is there, and no group
two shards ahead (`RebalanceIs`), is proved for every number of shards: a step moves a
shard from the fullest group to the emptiest, and one that has come to a group stays,
because a group that has received a shard never becomes two shards fuller than the emptiest.
So there are no more moves than shards, and the loop of the model, which has that many
rounds, ends even.  The library's induction cannot be used here; `LeastNumber`, that a set of
numbers has a least one, is proved from well-foundedness and takes its place.

## 5. Only model-checked, not modelled

Only model-checked:
* everything about liveness (`CatchUp`, `AcquireReturns`, `JobIsDone`): fairness is out of
  the prover's reach;
* `ServiceInStep` of a service that compacts its log, where it holds
  (`raft_changes_snapshots`) and where it does not (`raft_snapshot_rollback`);
* `AnswersOwn` and `IsSubmission` with a server that restarts, in the run `rsm`;
* `CallsInOrder` of the sharded service;
* `JoinTakesOnly`, that a group that joins takes shards and no other is given any.
`TypeOK` of `MCServices` is the conjunction of `KVTypeOK` and `SKTypeOK`, each of which is
proved of its own specification.

Two things the code can do are excluded, by hypotheses that bear their names, from the run
`services` and from the theorems of `KVRaftProofs` and `ShardProofs`: a server that is given
a snapshot older than what it has executed (`Rollback`), and a controller that takes
another's `Pending` for its own (`Misled`).  The runs `kvraft_rollback` and `shard_misled`
show what each leads to; nothing is claimed of the services with them.

That `Raft` behaves as `ReplicatedLog` has not been checked: it is read off the code a
second time, at the grain the service sees.

The layers meet at promises: `RSM` is proved to keep `Submission` while no server
restarts, and `KVRaft`, which is proved to keep `KVService`, and
`ShardGrp` start from that promise.  `RSM`'s exception, an operation that comes back after
a restart of its server (section 6), is not part of the promise, so nothing above it
takes it into account.  The controllers' two keys start from `KVService`'s promise.

Not modelled of the sharded service: JSON and the hash of a key (`Key2Shard` is any
function); `Join` and `Leave` of several groups in one call, `IsMember`; the replicas of
a shard group with their `Snapshot` and `Restore` (a group is one object; a lagging
replica that merges an old map when it is restored, `server.go:209`, is not seen); the
clerks cached per gid, whose remembered leader does not matter; the departure of the
last group, after which `client.go:68` makes a clerk without servers that panics at the
first call: `Start` does not ask for it.

Not modelled: logging and debugging output; file-system errors of a worker, which the
code ignores; key hashing; real time, beyond what `Slow` says about it; runs with an even
number of servers or with one, which nothing in the repository starts (the theorems
include them).

## 6. Findings

* `raft_snapshot_rollback`.  `InstallSnapShot` refuses a snapshot only when its index
  is not past `lastIncludedIndex` (`raft.go:584`).  A follower that already applied
  later commands takes a delayed, older one: its service is restored to the older
  state and the commands in between are never applied again.
* `kvraft_rollback`.  The same one layer up: `Restore` decodes whatever snapshot it is
  given (`server.go:79`).  A server that has executed two `Put`s of a key is given the
  snapshot taken after the first, and when it leads it answers a `Get` with the first value,
  although the second `Put` has returned `OK` to the clerk that now asks.
* `shard_misled`.  `ChangeConfigTo` takes `ErrMaybe` for success when it puts `Pending` for
  the first time (`shardctrler.go:112-116`).  Two controllers then go on with different
  configurations of the same number.  The second to freeze a shard is answered `OK` with
  no state, because the group has given it away under that number, and has it installed
  empty at another group.  Both groups serve it (`ServesLatest` fails first, after 23
  states); the one that is posted answers `ErrNoKey` for a key that was written.  The loop
  that replaces a `Pending` reads it again after `ErrMaybe` and has no such case.
* `rsm_restart`.  `Submit` recognises its operation by server and `opId`
  (`rsm.go:119`), and `opId` starts at 0 again after a restart (`rsm.go:74`).  An
  operation from before the restart that comes back at the same index passes for a new
  one, whose caller is told `OK` with the other's result.
* `mapreduce_slow`.  `ReportTask` counts every report.  When a worker is slow instead
  of dead its task is handed out twice, and the second report makes `Done` hold while
  another task has not been started.

One weakness without a statement to hold it against:

* `Leave` deletes whatever is registered at its index (`rsm.go:112`).  When a leader is
  deposed and elected again within the 150 ms of a waiting `Submit`, this may be the
  channel of a later one, which then waits until its server leads no more.

Not a flaw, though it looks like one: the sharded clerk returns `ErrMaybe` as soon as a
server has stopped waiting (`client.go:103`), while the operation is still in the log, so
that the `Put` may be executed after its call has returned.  Nobody can tell.  Whatever is
executed first was submitted first, so that a call made after the return and executed
before the `Put` would keep the `Put` from being executed at all; and if the shard is moved
away and back, the `Install` that brings it back is in the same log behind the `Put`.  The late
`Put` is therefore in an order that its client's calls allow: `CallsInOrder`.

## 7. Plan

1. Liveness of the sharded service: with one controller that does not die, a change is
   posted and a client's call returns.
2. The replicas of a shard group, with `Snapshot`, `Restore` and the merge of an old map
   with a newer one, as `KVRaft` has them for a group without shards.
3. `raft_catch_up` with compaction: a follower below its own snapshot, whose
   `ConflictIndex` the leader ignores.
4. Raft as an implementation of `ReplicatedLog`: what `RSM` starts from would follow from
   `raft.go` itself.  `LogInv` has what that proof needs of the state; the mapping of an
   election, which takes many steps there and one here, is what is left.
