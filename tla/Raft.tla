-------------------------------- MODULE Raft --------------------------------
(***************************************************************************)
(* One Raft peer group as raft/raft.go runs it: elections, log             *)
(* replication, snapshots, persistence and the applier goroutine, with the *)
(* service above (the reader goroutine of kvraft/rsm) reduced to what it   *)
(* does to Raft: receive from applyCh and call Snapshot.                   *)
(*                                                                         *)
(* Every critical section under rf.mu is one action.  A goroutine that     *)
(* does something after an unlock (callElection, the closures that wait    *)
(* for a reply, applierTicker) has its own actions.  RPCs are lost,        *)
(* delayed and reordered, and each one is delivered at most once, as       *)
(* labrpc does it.                                                         *)
(***************************************************************************)
EXTENDS Integers, Sequences, FiniteSets

CONSTANTS
  Server,       \* the peers
  Command,      \* the commands a service may submit
  None,         \* "no vote", -1 in the code, and "no command"
  MaxTerm,      \* bound: no ticker starts an election beyond this term
  MaxIndex,     \* bound: Start appends no entry beyond this index
  MaxInFlight,  \* bound: RPCs in flight from one peer to another
  Lossy,        \* FALSE: the network loses no message
  MaxRPCs,      \* bound: RPCs in flight in a lossy network, which loses the others
  Electable,    \* bound: the servers whose election ticker may fire
  Restartable,  \* bound: the servers that may crash and restart
  Applying,     \* bound: the servers whose applier goroutine is scheduled
  Compactable   \* the indexes at which PersistBytes() >= maxraftstate may hold

ASSUME ServerAssumption ==
  IsFiniteSet(Server) /\ None \notin Server /\ None \notin Command
ASSUME BoundAssumption ==
  /\ MaxTerm \in Nat /\ MaxIndex \in Nat /\ MaxInFlight \in Nat \ {0}
  /\ Lossy \in BOOLEAN /\ MaxRPCs \in Nat
  /\ Electable \subseteq Server
  /\ Restartable \subseteq Server /\ Applying \subseteq Server
  /\ Compactable \subseteq Nat

Follower == "Follower"
Candidate == "Candidate"
Leader == "Leader"

VARIABLES
  currentTerm, votedFor, state, log, lastIncludedIndex, lastIncludedTerm,
  commitIndex, nextIndex, matchIndex,
  persister,        \* what the disk holds: the persisted fields and the snapshot
  electionCalls,    \* callElection goroutines spawned and not yet run, by the term that spawned them
  tally,            \* per callElection goroutine: its electionTerm and who granted (kept as history)
  lastApplied, snapshotPending,
  applier,          \* where the applierTicker goroutine is, and the message it sends
  sm,               \* the service: the commands it has executed, in order
  readerAt,         \* the command index the reader executed last and may snapshot at, or 0
  rpcs,             \* calls and replies in flight
  chosen            \* history: every entry a leader has committed

serverVars == <<currentTerm, votedFor, state>>
logVars == <<log, lastIncludedIndex, lastIncludedTerm>>
leaderVars == <<nextIndex, matchIndex>>
commitVars == <<commitIndex, chosen>>
electionVars == <<electionCalls, tally>>
applyVars == <<lastApplied, snapshotPending, applier, sm, readerAt>>
vars == <<serverVars, logVars, leaderVars, commitVars, electionVars,
          applyVars, persister, rpcs>>

-----------------------------------------------------------------------------
(* Indexes.  The log slice holds, at physical position 0, a sentinel for   *)
(* lastIncludedIndex; log[i] is that slice, so physical p is position p+1. *)

LastIndex(i) == lastIncludedIndex[i] + Len(log[i]) - 1
HasIndex(i, x) == x \in lastIncludedIndex[i] .. LastIndex(i)
TermAt(i, x) == log[i][x - lastIncludedIndex[i] + 1].term

Entry == [term : Nat, command : Command \cup {None}]
Sentinel(term) == [term |-> term, command |-> None]

-----------------------------------------------------------------------------
(* State shared by the handlers.                                           *)

\* The record persist() encodes, and what it would encode now.
Persisted(i, snapshot) ==
  [currentTerm |-> currentTerm[i], votedFor |-> votedFor[i], log |-> log[i],
   lastIncludedIndex |-> lastIncludedIndex[i],
   lastIncludedTerm |-> lastIncludedTerm[i], snapshot |-> snapshot]

\* persist(snapshot) at the end of a critical section, when a path calls it.
Persist(i, snapshot) ==
  persister' = [persister EXCEPT ![i] =
    [currentTerm |-> currentTerm'[i], votedFor |-> votedFor'[i], log |-> log'[i],
     lastIncludedIndex |-> lastIncludedIndex'[i],
     lastIncludedTerm |-> lastIncludedTerm'[i], snapshot |-> snapshot]]
PersistIf(called, i) ==
  IF called THEN Persist(i, persister[i].snapshot) ELSE UNCHANGED persister

\* rf.currentTerm = term; rf.convertToFollower()
AdoptTerm(i, term) ==
  /\ currentTerm' = [currentTerm EXCEPT ![i] = term]
  /\ votedFor' = [votedFor EXCEPT ![i] = None]
  /\ state' = [state EXCEPT ![i] = Follower]

\* Mutants of the two definitions below: convertToFollower where the code
\* calls stepDown, and a higher term adopted without persist().
FollowTermForgettingVote(i, term) ==
  IF term > currentTerm[i] \/ state[i] = Candidate THEN AdoptTerm(i, term)
  ELSE UNCHANGED <<currentTerm, votedFor, state>>
FollowTermUnpersisted(i, term) == state[i] = Candidate

\* The opening of AppendEntries and InstallSnapShot for a term that is not
\* stale: a higher term is adopted, a candidate of this term steps down and
\* keeps its vote.
FollowTerm(i, term) ==
  IF term > currentTerm[i] THEN AdoptTerm(i, term)
  ELSE /\ state' = [state EXCEPT ![i] = IF @ = Candidate THEN Follower ELSE @]
       /\ UNCHANGED <<currentTerm, votedFor>>
FollowTermPersists(i, term) == term > currentTerm[i] \/ state[i] = Candidate

-----------------------------------------------------------------------------
(* RPCs.  A record stands for one Call: first the arguments on their way,  *)
(* then the reply on its way back.  "from" is the caller in both; "slot"   *)
(* tells concurrent calls to one peer apart; "awaited" is FALSE once the   *)
(* caller has crashed.                                                     *)

CallTypes == {"VoteCall", "AppendCall", "SnapshotCall"}

FreeSlots(i, p) ==
  (1 .. MaxInFlight) \ {m.slot : m \in {r \in rpcs : r.from = i /\ r.to = p}}
Slot(i, p) == CHOOSE k \in FreeSlots(i, p) : TRUE
ReachableWithSelf(i) == {p \in Server : FreeSlots(i, p) # {}}   \* mutant
Reachable(i) == {p \in Server \ {i} : FreeSlots(i, p) # {}}

\* Each call leaves on its own goroutine; the network may lose it.
SendCalls(calls) ==
  \E sent \in SUBSET calls :
    /\ IF Lossy THEN Cardinality(rpcs \cup sent) <= MaxRPCs ELSE sent = calls
    /\ rpcs' = rpcs \cup sent

\* The handler ran on call m: its reply r travels back unless it is lost or
\* nobody waits for it any more.
Return(m, r) ==
  \/ m.awaited /\ rpcs' = (rpcs \ {m}) \cup {r}
  \/ (Lossy \/ ~m.awaited) /\ rpcs' = rpcs \ {m}

Received(m) == rpcs' = rpcs \ {m}

-----------------------------------------------------------------------------
(* Elections.                                                              *)

\* ticker: the election timeout has passed (time is abstracted: it may pass
\* whenever the server is not leader).  convertToCandidate spawns callElection.
Timeout(i) ==
  /\ i \in Electable
  /\ state[i] # Leader
  /\ currentTerm[i] < MaxTerm
  /\ state' = [state EXCEPT ![i] = Candidate]
  /\ currentTerm' = [currentTerm EXCEPT ![i] = @ + 1]
  /\ votedFor' = [votedFor EXCEPT ![i] = i]
  /\ electionCalls' = [electionCalls EXCEPT ![i] = @ \cup {currentTerm'[i]}]
  /\ UNCHANGED <<logVars, leaderVars, commitVars, applyVars, tally, rpcs>>
  /\ Persist(i, persister[i].snapshot)

VoteCall(i, p, e) ==
  [type |-> "VoteCall", from |-> i, to |-> p, slot |-> Slot(i, p), awaited |-> TRUE,
   election |-> e, term |-> currentTerm[i],
   lastLogIndex |-> LastIndex(i), lastLogTerm |-> TermAt(i, LastIndex(i))]

\* The goroutine spawned in term e takes the lock only now: it asks for votes
\* in whatever the current term is, candidate or not.
CallElection(i, e) ==
  /\ e \in electionCalls[i]
  /\ electionCalls' = [electionCalls EXCEPT ![i] = @ \ {e}]
  /\ tally' = [tally EXCEPT ![i][e] = [term |-> currentTerm[i], votes |-> {}]]
  /\ SendCalls({VoteCall(i, p, e) : p \in Reachable(i)})
  /\ UNCHANGED <<serverVars, logVars, leaderVars, commitVars, applyVars, persister>>

VoteReply(m, term, granted) ==
  [type |-> "VoteReply", from |-> m.from, to |-> m.to, slot |-> m.slot,
   election |-> m.election, callTerm |-> m.term, term |-> term, granted |-> granted]

\* Mutant: the terms of the last entries are compared the wrong way round.
UpToDateSwapped(i, m) ==
  LET lastTerm == TermAt(i, LastIndex(i)) IN
  \/ m.lastLogTerm < lastTerm
  \/ m.lastLogTerm = lastTerm /\ m.lastLogIndex >= LastIndex(i)

\* The candidate's log is at least as up to date as the voter's.
UpToDate(i, m) ==
  LET lastTerm == TermAt(i, LastIndex(i)) IN
  \/ m.lastLogTerm > lastTerm
  \/ m.lastLogTerm = lastTerm /\ m.lastLogIndex >= LastIndex(i)

\* Mutant: the vote already given in this term is not looked at.
MayVoteAgain(i, m) == UpToDate(i, m) /\ m.term >= currentTerm[i]

\* The conditions for a vote; adopting a higher term has cleared the old one.
MayVote(i, m) ==
  /\ UpToDate(i, m)
  /\ m.term >= currentTerm[i]
  /\ m.term > currentTerm[i] \/ votedFor[i] \in {None, m.from}

RequestVote(m) ==
  LET i == m.to
      newTerm == m.term > currentTerm[i]
      granted == MayVote(i, m)
  IN
  /\ m.type = "VoteCall"
  /\ currentTerm' = [currentTerm EXCEPT ![i] = IF newTerm THEN m.term ELSE @]
  /\ state' = [state EXCEPT ![i] = IF newTerm THEN Follower ELSE @]
  /\ votedFor' = [votedFor EXCEPT ![i] = IF granted THEN m.from
                                         ELSE IF newTerm THEN None ELSE @]
  /\ UNCHANGED <<logVars, leaderVars, commitVars, electionVars, applyVars>>
  /\ PersistIf(newTerm \/ granted, i)
  /\ Return(m, VoteReply(m, currentTerm'[i], granted))

\* A reply from a later term makes any caller a follower of that term.
StepDown(m) ==
  LET i == m.from IN
  /\ m.type \notin CallTypes
  /\ m.term > currentTerm[i]
  /\ AdoptTerm(i, m.term)
  /\ UNCHANGED <<logVars, leaderVars, commitVars, electionVars, applyVars>>
  /\ PersistIf(TRUE, i)
  /\ Received(m)

Majority(votes) == Cardinality(votes) > Cardinality(Server) \div 2

ConvertToLeader(i) ==
  /\ state' = [state EXCEPT ![i] = Leader]
  /\ nextIndex' = [nextIndex EXCEPT ![i] = [p \in Server |-> LastIndex(i) + 1]]
  /\ matchIndex' = [matchIndex EXCEPT ![i] = [p \in Server |-> 0]]

\* The rest of callElection's closure: votesReceived is 1 for the candidate
\* itself plus the peers in the tally.
CountVote(m) ==
  LET i == m.from
      votes == tally[i][m.election].votes \cup {m.to}
  IN
  /\ m.type = "VoteReply"
  /\ m.term <= currentTerm[i]
  /\ Received(m)
  /\ IF currentTerm[i] = m.callTerm /\ state[i] = Candidate /\ m.granted
     THEN /\ tally' = [tally EXCEPT ![i][m.election].votes = votes]
          /\ IF Majority(votes \cup {i}) THEN ConvertToLeader(i)
                                         ELSE UNCHANGED <<state, leaderVars>>
     ELSE UNCHANGED <<tally, state, leaderVars>>
  /\ UNCHANGED <<currentTerm, votedFor, logVars, commitVars, electionCalls,
                 applyVars, persister>>

-----------------------------------------------------------------------------
(* Replication.                                                            *)

AppendCall(i, p, entries) ==
  LET prev == nextIndex[i][p] - 1 IN
  [type |-> "AppendCall", from |-> i, to |-> p, slot |-> Slot(i, p), awaited |-> TRUE,
   term |-> currentTerm[i], prevLogIndex |-> prev,
   prevLogTerm |-> entries[prev - lastIncludedIndex[i] + 1].term,
   entries |-> SubSeq(entries, prev - lastIncludedIndex[i] + 2, Len(entries)),
   leaderCommit |-> commitIndex[i]]

SnapshotCall(i, p) ==
  [type |-> "SnapshotCall", from |-> i, to |-> p, slot |-> Slot(i, p), awaited |-> TRUE,
   term |-> currentTerm[i], lastIncludedIndex |-> lastIncludedIndex[i],
   lastIncludedTerm |-> lastIncludedTerm[i], data |-> persister[i].snapshot]

\* broadcastHeartbeats with the log the caller has at that point.  The slice
\* expressions panic when nextIndex is past the end: then there is no step.
Broadcast(i, entries) ==
  /\ \A p \in Server \ {i} :
        nextIndex[i][p] <= lastIncludedIndex[i] + Len(entries)
  /\ SendCalls({IF nextIndex[i][p] <= lastIncludedIndex[i]
                THEN SnapshotCall(i, p) ELSE AppendCall(i, p, entries) :
                p \in Reachable(i)})

Heartbeat(i) ==
  /\ state[i] = Leader
  /\ Broadcast(i, log[i])
  /\ UNCHANGED <<serverVars, logVars, leaderVars, commitVars, electionVars,
                 applyVars, persister>>

Start(i, c) ==
  /\ state[i] = Leader
  /\ LastIndex(i) < MaxIndex
  /\ log' = [log EXCEPT ![i] = Append(@, [term |-> currentTerm[i], command |-> c])]
  /\ Broadcast(i, log'[i])
  /\ UNCHANGED <<serverVars, lastIncludedIndex, lastIncludedTerm, leaderVars,
                 commitVars, electionVars, applyVars>>
  /\ PersistIf(TRUE, i)

\* Mutant: newMatch = newNext instead of newNext - 1.
AppendReplyNext(m, term, success, conflictIndex) ==
  [type |-> "AppendReply", from |-> m.from, to |-> m.to, slot |-> m.slot,
   callTerm |-> m.term, match |-> m.prevLogIndex + Len(m.entries) + 1,
   term |-> term, success |-> success, conflictIndex |-> conflictIndex]

AppendReply(m, term, success, conflictIndex) ==
  [type |-> "AppendReply", from |-> m.from, to |-> m.to, slot |-> m.slot,
   callTerm |-> m.term, match |-> m.prevLogIndex + Len(m.entries),
   term |-> term, success |-> success, conflictIndex |-> conflictIndex]

\* The call of a leader whose term is over, refused before the log is looked at.
NeverStale(m) == FALSE   \* mutant
Stale(m) == m.term < currentTerm[m.to]

RefuseStaleAppend(m) ==
  /\ Stale(m)
  /\ Return(m, AppendReply(m, currentTerm[m.to], FALSE, 0))
  /\ UNCHANGED <<serverVars, logVars, commitIndex, persister>>

\* Mutant: the run of the conflicting term is not skipped, prevLogIndex itself
\* plus one is answered, where the leader already is.
ConflictIndexesUnmoved(i, prev) == {prev + 1}

\* The ConflictIndex the follower answers when prevLogIndex does not match:
\* the end of its log, or the first index of the run of the conflicting term.
ConflictIndexes(i, prev) ==
  IF prev > LastIndex(i) THEN {LastIndex(i) + 1}
  ELSE {x \in lastIncludedIndex[i] .. prev :
          /\ \A y \in x .. prev : TermAt(i, y) = TermAt(i, prev)
          /\ x > lastIncludedIndex[i] => TermAt(i, x - 1) # TermAt(i, prev)}

\* The entry before the call's entries is in the log.
Matches(i, m) ==
  HasIndex(i, m.prevLogIndex) /\ m.prevLogTerm = TermAt(i, m.prevLogIndex)

RefuseMismatch(m) ==
  LET i == m.to IN
  /\ ~Stale(m)
  /\ FollowTerm(i, m.term)
  /\ UNCHANGED <<logVars, commitIndex>>
  /\ PersistIf(FollowTermPersists(i, m.term), i)
  /\ \/ /\ m.prevLogIndex < lastIncludedIndex[i]
        /\ Return(m, AppendReply(m, currentTerm[i], FALSE, lastIncludedIndex[i] + 1))
     \/ /\ m.prevLogIndex >= lastIncludedIndex[i]
        /\ ~Matches(i, m)
        /\ \E x \in ConflictIndexes(i, m.prevLogIndex) :
              Return(m, AppendReply(m, currentTerm[i], FALSE, x))

\* How many leading entries of m the log already holds (same index and term).
Held(i, m, k) ==
  LET heldAt(j) == /\ m.prevLogIndex + j <= LastIndex(i)
                   /\ TermAt(i, m.prevLogIndex + j) = m.entries[j].term
  IN  /\ \A j \in 1 .. k : heldAt(j)
      /\ k < Len(m.entries) => ~heldAt(k + 1)

AlwaysTruncates(m, k) == TRUE   \* mutant: a delayed call cuts off newer entries
Truncates(m, k) == k < Len(m.entries)

\* Mutant: commitIndex follows leaderCommit down as well as up.
FollowCommitDown(i, leaderCommit, last) ==
  IF leaderCommit <= last THEN leaderCommit ELSE last

\* commitIndex is clamped to the end of the log, then raised by leaderCommit.
FollowCommit(i, leaderCommit, last) ==
  LET clamped == IF commitIndex[i] > last THEN last ELSE commitIndex[i] IN
  IF leaderCommit <= clamped THEN clamped
  ELSE IF leaderCommit <= last THEN leaderCommit ELSE last

AcceptAppend(m) ==
  LET i == m.to IN
  /\ ~Stale(m)
  /\ Matches(i, m)
  /\ FollowTerm(i, m.term)
  /\ \E k \in 0 .. Len(m.entries) :
       LET kept == SubSeq(log[i], 1, m.prevLogIndex + k - lastIncludedIndex[i] + 1)
           newLog == IF Truncates(m, k)
                     THEN kept \o SubSeq(m.entries, k + 1, Len(m.entries))
                     ELSE log[i]
           last == lastIncludedIndex[i] + Len(newLog) - 1
       IN  /\ Held(i, m, k)
           /\ log' = [log EXCEPT ![i] = newLog]
           /\ commitIndex' =
                [commitIndex EXCEPT ![i] = FollowCommit(i, m.leaderCommit, last)]
           /\ UNCHANGED <<lastIncludedIndex, lastIncludedTerm>>
           /\ PersistIf(Truncates(m, k) \/ FollowTermPersists(i, m.term), i)
  /\ Return(m, AppendReply(m, currentTerm[i], TRUE, 0))

AppendEntries(m) ==
  /\ m.type = "AppendCall"
  /\ RefuseStaleAppend(m) \/ RefuseMismatch(m) \/ AcceptAppend(m)
  /\ UNCHANGED <<leaderVars, chosen, electionVars, applyVars>>

\* n is element len(match)/2 of the sorted match indexes.
Median(match, n) ==
  /\ Cardinality({p \in Server : match[p] < n}) <= Cardinality(Server) \div 2
  /\ Cardinality({p \in Server : match[p] <= n}) > Cardinality(Server) \div 2

CommittableAnyTerm(i, n) == n > commitIndex[i]   \* mutant: the term check dropped
Committable(i, n) == n > commitIndex[i] /\ TermAt(i, n) = currentTerm[i]

\* updateCommitIndex, after matchIndex has been updated.  It commits only an
\* entry of the leader's own term, and everything before it.
UpdateCommitIndex(i) ==
  LET match == [matchIndex'[i] EXCEPT ![i] = LastIndex(i)] IN
  \E n \in {match[p] : p \in Server} :
    /\ Median(match, n)
    /\ n > commitIndex[i] => HasIndex(i, n)   \* rf.log[...] panics otherwise
    /\ IF Committable(i, n)
       THEN /\ commitIndex' = [commitIndex EXCEPT ![i] = n]
            /\ chosen' = chosen \cup
                 {[index |-> x, entry |-> log[i][x - lastIncludedIndex[i] + 1]] :
                    x \in {y \in lastIncludedIndex[i] + 1 .. n : y > commitIndex[i]}}
       ELSE UNCHANGED commitVars

\* A reply for the leader's current term.
StillLeading(i, m) == currentTerm[i] = m.callTerm /\ state[i] = Leader

HandleAppendReply(m) ==
  LET i == m.from  p == m.to IN
  /\ m.type = "AppendReply"
  /\ m.term <= currentTerm[i]
  /\ Received(m)
  /\ \/ /\ StillLeading(i, m) /\ m.success
        /\ matchIndex' = [matchIndex EXCEPT ![i][p] = IF m.match > @ THEN m.match ELSE @]
        /\ nextIndex' = [nextIndex EXCEPT ![i][p] = IF m.match + 1 > @ THEN m.match + 1 ELSE @]
        /\ UpdateCommitIndex(i)
     \/ /\ StillLeading(i, m) /\ ~m.success
        /\ nextIndex' = [nextIndex EXCEPT ![i][p] =
                           IF m.conflictIndex > 0 /\ m.conflictIndex < @
                           THEN m.conflictIndex ELSE @]
        /\ UNCHANGED <<matchIndex, commitVars>>
     \/ /\ ~StillLeading(i, m)
        /\ UNCHANGED <<leaderVars, commitVars>>
  /\ UNCHANGED <<serverVars, logVars, electionVars, applyVars, persister>>

-----------------------------------------------------------------------------
(* Snapshots.                                                              *)

Pending(data) == [valid |-> TRUE, data |-> data]
NoPending == [valid |-> FALSE, data |-> <<>>]

\* The reader has just executed command x and finds the Raft state too large.
Snapshot(i) ==
  LET x == readerAt[i] IN
  /\ x \in Compactable
  /\ x > lastIncludedIndex[i] /\ x <= LastIndex(i)
  /\ lastIncludedTerm' = [lastIncludedTerm EXCEPT ![i] = TermAt(i, x)]
  /\ log' = [log EXCEPT ![i] = SubSeq(@, x - lastIncludedIndex[i] + 1, Len(@))]
  /\ lastIncludedIndex' = [lastIncludedIndex EXCEPT ![i] = x]
  /\ readerAt' = [readerAt EXCEPT ![i] = 0]
  /\ UNCHANGED <<serverVars, leaderVars, commitVars, electionVars, rpcs,
                 lastApplied, snapshotPending, applier, sm>>
  /\ Persist(i, sm[i])

SnapshotReply(m, term) ==
  [type |-> "SnapshotReply", from |-> m.from, to |-> m.to, slot |-> m.slot,
   callTerm |-> m.term, match |-> m.lastIncludedIndex, term |-> term]

IgnoreSnapshot(m) ==
  LET i == m.to IN
  /\ \/ /\ Stale(m)
        /\ UNCHANGED <<serverVars, persister>>
     \/ /\ ~Stale(m)
        /\ m.lastIncludedIndex <= lastIncludedIndex[i]
        /\ FollowTerm(i, m.term)
        /\ PersistIf(FollowTermPersists(i, m.term), i)
  /\ UNCHANGED <<logVars, commitIndex, lastApplied, snapshotPending>>

\* Mutant: the suffix starts one entry too early.
RetainedOneMore(i, x, term) ==
  IF x <= LastIndex(i) /\ TermAt(i, x) = term
  THEN SubSeq(log[i], x - lastIncludedIndex[i], Len(log[i]))
  ELSE <<Sentinel(term)>>

\* What stays of the log under a snapshot up to index x: the suffix that
\* follows the same entry, or nothing.
Retained(i, x, term) ==
  IF x <= LastIndex(i) /\ TermAt(i, x) = term
  THEN SubSeq(log[i], x - lastIncludedIndex[i] + 1, Len(log[i]))
  ELSE <<Sentinel(term)>>

\* commitIndex and lastApplied never stay below the snapshot's index.
NotRaised(f, i, x) == f   \* mutant
Raised(f, i, x) == [f EXCEPT ![i] = IF @ < x THEN x ELSE @]

AcceptSnapshot(m) ==
  LET i == m.to  x == m.lastIncludedIndex IN
  /\ ~Stale(m)
  /\ x > lastIncludedIndex[i]
  /\ FollowTerm(i, m.term)
  /\ log' = [log EXCEPT ![i] = Retained(i, x, m.lastIncludedTerm)]
  /\ lastIncludedIndex' = [lastIncludedIndex EXCEPT ![i] = x]
  /\ lastIncludedTerm' = [lastIncludedTerm EXCEPT ![i] = m.lastIncludedTerm]
  /\ commitIndex' = Raised(commitIndex, i, x)
  /\ lastApplied' = Raised(lastApplied, i, x)
  /\ snapshotPending' = [snapshotPending EXCEPT ![i] = Pending(m.data)]
  /\ Persist(i, m.data)

InstallSnapShot(m) ==
  /\ m.type = "SnapshotCall"
  /\ IgnoreSnapshot(m) \/ AcceptSnapshot(m)
  /\ Return(m, SnapshotReply(m, currentTerm[m.to]))
  /\ UNCHANGED <<leaderVars, chosen, electionVars, applier, sm, readerAt>>

HandleSnapshotReply(m) ==
  LET i == m.from  p == m.to  advances == m.match > matchIndex[i][p] IN
  /\ m.type = "SnapshotReply"
  /\ m.term <= currentTerm[i]
  /\ Received(m)
  /\ IF StillLeading(i, m)
     THEN /\ matchIndex' = [matchIndex EXCEPT ![i][p] = IF advances THEN m.match ELSE @]
          /\ nextIndex' = [nextIndex EXCEPT ![i][p] = IF advances THEN m.match + 1 ELSE @]
          /\ UpdateCommitIndex(i)
     ELSE UNCHANGED <<leaderVars, commitVars>>
  /\ UNCHANGED <<serverVars, logVars, electionVars, applyVars, persister>>

-----------------------------------------------------------------------------
(* The applier goroutine and the service.  "top": about to lock at the     *)
(* head of the loop; "readSnapshot": unlocked, about to evaluate           *)
(* rf.snapshotPending; "sendSnapshot", "sendCommand": blocked on applyCh;  *)
(* "sentSnapshot", "sentCommand": received, about to lock again.           *)

Idle == [pc |-> "top", index |-> 0, command |-> None, data |-> <<>>]
Goto(i, pc) == applier' = [applier EXCEPT ![i] = [Idle EXCEPT !.pc = pc]]

\* One pass of the inner loop: pick the next committed command, or leave.
NextCommand(i) ==
  IF lastApplied[i] < commitIndex[i]
  THEN LET x == lastApplied[i] + 1 IN
       /\ HasIndex(i, x)   \* rf.log[...] panics otherwise
       /\ lastApplied' = [lastApplied EXCEPT ![i] = x]
       /\ applier' = [applier EXCEPT ![i] =
            [Idle EXCEPT !.pc = "sendCommand", !.index = x,
                         !.command = log[i][x - lastIncludedIndex[i] + 1].command]]
  ELSE Goto(i, "top") /\ UNCHANGED lastApplied

ApplierTop(i) ==
  /\ applier[i].pc = "top"
  /\ IF snapshotPending[i].valid
     THEN Goto(i, "readSnapshot") /\ UNCHANGED lastApplied
     ELSE lastApplied[i] < commitIndex[i] /\ NextCommand(i)
  /\ UNCHANGED <<snapshotPending, sm, readerAt>>

\* rf.snapshotPending is read without the lock, no later than the reader
\* receives it.
ApplierReadSnapshot(i) ==
  /\ applier[i].pc = "readSnapshot"
  /\ applier' = [applier EXCEPT ![i] =
       [Idle EXCEPT !.pc = "sendSnapshot", !.data = snapshotPending[i].data]]
  /\ UNCHANGED <<lastApplied, snapshotPending, sm, readerAt>>

ApplierSentSnapshot(i) ==
  /\ applier[i].pc = "sentSnapshot"
  /\ snapshotPending' = [snapshotPending EXCEPT ![i] = NoPending]
  /\ NextCommand(i)
  /\ UNCHANGED <<sm, readerAt>>

ApplierSentCommand(i) ==
  /\ applier[i].pc = "sentCommand"
  /\ NextCommand(i)
  /\ UNCHANGED <<snapshotPending, sm, readerAt>>

\* The reader receives: Restore replaces the service's state, DoOp extends it.
\* The applier skips the send when the entry carries no command.
ReaderRestore(i) ==
  /\ applier[i].pc = "sendSnapshot"
  /\ sm' = [sm EXCEPT ![i] = applier[i].data]
  /\ readerAt' = [readerAt EXCEPT ![i] = 0]
  /\ Goto(i, "sentSnapshot")
  /\ UNCHANGED <<lastApplied, snapshotPending>>

ReaderDoOp(i) ==
  /\ applier[i].pc = "sendCommand"
  /\ IF applier[i].command # None
     THEN /\ sm' = [sm EXCEPT ![i] = Append(@, applier[i].command)]
          /\ readerAt' = [readerAt EXCEPT ![i] = applier[i].index]
     ELSE UNCHANGED <<sm, readerAt>>
  /\ Goto(i, "sentCommand")
  /\ UNCHANGED <<lastApplied, snapshotPending>>

Apply(i) ==
  /\ i \in Applying
  /\ \/ ApplierTop(i) \/ ApplierReadSnapshot(i) \/ ApplierSentSnapshot(i)
     \/ ApplierSentCommand(i) \/ ReaderRestore(i) \/ ReaderDoOp(i)
  /\ UNCHANGED <<serverVars, logVars, leaderVars, commitVars, electionVars,
                 persister, rpcs>>

-----------------------------------------------------------------------------
(* Crash and restart: Make() with the persister the crash left behind.     *)
(* Replies to the old process are lost; calls it sent may still arrive.    *)

Orphan(i, m) == IF m.from = i THEN [m EXCEPT !.awaited = FALSE] ELSE m

\* Mutant: Make() does not hand the persisted snapshot to the service.
NothingPending(disk) == NoPending
PendingAtStart(disk) ==
  IF Len(disk.snapshot) > 0 THEN Pending(disk.snapshot) ELSE NoPending

Restart(i) ==
  LET disk == persister[i]
      restored == IF Len(disk.snapshot) > 0 THEN disk.lastIncludedIndex ELSE 0
  IN
  /\ i \in Restartable
  /\ currentTerm' = [currentTerm EXCEPT ![i] = disk.currentTerm]
  /\ votedFor' = [votedFor EXCEPT ![i] = disk.votedFor]
  /\ log' = [log EXCEPT ![i] = disk.log]
  /\ lastIncludedIndex' = [lastIncludedIndex EXCEPT ![i] = disk.lastIncludedIndex]
  /\ lastIncludedTerm' = [lastIncludedTerm EXCEPT ![i] = disk.lastIncludedTerm]
  /\ state' = [state EXCEPT ![i] = Follower]
  /\ nextIndex' = [nextIndex EXCEPT ![i] = [p \in Server |-> 1]]
  /\ matchIndex' = [matchIndex EXCEPT ![i] = [p \in Server |-> 0]]
  /\ commitIndex' = [commitIndex EXCEPT ![i] = restored]
  /\ lastApplied' = [lastApplied EXCEPT ![i] = restored]
  /\ snapshotPending' = [snapshotPending EXCEPT ![i] = PendingAtStart(disk)]
  /\ applier' = [applier EXCEPT ![i] = Idle]
  /\ sm' = [sm EXCEPT ![i] = <<>>]
  /\ readerAt' = [readerAt EXCEPT ![i] = 0]
  /\ electionCalls' = [electionCalls EXCEPT ![i] = {}]
  /\ rpcs' = {Orphan(i, m) : m \in {r \in rpcs : r.from = i => r.type \in CallTypes}}
  /\ UNCHANGED <<tally, persister, chosen>>

-----------------------------------------------------------------------------

InitialLog == <<Sentinel(0)>>

Init ==
  /\ currentTerm = [i \in Server |-> 0]
  /\ votedFor = [i \in Server |-> None]
  /\ state = [i \in Server |-> Follower]
  /\ log = [i \in Server |-> InitialLog]
  /\ lastIncludedIndex = [i \in Server |-> 0]
  /\ lastIncludedTerm = [i \in Server |-> 0]
  /\ commitIndex = [i \in Server |-> 0]
  /\ nextIndex = [i \in Server |-> [p \in Server |-> 1]]
  /\ matchIndex = [i \in Server |-> [p \in Server |-> 0]]
  /\ persister = [i \in Server |-> Persisted(i, <<>>)]
  /\ electionCalls = [i \in Server |-> {}]
  /\ tally = [i \in Server |-> [e \in 1 .. MaxTerm |-> [term |-> 0, votes |-> {}]]]
  /\ lastApplied = [i \in Server |-> 0]
  /\ snapshotPending = [i \in Server |-> NoPending]
  /\ applier = [i \in Server |-> Idle]
  /\ sm = [i \in Server |-> <<>>]
  /\ readerAt = [i \in Server |-> 0]
  /\ rpcs = {}
  /\ chosen = {}

Handle(m) ==
  \/ RequestVote(m) \/ StepDown(m) \/ CountVote(m)
  \/ AppendEntries(m) \/ HandleAppendReply(m)
  \/ InstallSnapShot(m) \/ HandleSnapshotReply(m)

Next ==
  \/ \E i \in Server :
       \/ Timeout(i) \/ Heartbeat(i) \/ Snapshot(i) \/ Apply(i) \/ Restart(i)
       \/ \E e \in electionCalls[i] : CallElection(i, e)
       \/ \E c \in Command : Start(i, c)
  \/ \E m \in rpcs : Handle(m)

Spec == Init /\ [][Next]_vars

\* What the goroutines are scheduled for: a leader's ticker keeps sending
\* heartbeats, an applier keeps applying, and what a lossless network carries
\* is handled in the end.
Deliver(i, p, k) == \E m \in rpcs : m.from = i /\ m.to = p /\ m.slot = k /\ Handle(m)
Fairness ==
  \A i \in Server :
    /\ WF_vars(Heartbeat(i)) /\ WF_vars(Apply(i))
    /\ \A p \in Server : \A k \in 1 .. MaxInFlight : WF_vars(Deliver(i, p, k))

-----------------------------------------------------------------------------
(* Types.                                                                  *)

VoteCalls ==
  [type : {"VoteCall"}, from : Server, to : Server, slot : Nat, awaited : BOOLEAN,
   election : 1 .. MaxTerm, term : Nat, lastLogIndex : Int, lastLogTerm : Nat]
VoteReplies ==
  [type : {"VoteReply"}, from : Server, to : Server, slot : Nat,
   election : 1 .. MaxTerm, callTerm : Nat, term : Nat, granted : BOOLEAN]
AppendCalls ==
  [type : {"AppendCall"}, from : Server, to : Server, slot : Nat, awaited : BOOLEAN,
   term : Nat, prevLogIndex : Nat, prevLogTerm : Nat, entries : Seq(Entry),
   leaderCommit : Nat]
AppendReplies ==
  [type : {"AppendReply"}, from : Server, to : Server, slot : Nat, callTerm : Nat,
   match : Nat, term : Nat, success : BOOLEAN, conflictIndex : Nat]
SnapshotCalls ==
  [type : {"SnapshotCall"}, from : Server, to : Server, slot : Nat, awaited : BOOLEAN,
   term : Nat, lastIncludedIndex : Nat, lastIncludedTerm : Nat, data : Seq(Command)]
SnapshotReplies ==
  [type : {"SnapshotReply"}, from : Server, to : Server, slot : Nat, callTerm : Nat,
   match : Nat, term : Nat]
RPC == VoteCalls \cup VoteReplies \cup AppendCalls \cup AppendReplies
         \cup SnapshotCalls \cup SnapshotReplies

Logs == Seq(Entry) \ {<<>>}
Vote == Server \cup {None}
Disk == [currentTerm : Nat, votedFor : Vote, log : Logs, lastIncludedIndex : Nat,
         lastIncludedTerm : Nat, snapshot : Seq(Command)]
ApplierStates == {"top", "readSnapshot", "sendSnapshot", "sentSnapshot",
                  "sendCommand", "sentCommand"}
Messages == [pc : ApplierStates, index : Nat, command : Command \cup {None},
             data : Seq(Command)]
Pendings == [valid : BOOLEAN, data : Seq(Command)]

ServerTypes ==
  /\ currentTerm \in [Server -> Nat]
  /\ votedFor \in [Server -> Vote]
  /\ state \in [Server -> {Follower, Candidate, Leader}]
LogTypes ==
  /\ log \in [Server -> Logs]
  /\ lastIncludedIndex \in [Server -> Nat]
  /\ lastIncludedTerm \in [Server -> Nat]
LeaderTypes ==
  /\ nextIndex \in [Server -> [Server -> Nat]]
  /\ matchIndex \in [Server -> [Server -> Nat]]
CommitTypes ==
  /\ commitIndex \in [Server -> Nat]
  /\ chosen \subseteq [index : Nat, entry : Entry]
ElectionTypes ==
  /\ electionCalls \in [Server -> SUBSET (1 .. MaxTerm)]
  /\ tally \in [Server -> [1 .. MaxTerm -> [term : Nat, votes : SUBSET Server]]]
ApplyTypes ==
  /\ lastApplied \in [Server -> Nat]
  /\ snapshotPending \in [Server -> Pendings]
  /\ applier \in [Server -> Messages]
  /\ sm \in [Server -> Seq(Command)]
  /\ readerAt \in [Server -> Nat]
DiskTypes == persister \in [Server -> Disk]
RpcTypes == rpcs \subseteq RPC /\ \A m \in rpcs : m.from # m.to

\* Types of the variables; the log always holds at least its sentinel, and
\* an RPC joins two different servers.
TypeOK ==
  /\ ServerTypes /\ LogTypes /\ LeaderTypes /\ CommitTypes
  /\ ElectionTypes /\ ApplyTypes /\ DiskTypes /\ RpcTypes

-----------------------------------------------------------------------------
(* Safety.                                                                 *)

\* Two servers are never leader of the same term, whatever is lost, delayed
\* or delivered to a restarted voter, and although a callElection goroutine
\* may run in a later term than the one it was spawned in.
ElectionSafety ==
  \A i, j \in Server :
    state[i] = Leader /\ state[j] = Leader /\ currentTerm[i] = currentTerm[j] => i = j

\* Within a term a vote, once given, is never changed or taken back: not by a
\* candidate stepping down, not by a crash after the reply left.
VoteOncePerTerm ==
  [][\A i \in Server :
       currentTerm'[i] = currentTerm[i] /\ votedFor[i] # None
         => votedFor'[i] = votedFor[i]]_vars

\* What a restart would recover is exactly what the server has been telling
\* the others: persist() is called on every path that changes a persisted field.
DiskIsCurrent ==
  \A i \in Server : persister[i] = Persisted(i, persister[i].snapshot)

SameEntry(i, j, x) ==
  /\ TermAt(i, x) = TermAt(j, x)
  /\ x > lastIncludedIndex[i] /\ x > lastIncludedIndex[j] =>
       log[i][x - lastIncludedIndex[i] + 1] = log[j][x - lastIncludedIndex[j] + 1]
Shared(i, j) == {x \in lastIncludedIndex[i] .. LastIndex(i) : HasIndex(j, x)}

\* Two logs that agree on the term of an index agree on every index below it
\* they both still hold, also when either has been compacted.
LogMatching ==
  \A i, j \in Server : \A x \in Shared(i, j) :
    TermAt(i, x) = TermAt(j, x) =>
      \A y \in Shared(i, j) : y <= x => SameEntry(i, j, y)

\* No two different entries are ever committed at one index, and what a
\* server takes for committed is what a leader committed there.
StateMachineSafety ==
  /\ \A c, d \in chosen : c.index = d.index => c = d
  /\ \A i \in Server : \A x \in lastIncludedIndex[i] .. commitIndex[i] : x > 0 =>
       \E c \in chosen :
         /\ c.index = x /\ c.entry.term = TermAt(i, x)
         /\ x > lastIncludedIndex[i] =>
              c.entry = log[i][x - lastIncludedIndex[i] + 1]

\* A leader no server has moved past holds every committed entry.
LeaderCompleteness ==
  \A i \in Server :
    state[i] = Leader /\ (\A j \in Server : currentTerm[j] <= currentTerm[i]) =>
      \A c \in chosen : c.index >= lastIncludedIndex[i] =>
        HasIndex(i, c.index) /\ TermAt(i, c.index) = c.entry.term

\* What the leader believes a peer of its term has acknowledged is in the
\* peer's log, in spite of delayed replies and concurrent calls.
MatchIndexSound ==
  \A i, p \in Server :
    state[i] = Leader /\ i # p /\ currentTerm[p] = currentTerm[i] =>
      /\ matchIndex[i][p] <= LastIndex(p)
      /\ \A x \in Shared(i, p) : x <= matchIndex[i][p] => SameEntry(i, p, x)

\* Every slice expression is in range: a leader can build the call for every
\* peer, a committed entry can be looked up, the applier never falls behind
\* the compacted prefix.
IndexesInRange ==
  \A i \in Server :
    /\ lastIncludedIndex[i] <= commitIndex[i] /\ commitIndex[i] <= LastIndex(i)
    /\ lastIncludedIndex[i] <= lastApplied[i] /\ lastApplied[i] <= commitIndex[i]
    /\ lastIncludedTerm[i] = log[i][1].term
    /\ state[i] = Leader => \A p \in Server \ {i} :
         /\ matchIndex[i][p] <= LastIndex(i)
         /\ 1 <= nextIndex[i][p] /\ nextIndex[i][p] <= LastIndex(i) + 1

\* A leader never drops or rewrites an entry of its own log while it leads.
LeaderAppendOnly ==
  [][\A i \in Server :
       state[i] = Leader /\ state'[i] = Leader /\ currentTerm'[i] = currentTerm[i] =>
         /\ LastIndex(i)' >= LastIndex(i)
         /\ \A x \in lastIncludedIndex'[i] .. LastIndex(i) : TermAt(i, x)' = TermAt(i, x)]_vars

\* Only a restart forgets a commit: the clamp in AppendEntries never lowers
\* commitIndex, because a committed entry is never truncated.
CommitMonotonic ==
  [][\A i \in Server : commitIndex'[i] < commitIndex[i] => Restart(i)]_vars

Executed(i) ==
  \A x \in 1 .. Len(sm[i]) :
    \E c \in chosen : c.index = x /\ c.entry.command = sm[i][x]

\* Between two deliveries, the service has executed exactly the committed
\* commands up to lastApplied: none skipped, none twice, none out of order.
ServiceInStep ==
  \A i \in Server :
    applier[i].pc = "top" /\ ~snapshotPending[i].valid =>
      Len(sm[i]) = lastApplied[i] /\ Executed(i)

\* While one leader leads undisturbed and nothing is compacted away, every
\* entry of its term is in the end executed by every service, from whatever
\* log the follower started with.
CatchUp ==
  \A i, p \in Server : \A x \in 1 .. MaxIndex :
    state[i] = Leader /\ HasIndex(i, x) /\ TermAt(i, x) = currentTerm[i]
      ~> state[i] # Leader \/ Len(sm[p]) >= x
-----------------------------------------------------------------------------
(* What election safety rests on: the inductive invariant of its proof.    *)

\* The terms in which q has given i its vote: the reply is in flight or counted,
\* or q = i stands for election or leads.
TermsVoted(q, i) ==
  {m.callTerm : m \in {r \in rpcs : r.type = "VoteReply" /\ r.granted
                                   /\ r.to = q /\ r.from = i}}
  \cup {tally[i][e].term : e \in {f \in 1 .. MaxTerm : q \in tally[i][f].votes}}
  \cup {currentTerm[j] : j \in {k \in {i} : q = i /\ state[i] # Follower}}

\* A server remembers the vote it has given until its term is over.
VotesRemembered ==
  \A q, i \in Server : \A T \in TermsVoted(q, i) :
    currentTerm[q] >= T /\ (currentTerm[q] = T => votedFor[q] = i)
VotesUnique ==
  \A q, i, j \in Server : TermsVoted(q, i) \cap TermsVoted(q, j) # {} => i = j

\* A leader has been voted in by a majority that some tally still records.
LeadersElected ==
  \A i \in Server : state[i] = Leader =>
    \E e \in 1 .. MaxTerm :
      /\ tally[i][e].term = currentTerm[i] /\ tally[i][e].votes # {}
      /\ Majority(tally[i][e].votes \cup {i})

\* A callElection goroutine asks for votes once, in one term, and counts the
\* replies to that request only.
VoteCallOf(m, i, e) ==
  m.type \in {"VoteCall", "VoteReply"} /\ m.from = i /\ m.election = e
TalliesMatch ==
  \A i \in Server : \A e \in 1 .. MaxTerm :
    /\ e \in electionCalls[i] => e <= currentTerm[i]
    /\ e > currentTerm[i] \/ e \in electionCalls[i] =>
         tally[i][e].votes = {} /\ \A m \in rpcs : ~VoteCallOf(m, i, e)
    /\ \A m \in rpcs : VoteCallOf(m, i, e) =>
         tally[i][e].term = IF m.type = "VoteCall" THEN m.term ELSE m.callTerm

ElectionInv ==
  VotesRemembered /\ VotesUnique /\ LeadersElected /\ TalliesMatch
=============================================================================
