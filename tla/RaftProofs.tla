----------------------------- MODULE RaftProofs -----------------------------
(***************************************************************************)
(* Theorems about Raft, for every set of servers, every set of commands    *)
(* and all bounds: types, what is on disk, the votes, and one leader per   *)
(* term.  RaftLogProofs goes on from here to the logs and the commits.     *)
(***************************************************************************)
EXTENDS Raft, SequenceTheorems, FiniteSetTheorems, TLAPS

-----------------------------------------------------------------------------
(* Types.  First the pieces that many actions share.                       *)

\* What each kind of RPC record is made of.
LEMMA RpcKinds ==
  ASSUME RpcTypes, NEW m \in rpcs
  PROVE  /\ m.from \in Server /\ m.to \in Server /\ m.from # m.to
         /\ m.slot \in Nat /\ m.term \in Nat
         /\ m.type = "VoteCall" => m \in VoteCalls
         /\ m.type = "VoteReply" => m \in VoteReplies
         /\ m.type = "AppendCall" => m \in AppendCalls
         /\ m.type = "AppendReply" => m \in AppendReplies
         /\ m.type = "SnapshotCall" => m \in SnapshotCalls
         /\ m.type = "SnapshotReply" => m \in SnapshotReplies
  BY DEF RpcTypes, RPC, VoteCalls, VoteReplies, AppendCalls, AppendReplies,
         SnapshotCalls, SnapshotReplies

LEMMA SlotIsFree ==
  ASSUME NEW i \in Server, NEW p \in Reachable(i)
  PROVE  p \in Server /\ p # i /\ Slot(i, p) \in Nat
  <1>1. \E k \in FreeSlots(i, p) : TRUE
    BY DEF Reachable
  <1>2. Slot(i, p) \in FreeSlots(i, p)
    BY <1>1 DEF Slot
  <1> QED
    BY <1>2, BoundAssumption DEF FreeSlots, Reachable

LEMMA SendCallsType ==
  ASSUME RpcTypes, NEW calls \in SUBSET RPC, \A m \in calls : m.from # m.to,
         SendCalls(calls)
  PROVE  RpcTypes'
  BY DEF RpcTypes, SendCalls

LEMMA ReturnType ==
  ASSUME RpcTypes, NEW m, NEW r \in RPC, r.from # r.to, Return(m, r)
  PROVE  RpcTypes'
  BY DEF RpcTypes, Return

LEMMA ReceivedType ==
  ASSUME RpcTypes, NEW m, Received(m)
  PROVE  RpcTypes'
  BY DEF RpcTypes, Received

\* What an action leaves alone keeps its type.
LEMMA Frames ==
  /\ ServerTypes /\ UNCHANGED serverVars => ServerTypes'
  /\ LogTypes /\ UNCHANGED logVars => LogTypes'
  /\ LeaderTypes /\ UNCHANGED leaderVars => LeaderTypes'
  /\ CommitTypes /\ UNCHANGED commitVars => CommitTypes'
  /\ ElectionTypes /\ UNCHANGED electionVars => ElectionTypes'
  /\ ApplyTypes /\ UNCHANGED applyVars => ApplyTypes'
  /\ DiskTypes /\ UNCHANGED persister => DiskTypes'
  /\ RpcTypes /\ UNCHANGED rpcs => RpcTypes'
  BY DEF ServerTypes, serverVars, LogTypes, logVars, LeaderTypes, leaderVars,
         CommitTypes, commitVars, ElectionTypes, electionVars, ApplyTypes,
         applyVars, DiskTypes, RpcTypes

LEMMA PersistType ==
  ASSUME DiskTypes, ServerTypes', LogTypes', NEW i \in Server,
         NEW snapshot \in Seq(Command), Persist(i, snapshot)
  PROVE  DiskTypes'
  BY DEF DiskTypes, ServerTypes, LogTypes, Persist, Disk

LEMMA PersistIfType ==
  ASSUME DiskTypes, ServerTypes', LogTypes', NEW i \in Server, NEW called,
         PersistIf(called, i)
  PROVE  DiskTypes'
  <1>1. persister[i].snapshot \in Seq(Command)
    BY DEF DiskTypes, Disk
  <1>2. CASE called
    BY <1>1, <1>2, PersistType DEF PersistIf
  <1>3. CASE ~called
    BY <1>3 DEF PersistIf, DiskTypes
  <1> QED
    BY <1>2, <1>3

LEMMA AdoptTermType ==
  ASSUME ServerTypes, NEW i \in Server, NEW term \in Nat, AdoptTerm(i, term)
  PROVE  ServerTypes'
  BY DEF ServerTypes, AdoptTerm, Vote

LEMMA FollowTermType ==
  ASSUME ServerTypes, NEW i \in Server, NEW term \in Nat, FollowTerm(i, term)
  PROVE  ServerTypes'
  BY AdoptTermType DEF ServerTypes, FollowTerm

LEMMA LogFacts ==
  ASSUME LogTypes, NEW i \in Server
  PROVE  /\ log[i] \in Seq(Entry) /\ Len(log[i]) \in Nat \ {0}
         /\ lastIncludedIndex[i] \in Nat
         /\ \A k \in 1 .. Len(log[i]) : log[i][k] \in Entry /\ log[i][k].term \in Nat
  <1>1. /\ log[i] \in Seq(Entry) /\ log[i] # <<>>
        /\ lastIncludedIndex[i] \in Nat
    BY DEF LogTypes, Logs
  <1>2. Len(log[i]) \in Nat \ {0}
    BY <1>1, EmptySeq
  <1>3. \A k \in 1 .. Len(log[i]) : log[i][k] \in Entry
    BY <1>1, ElementOfSeq
  <1> QED
    BY <1>1, <1>2, <1>3 DEF Entry

LEMMA TermAtType ==
  ASSUME LogTypes, NEW i \in Server, NEW x, HasIndex(i, x)
  PROVE  /\ x \in Nat /\ x - lastIncludedIndex[i] + 1 \in 1 .. Len(log[i])
         /\ log[i][x - lastIncludedIndex[i] + 1] \in Entry
         /\ TermAt(i, x) \in Nat
  <1>1. /\ x \in Nat /\ x - lastIncludedIndex[i] + 1 \in 1 .. Len(log[i])
    BY LogFacts DEF HasIndex, LastIndex
  <1> QED
    BY <1>1, LogFacts DEF TermAt

LEMMA LastTermType ==
  ASSUME LogTypes, NEW i \in Server
  PROVE  /\ LastIndex(i) \in Nat /\ HasIndex(i, LastIndex(i))
         /\ TermAt(i, LastIndex(i)) \in Nat
  <1>1. LastIndex(i) \in Nat /\ HasIndex(i, LastIndex(i))
    BY LogFacts DEF LastIndex, HasIndex
  <1> QED
    BY <1>1, TermAtType

-----------------------------------------------------------------------------
(* TypeOK is preserved by every action: elections.                         *)

LEMMA TimeoutType ==
  ASSUME TypeOK, NEW i \in Server, Timeout(i)
  PROVE  TypeOK'
  <1> USE DEF TypeOK
  <1>1. currentTerm[i] \in Nat /\ currentTerm[i] < MaxTerm /\ currentTerm \in [Server -> Nat]
    BY DEF Timeout, ServerTypes
  <1>2. currentTerm' \in [Server -> Nat] /\ currentTerm'[i] = currentTerm[i] + 1
    BY <1>1 DEF Timeout
  <1>3. ServerTypes'
    BY <1>2 DEF ServerTypes, Timeout, Vote
  <1>4. currentTerm'[i] \in 1 .. MaxTerm
    BY <1>1, <1>2, BoundAssumption
  <1>5. ElectionTypes'
    BY <1>4 DEF ElectionTypes, Timeout
  <1>6. LogTypes' /\ LeaderTypes' /\ CommitTypes' /\ ApplyTypes' /\ RpcTypes'
    BY Frames DEF Timeout
  <1>7. DiskTypes'
    <2>1. persister[i].snapshot \in Seq(Command)
      BY DEF DiskTypes, Disk
    <2> QED
      BY <2>1, <1>3, <1>6, PersistType DEF Timeout
  <1> QED
    BY <1>3, <1>5, <1>6, <1>7

LEMMA CallElectionType ==
  ASSUME TypeOK, NEW i \in Server, NEW e \in electionCalls[i], CallElection(i, e)
  PROVE  TypeOK'
  <1> USE DEF TypeOK
  <1>1. e \in 1 .. MaxTerm
    BY DEF ElectionTypes
  <1>2. currentTerm[i] \in Nat
    BY DEF ServerTypes
  <1>3. ElectionTypes'
    <2>1. electionCalls' \in [Server -> SUBSET (1 .. MaxTerm)]
      BY DEF ElectionTypes, CallElection
    <2>2. [term |-> currentTerm[i], votes |-> {}] \in [term : Nat, votes : SUBSET Server]
      BY <1>2
    <2>3. tally' \in [Server -> [1 .. MaxTerm -> [term : Nat, votes : SUBSET Server]]]
      BY <1>1, <2>2 DEF ElectionTypes, CallElection
    <2> QED
      BY <2>1, <2>3 DEF ElectionTypes
  <1>4. RpcTypes'
    <2> DEFINE calls == {VoteCall(i, p, e) : p \in Reachable(i)}
    <2>1. ASSUME NEW p \in Reachable(i)
          PROVE  VoteCall(i, p, e) \in VoteCalls /\ p # i
      BY <1>1, <1>2, <2>1, SlotIsFree, LastTermType DEF VoteCall, VoteCalls
    <2>2. calls \in SUBSET RPC
      BY <2>1 DEF RPC
    <2>3. \A m \in calls : m.from # m.to
      BY <2>1 DEF VoteCall
    <2>4. SendCalls(calls)
      BY DEF CallElection
    <2> QED
      BY <2>2, <2>3, <2>4, SendCallsType
  <1> QED
    BY <1>3, <1>4, Frames DEF CallElection

LEMMA RequestVoteType ==
  ASSUME TypeOK, NEW m \in rpcs, RequestVote(m)
  PROVE  TypeOK'
  <1> DEFINE i == m.to
  <1> USE DEF TypeOK
  <1>1. /\ m \in VoteCalls /\ i \in Server /\ m.from \in Server /\ m.term \in Nat
        /\ m.from # i
    BY RpcKinds DEF RequestVote
  <1>2. ServerTypes'
    BY <1>1 DEF ServerTypes, RequestVote, Vote
  <1>3. LogTypes' /\ LeaderTypes' /\ CommitTypes' /\ ElectionTypes' /\ ApplyTypes'
    BY Frames DEF RequestVote
  <1>4. DiskTypes'
    <2>1. PICK called : PersistIf(called, i)
      BY DEF RequestVote
    <2> QED
      BY <1>1, <1>2, <1>3, <2>1, PersistIfType
  <1>5. RpcTypes'
    <2>1. PICK granted \in BOOLEAN : Return(m, VoteReply(m, currentTerm'[i], granted))
      BY DEF RequestVote, MayVote
    <2>2. currentTerm'[i] \in Nat
      BY <1>1, <1>2 DEF ServerTypes
    <2>3. VoteReply(m, currentTerm'[i], granted) \in VoteReplies
      BY <1>1, <2>2 DEF VoteReply, VoteReplies, VoteCalls
    <2> QED
      BY <1>1, <2>1, <2>3, ReturnType DEF RPC, VoteReply
  <1> QED
    BY <1>2, <1>3, <1>4, <1>5

LEMMA StepDownType ==
  ASSUME TypeOK, NEW m \in rpcs, StepDown(m)
  PROVE  TypeOK'
  <1> DEFINE i == m.from
  <1> USE DEF TypeOK
  <1>1. i \in Server /\ m.term \in Nat
    BY RpcKinds
  <1>2. ServerTypes'
    BY <1>1, AdoptTermType DEF StepDown
  <1>3. LogTypes' /\ LeaderTypes' /\ CommitTypes' /\ ElectionTypes' /\ ApplyTypes'
    BY Frames DEF StepDown
  <1>4. DiskTypes'
    BY <1>1, <1>2, <1>3, PersistIfType DEF StepDown
  <1>5. RpcTypes'
    BY ReceivedType DEF StepDown
  <1> QED
    BY <1>2, <1>3, <1>4, <1>5

LEMMA ConvertToLeaderType ==
  ASSUME ServerTypes, LogTypes, LeaderTypes, NEW i \in Server, ConvertToLeader(i),
         UNCHANGED <<currentTerm, votedFor>>
  PROVE  ServerTypes' /\ LeaderTypes'
  <1>1. LastIndex(i) + 1 \in Nat
    BY LastTermType
  <1>2. [p \in Server |-> LastIndex(i) + 1] \in [Server -> Nat]
    BY <1>1
  <1>3. LeaderTypes'
    BY <1>2 DEF LeaderTypes, ConvertToLeader
  <1> QED
    BY <1>3 DEF ServerTypes, ConvertToLeader

LEMMA CountVoteType ==
  ASSUME TypeOK, NEW m \in rpcs, CountVote(m)
  PROVE  TypeOK'
  <1> DEFINE i == m.from
             votes == tally[i][m.election].votes \cup {m.to}
  <1> USE DEF TypeOK
  <1>1. m \in VoteReplies /\ i \in Server /\ m.to \in Server /\ m.election \in 1 .. MaxTerm
    BY RpcKinds DEF CountVote, VoteReplies
  <1>2. RpcTypes'
    BY ReceivedType DEF CountVote
  <1>3. ElectionTypes'
    <2> DEFINE T == [term : Nat, votes : SUBSET Server]
               new == [tally[i][m.election] EXCEPT !.votes = votes]
               row == [tally[i] EXCEPT ![m.election] = new]
    <2>1. /\ tally \in [Server -> [1 .. MaxTerm -> T]]
          /\ tally[i] \in [1 .. MaxTerm -> T] /\ tally[i][m.election] \in T
      BY <1>1 DEF ElectionTypes
    <2>2. new \in T
      BY <1>1, <2>1
    <2>3. row \in [1 .. MaxTerm -> T]
      <3> HIDE DEF T, new
      <3> QED
        BY <1>1, <2>1, <2>2
    <2>4. tally' = [tally EXCEPT ![i] = row] \/ UNCHANGED tally
      BY DEF CountVote
    <2>5. tally' \in [Server -> [1 .. MaxTerm -> T]]
      <3> HIDE DEF T, row
      <3> QED
        BY <1>1, <2>1, <2>3, <2>4
    <2> QED
      BY <2>5 DEF ElectionTypes, CountVote
  <1>4. ServerTypes' /\ LeaderTypes'
    <2>1. ConvertToLeader(i) \/ UNCHANGED <<state, leaderVars>>
      BY DEF CountVote
    <2>2. UNCHANGED <<currentTerm, votedFor>>
      BY DEF CountVote
    <2>3. CASE ConvertToLeader(i)
      BY <1>1, <2>2, <2>3, ConvertToLeaderType
    <2>4. CASE UNCHANGED <<state, leaderVars>>
      BY <2>2, <2>4, Frames DEF serverVars
    <2> QED
      BY <2>1, <2>3, <2>4
  <1> QED
    BY <1>2, <1>3, <1>4, Frames DEF CountVote

-----------------------------------------------------------------------------
(* Replication.                                                            *)

\* A call from index n of a log that starts at l: the slices are in range.
LEMMA SliceType ==
  ASSUME NEW entries \in Logs, NEW n \in Nat, NEW l \in Nat,
         n > l, n <= l + Len(entries)
  PROVE  /\ entries[n - 1 - l + 1].term \in Nat
         /\ SubSeq(entries, n - 1 - l + 2, Len(entries)) \in Seq(Entry)
         /\ n - 1 \in Nat
  <1>1. entries \in Seq(Entry)
    BY DEF Logs
  <1>2. Len(entries) \in Nat /\ \A k \in 1 .. Len(entries) : entries[k] \in Entry
    BY <1>1, ElementOfSeq, LenProperties
  <1>3. n - 1 - l + 1 \in 1 .. Len(entries) /\ n - 1 - l + 2 \in 1 .. Len(entries) + 1
    BY <1>2
  <1>4. entries[n - 1 - l + 1].term \in Nat
    BY <1>2, <1>3 DEF Entry
  <1>5. SubSeq(entries, n - 1 - l + 2, Len(entries)) \in Seq(Entry)
    <2> DEFINE first == n - 1 - l + 2
    <2>1. first \in Int /\ Len(entries) \in Int
      BY <1>2
    <2>2. \A k \in first .. Len(entries) : entries[k] \in Entry
      BY <1>2, <1>3
    <2> HIDE DEF first
    <2>3. SubSeq(entries, first, Len(entries)) \in Seq(Entry)
      BY <2>1, <2>2, SubSeqProperties
    <2> QED
      BY <2>3 DEF first
  <1> QED
    BY <1>4, <1>5

LEMMA AppendCallType ==
  ASSUME ServerTypes, LeaderTypes, LogTypes, CommitTypes,
         NEW i \in Server, NEW p \in Reachable(i), NEW entries \in Logs,
         nextIndex[i][p] > lastIncludedIndex[i],
         nextIndex[i][p] <= lastIncludedIndex[i] + Len(entries)
  PROVE  AppendCall(i, p, entries) \in AppendCalls
  <1>1. /\ p \in Server /\ Slot(i, p) \in Nat
        /\ currentTerm[i] \in Nat /\ commitIndex[i] \in Nat
        /\ nextIndex[i][p] \in Nat /\ lastIncludedIndex[i] \in Nat
    BY SlotIsFree DEF ServerTypes, CommitTypes, LeaderTypes, LogTypes
  <1>2. /\ entries[nextIndex[i][p] - 1 - lastIncludedIndex[i] + 1].term \in Nat
        /\ SubSeq(entries, nextIndex[i][p] - 1 - lastIncludedIndex[i] + 2, Len(entries))
              \in Seq(Entry)
        /\ nextIndex[i][p] - 1 \in Nat
    BY <1>1, SliceType
  <1> QED
    BY <1>1, <1>2 DEF AppendCall, AppendCalls

LEMMA SnapshotCallType ==
  ASSUME ServerTypes, LogTypes, DiskTypes, NEW i \in Server, NEW p \in Reachable(i)
  PROVE  SnapshotCall(i, p) \in SnapshotCalls
  <1>1. /\ p \in Server /\ Slot(i, p) \in Nat /\ currentTerm[i] \in Nat
        /\ lastIncludedIndex[i] \in Nat /\ lastIncludedTerm[i] \in Nat
        /\ persister[i].snapshot \in Seq(Command)
    BY SlotIsFree DEF ServerTypes, LogTypes, DiskTypes, Disk
  <1> QED
    BY <1>1 DEF SnapshotCall, SnapshotCalls

LEMMA BroadcastType ==
  ASSUME TypeOK, NEW i \in Server, NEW entries \in Logs, Broadcast(i, entries)
  PROVE  RpcTypes'
  <1> DEFINE call(p) == IF nextIndex[i][p] <= lastIncludedIndex[i]
                        THEN SnapshotCall(i, p) ELSE AppendCall(i, p, entries)
             calls == {call(p) : p \in Reachable(i)}
  <1> USE DEF TypeOK
  <1>1. ASSUME NEW p \in Reachable(i)
        PROVE  call(p) \in RPC /\ call(p).from # call(p).to
    <2>1. p \in Server /\ p # i
      BY SlotIsFree
    <2>2. /\ nextIndex[i][p] \in Nat /\ lastIncludedIndex[i] \in Nat
          /\ nextIndex[i][p] <= lastIncludedIndex[i] + Len(entries)
      BY <2>1 DEF Broadcast, LeaderTypes, LogTypes
    <2>3. CASE nextIndex[i][p] <= lastIncludedIndex[i]
      BY <2>1, <2>3, SnapshotCallType DEF RPC, SnapshotCall
    <2>4. CASE ~(nextIndex[i][p] <= lastIncludedIndex[i])
      <3>1. AppendCall(i, p, entries) \in AppendCalls
        BY <2>2, <2>4, AppendCallType
      <3> QED
        BY <2>1, <2>4, <3>1 DEF RPC, AppendCall
    <2> QED
      BY <2>3, <2>4
  <1>2. calls \in SUBSET RPC /\ \A m \in calls : m.from # m.to
    BY <1>1
  <1>3. SendCalls(calls)
    BY DEF Broadcast
  <1> QED
    BY <1>2, <1>3, SendCallsType

LEMMA HeartbeatType ==
  ASSUME TypeOK, NEW i \in Server, Heartbeat(i)
  PROVE  TypeOK'
  <1> USE DEF TypeOK
  <1>1. log[i] \in Logs
    BY DEF LogTypes
  <1>2. RpcTypes'
    BY <1>1, BroadcastType DEF Heartbeat
  <1> QED
    BY <1>2, Frames DEF Heartbeat

LEMMA StartType ==
  ASSUME TypeOK, NEW i \in Server, NEW c \in Command, Start(i, c)
  PROVE  TypeOK'
  <1> USE DEF TypeOK
  <1> DEFINE new == [term |-> currentTerm[i], command |-> c]
  <1>1. new \in Entry
    BY DEF ServerTypes, Entry
  <1>2. Append(log[i], new) \in Logs
    <2>1. log[i] \in Seq(Entry) /\ Len(Append(log[i], new)) = Len(log[i]) + 1
      BY <1>1, LogFacts
    <2>2. Append(log[i], new) \in Seq(Entry) /\ Append(log[i], new) # <<>>
      BY <1>1, <2>1, LogFacts, EmptySeq
    <2> QED
      BY <2>2 DEF Logs
  <1>3. LogTypes' /\ log'[i] = Append(log[i], new)
    BY <1>2 DEF LogTypes, Start
  <1>4. RpcTypes'
    BY <1>2, <1>3, BroadcastType DEF Start
  <1>5. ServerTypes' /\ LeaderTypes' /\ CommitTypes' /\ ElectionTypes' /\ ApplyTypes'
    BY Frames DEF Start
  <1>6. DiskTypes'
    BY <1>3, <1>5, PersistIfType DEF Start
  <1> QED
    BY <1>3, <1>4, <1>5, <1>6

\* Lemmas on logs: what AcceptAppend, Snapshot and InstallSnapShot leave of one.
LEMMA SuffixType ==
  ASSUME LogTypes, NEW i \in Server, NEW x, HasIndex(i, x)
  PROVE  SubSeq(log[i], x - lastIncludedIndex[i] + 1, Len(log[i])) \in Logs
  <1> DEFINE first == x - lastIncludedIndex[i] + 1
  <1>1. first \in 1 .. Len(log[i]) /\ log[i] \in Seq(Entry) /\ Len(log[i]) \in Nat
    BY TermAtType, LogFacts
  <1>2. \A k \in first .. Len(log[i]) : log[i][k] \in Entry
    BY <1>1, LogFacts
  <1> HIDE DEF first
  <1>3. /\ SubSeq(log[i], first, Len(log[i])) \in Seq(Entry)
        /\ Len(SubSeq(log[i], first, Len(log[i]))) = Len(log[i]) - first + 1
    <2>1. first \in Int /\ Len(log[i]) \in Int /\ first <= Len(log[i])
      BY <1>1
    <2> QED
      BY <1>2, <2>1, SubSeqProperties
  <1>4. SubSeq(log[i], first, Len(log[i])) # <<>>
    <2>1. Len(SubSeq(log[i], first, Len(log[i]))) # 0
      BY <1>1, <1>3
    <2>2. Len(<<>>) = 0
      BY EmptySeq
    <2> QED
      BY <2>1, <2>2
  <1> QED
    BY <1>3, <1>4 DEF Logs, first

LEMMA PrefixType ==
  ASSUME LogTypes, NEW i \in Server, NEW n \in 1 .. Len(log[i])
  PROVE  SubSeq(log[i], 1, n) \in Seq(Entry) /\ Len(SubSeq(log[i], 1, n)) = n
  <1>1. n \in Int /\ 1 \in Int /\ 1 <= n /\ n - 1 + 1 = n
    BY LogFacts
  <1>2. \A k \in 1 .. n : log[i][k] \in Entry
    BY <1>1, LogFacts
  <1> QED
    BY <1>1, <1>2, SubSeqProperties

LEMMA AppendReplyType ==
  ASSUME RpcTypes, NEW m \in rpcs, m.type = "AppendCall", NEW term \in Nat,
         NEW success \in BOOLEAN, NEW x \in Nat
  PROVE  /\ AppendReply(m, term, success, x) \in RPC
         /\ AppendReply(m, term, success, x).from # AppendReply(m, term, success, x).to
  <1>1. m \in AppendCalls /\ m.from # m.to
    BY RpcKinds
  <1>2. m.prevLogIndex \in Nat /\ Len(m.entries) \in Nat
    BY <1>1, LenProperties DEF AppendCalls
  <1>3. AppendReply(m, term, success, x) \in AppendReplies
    BY <1>1, <1>2 DEF AppendReply, AppendReplies, AppendCalls
  <1> QED
    BY <1>1, <1>3 DEF RPC, AppendReply

LEMMA RefuseStaleType ==
  ASSUME TypeOK, NEW m \in rpcs, m.type = "AppendCall", RefuseStaleAppend(m)
  PROVE  ServerTypes' /\ LogTypes' /\ commitIndex' = commitIndex /\ DiskTypes' /\ RpcTypes'
  <1> USE DEF TypeOK
  <1>1. currentTerm[m.to] \in Nat
    BY RpcKinds DEF ServerTypes
  <1>2. RpcTypes'
    BY <1>1, AppendReplyType, ReturnType DEF RefuseStaleAppend
  <1> QED
    BY <1>2, Frames DEF RefuseStaleAppend

LEMMA RefuseMismatchType ==
  ASSUME TypeOK, NEW m \in rpcs, m.type = "AppendCall", RefuseMismatch(m)
  PROVE  ServerTypes' /\ LogTypes' /\ commitIndex' = commitIndex /\ DiskTypes' /\ RpcTypes'
  <1> DEFINE i == m.to
  <1> USE DEF TypeOK
  <1>1. i \in Server /\ m.term \in Nat /\ m \in AppendCalls
    BY RpcKinds
  <1>2. ServerTypes' /\ LogTypes'
    BY <1>1, FollowTermType, Frames DEF RefuseMismatch
  <1>3. DiskTypes'
    BY <1>1, <1>2, PersistIfType DEF RefuseMismatch
  <1>4. /\ currentTerm[i] \in Nat /\ lastIncludedIndex[i] \in Nat
        /\ LastIndex(i) \in Nat /\ m.prevLogIndex \in Nat
    BY <1>1, LastTermType DEF ServerTypes, LogTypes, AppendCalls
  <1>5. PICK x \in Nat : Return(m, AppendReply(m, currentTerm[i], FALSE, x))
    <2>1. CASE Return(m, AppendReply(m, currentTerm[i], FALSE, lastIncludedIndex[i] + 1))
      <3>1. lastIncludedIndex[i] + 1 \in Nat
        BY <1>4
      <3> QED
        BY <2>1, <3>1
    <2>2. CASE \E x \in ConflictIndexes(i, m.prevLogIndex) :
                 Return(m, AppendReply(m, currentTerm[i], FALSE, x))
      <3>1. ConflictIndexes(i, m.prevLogIndex) \subseteq Nat
        BY <1>4 DEF ConflictIndexes
      <3> QED
        BY <2>2, <3>1
    <2> QED
      BY <2>1, <2>2 DEF RefuseMismatch
  <1>6. RpcTypes'
    BY <1>4, <1>5, AppendReplyType, ReturnType
  <1> QED
    BY <1>2, <1>3, <1>6 DEF RefuseMismatch

LEMMA AcceptAppendType ==
  ASSUME TypeOK, NEW m \in rpcs, m.type = "AppendCall", AcceptAppend(m)
  PROVE  ServerTypes' /\ LogTypes' /\ commitIndex' \in [Server -> Nat] /\ DiskTypes' /\ RpcTypes'
  <1> DEFINE i == m.to
             base == lastIncludedIndex[i]
             n(k) == m.prevLogIndex + k - base + 1
             kept(k) == SubSeq(log[i], 1, n(k))
             newLog(k) == IF Truncates(m, k)
                          THEN kept(k) \o SubSeq(m.entries, k + 1, Len(m.entries))
                          ELSE log[i]
             last(k) == base + Len(newLog(k)) - 1
  <1> USE DEF TypeOK
  <1>1. i \in Server /\ m.term \in Nat /\ m \in AppendCalls
    BY RpcKinds
  <1>2. /\ m.prevLogIndex \in Nat /\ m.entries \in Seq(Entry) /\ m.leaderCommit \in Nat
        /\ Len(m.entries) \in Nat /\ base \in Nat /\ LastIndex(i) = base + Len(log[i]) - 1
        /\ commitIndex[i] \in Nat /\ currentTerm[i] \in Nat /\ Len(log[i]) \in Nat \ {0}
    BY <1>1, LenProperties, LogFacts DEF AppendCalls, LastIndex, CommitTypes, ServerTypes
  <1>3. ServerTypes'
    BY <1>1, FollowTermType DEF AcceptAppend
  <1>4. PICK k \in 0 .. Len(m.entries) :
          /\ Held(i, m, k)
          /\ log' = [log EXCEPT ![i] = newLog(k)]
          /\ commitIndex' =
               [commitIndex EXCEPT ![i] = FollowCommit(i, m.leaderCommit, last(k))]
          /\ UNCHANGED <<lastIncludedIndex, lastIncludedTerm>>
          /\ PersistIf(Truncates(m, k) \/ FollowTermPersists(i, m.term), i)
    BY DEF AcceptAppend
  <1>5. m.prevLogIndex \in base .. LastIndex(i)
    BY DEF AcceptAppend, Matches, HasIndex
  <1>6. n(k) \in 1 .. Len(log[i])
    <2>1. k \in Nat /\ (k = 0 \/ k \in 1 .. k)
      BY <1>2, <1>4
    <2>2. k = 0 \/ m.prevLogIndex + k <= LastIndex(i)
      BY <1>4, <2>1 DEF Held
    <2>3. m.prevLogIndex + k >= base /\ m.prevLogIndex + k <= base + Len(log[i]) - 1
      BY <1>2, <1>5, <2>1, <2>2
    <2>4. /\ m.prevLogIndex \in Nat /\ base \in Nat /\ Len(log[i]) \in Nat
      BY <1>2
    <2>5. \A a, b, c, d \in Nat :
            a + b >= c /\ a + b <= c + d - 1 => a + b - c + 1 \in 1 .. d
      OBVIOUS
    <2> QED
      BY <2>1, <2>3, <2>4, <2>5
  <1>7. newLog(k) \in Logs
    <2>1. kept(k) \in Seq(Entry) /\ Len(kept(k)) = n(k)
      BY <1>1, <1>6, PrefixType
    <2>2. SubSeq(m.entries, k + 1, Len(m.entries)) \in Seq(Entry)
      <3>1. k + 1 \in Int /\ Len(m.entries) \in Int
        BY <1>2
      <3>2. \A j \in k + 1 .. Len(m.entries) : m.entries[j] \in Entry
        BY <1>2, ElementOfSeq
      <3> QED
        BY <3>1, <3>2, SubSeqProperties
    <2>3. /\ kept(k) \o SubSeq(m.entries, k + 1, Len(m.entries)) \in Seq(Entry)
          /\ Len(kept(k) \o SubSeq(m.entries, k + 1, Len(m.entries)))
               = Len(kept(k)) + Len(SubSeq(m.entries, k + 1, Len(m.entries)))
      BY <2>1, <2>2, ConcatProperties
    <2>4. Len(SubSeq(m.entries, k + 1, Len(m.entries))) \in Nat
      BY <2>2, LenProperties
    <2>5. kept(k) \o SubSeq(m.entries, k + 1, Len(m.entries)) # <<>>
      BY <1>6, <2>1, <2>3, <2>4, EmptySeq
    <2>6. log[i] \in Logs
      BY <1>1 DEF LogTypes
    <2> QED
      BY <2>3, <2>5, <2>6 DEF Logs
  <1>8. LogTypes'
    <2> HIDE DEF newLog
    <2> QED
      BY <1>1, <1>4, <1>7 DEF LogTypes
  <1>9. commitIndex' \in [Server -> Nat]
    <2>1. Len(newLog(k)) \in Nat \ {0}
      BY <1>7, EmptySeq DEF Logs
    <2>2. last(k) \in Nat
      <3> HIDE DEF newLog
      <3> QED
        BY <1>2, <2>1
    <2> HIDE DEF last
    <2>3. FollowCommit(i, m.leaderCommit, last(k)) \in Nat
      BY <1>2, <2>2 DEF FollowCommit
    <2> QED
      BY <1>1, <1>4, <2>3 DEF CommitTypes
  <1>10. DiskTypes'
    BY <1>1, <1>3, <1>4, <1>8, PersistIfType
  <1>11. RpcTypes'
    <2>1. Return(m, AppendReply(m, currentTerm[i], TRUE, 0))
      BY DEF AcceptAppend
    <2> QED
      BY <1>2, <2>1, AppendReplyType, ReturnType
  <1> QED
    BY <1>3, <1>8, <1>9, <1>10, <1>11

LEMMA AppendEntriesType ==
  ASSUME TypeOK, NEW m \in rpcs, AppendEntries(m)
  PROVE  TypeOK'
  <1> USE DEF TypeOK
  <1>1. ServerTypes' /\ LogTypes' /\ commitIndex' \in [Server -> Nat] /\ DiskTypes' /\ RpcTypes'
    <2>1. m.type = "AppendCall" /\ commitIndex \in [Server -> Nat]
      BY DEF AppendEntries, CommitTypes
    <2> QED
      BY <2>1, RefuseStaleType, RefuseMismatchType, AcceptAppendType DEF AppendEntries
  <1>2. CommitTypes'
    BY <1>1 DEF CommitTypes, AppendEntries
  <1> QED
    BY <1>1, <1>2, Frames DEF AppendEntries

LEMMA UpdateCommitType ==
  ASSUME LogTypes, LeaderTypes', CommitTypes, NEW i \in Server, UpdateCommitIndex(i)
  PROVE  CommitTypes'
  <1> DEFINE match == [matchIndex'[i] EXCEPT ![i] = LastIndex(i)]
             added(n) == {[index |-> x, entry |-> log[i][x - lastIncludedIndex[i] + 1]] :
                            x \in {y \in lastIncludedIndex[i] + 1 .. n : y > commitIndex[i]}}
  <1>1. LastIndex(i) \in Nat /\ match \in [Server -> Nat]
    BY LastTermType DEF LeaderTypes
  <1>2. PICK n \in {match[p] : p \in Server} :
          /\ n > commitIndex[i] => HasIndex(i, n)
          /\ IF Committable(i, n)
             THEN /\ commitIndex' = [commitIndex EXCEPT ![i] = n]
                  /\ chosen' = chosen \cup added(n)
             ELSE UNCHANGED commitVars
    BY DEF UpdateCommitIndex
  <1>3. n \in Nat
    <2> HIDE DEF match
    <2> QED
      BY <1>1, <1>2
  <1>4. CASE Committable(i, n)
    <2>1. HasIndex(i, n) /\ commitIndex' \in [Server -> Nat]
      BY <1>2, <1>3, <1>4 DEF Committable, CommitTypes
    <2>2. ASSUME NEW x \in lastIncludedIndex[i] + 1 .. n
          PROVE  x \in Nat /\ log[i][x - lastIncludedIndex[i] + 1] \in Entry
      <3>1. lastIncludedIndex[i] \in Nat
        BY LogFacts
      <3>2. HasIndex(i, x)
        BY <1>1, <1>3, <2>1, <3>1 DEF HasIndex
      <3> QED
        BY <3>2, TermAtType
    <2>3. added(n) \subseteq [index : Nat, entry : Entry]
      BY <2>2
    <2> HIDE DEF added
    <2> QED
      BY <1>2, <1>4, <2>1, <2>3 DEF CommitTypes
  <1>5. CASE ~Committable(i, n)
    BY <1>2, <1>5, Frames
  <1> QED
    BY <1>4, <1>5

LEMMA HandleAppendReplyType ==
  ASSUME TypeOK, NEW m \in rpcs, HandleAppendReply(m)
  PROVE  TypeOK'
  <1> DEFINE i == m.from  p == m.to
  <1> USE DEF TypeOK
  <1>1. /\ i \in Server /\ p \in Server /\ m \in AppendReplies
        /\ m.match \in Nat /\ m.match + 1 \in Nat /\ m.conflictIndex \in Nat
    BY RpcKinds DEF HandleAppendReply, AppendReplies
  <1>2. /\ nextIndex \in [Server -> [Server -> Nat]] /\ matchIndex \in [Server -> [Server -> Nat]]
    BY DEF LeaderTypes
  <1>3. LeaderTypes' /\ CommitTypes'
    <2>1. CASE /\ matchIndex' = [matchIndex EXCEPT ![i][p] = IF m.match > @ THEN m.match ELSE @]
               /\ nextIndex' = [nextIndex EXCEPT ![i][p] = IF m.match + 1 > @ THEN m.match + 1 ELSE @]
               /\ UpdateCommitIndex(i)
      <3>1. LeaderTypes'
        BY <1>1, <1>2, <2>1 DEF LeaderTypes
      <3> QED
        BY <1>1, <2>1, <3>1, UpdateCommitType
    <2>2. CASE /\ nextIndex' = [nextIndex EXCEPT ![i][p] =
                                  IF m.conflictIndex > 0 /\ m.conflictIndex < @
                                  THEN m.conflictIndex ELSE @]
               /\ UNCHANGED <<matchIndex, commitVars>>
      <3>1. LeaderTypes'
        BY <1>1, <1>2, <2>2 DEF LeaderTypes
      <3> QED
        BY <2>2, <3>1, Frames
    <2>3. CASE UNCHANGED <<leaderVars, commitVars>>
      BY <2>3, Frames
    <2> QED
      BY <2>1, <2>2, <2>3 DEF HandleAppendReply
  <1>4. RpcTypes'
    BY ReceivedType DEF HandleAppendReply
  <1> QED
    BY <1>3, <1>4, Frames DEF HandleAppendReply

-----------------------------------------------------------------------------
(* Snapshots.                                                              *)

LEMMA SnapshotType ==
  ASSUME TypeOK, NEW i \in Server, Snapshot(i)
  PROVE  TypeOK'
  <1> DEFINE x == readerAt[i]
  <1> USE DEF TypeOK
  <1>1. /\ x \in Nat /\ lastIncludedIndex[i] \in Nat /\ LastIndex(i) \in Nat
        /\ sm[i] \in Seq(Command)
    BY LastTermType DEF ApplyTypes, LogTypes
  <1>2. HasIndex(i, x)
    BY <1>1 DEF Snapshot, HasIndex
  <1>3. /\ TermAt(i, x) \in Nat
        /\ SubSeq(log[i], x - lastIncludedIndex[i] + 1, Len(log[i])) \in Logs
    BY <1>2, TermAtType, SuffixType
  <1>4. LogTypes'
    BY <1>1, <1>3 DEF Snapshot, LogTypes
  <1>5. ServerTypes' /\ LeaderTypes' /\ CommitTypes' /\ ElectionTypes' /\ RpcTypes'
    BY Frames DEF Snapshot
  <1>6. ApplyTypes'
    BY DEF ApplyTypes, Snapshot
  <1>7. DiskTypes'
    BY <1>1, <1>4, <1>5, PersistType DEF Snapshot
  <1> QED
    BY <1>4, <1>5, <1>6, <1>7

LEMMA IgnoreSnapshotType ==
  ASSUME TypeOK, NEW m \in rpcs, m.type = "SnapshotCall", IgnoreSnapshot(m)
  PROVE  /\ ServerTypes' /\ LogTypes' /\ DiskTypes' /\ commitIndex' = commitIndex
         /\ UNCHANGED <<lastApplied, snapshotPending>>
  <1> USE DEF TypeOK
  <1>1. m.to \in Server /\ m.term \in Nat
    BY RpcKinds
  <1>2. LogTypes'
    BY Frames DEF IgnoreSnapshot
  <1>3. ServerTypes'
    BY <1>1, FollowTermType, Frames DEF IgnoreSnapshot
  <1>4. DiskTypes'
    BY <1>1, <1>2, <1>3, PersistIfType, Frames DEF IgnoreSnapshot
  <1> QED
    BY <1>2, <1>3, <1>4 DEF IgnoreSnapshot

LEMMA AcceptSnapshotType ==
  ASSUME TypeOK, NEW m \in rpcs, m.type = "SnapshotCall", AcceptSnapshot(m)
  PROVE  /\ ServerTypes' /\ LogTypes' /\ DiskTypes' /\ commitIndex' \in [Server -> Nat]
         /\ lastApplied' \in [Server -> Nat]
         /\ snapshotPending' \in [Server -> Pendings]
  <1> DEFINE i == m.to  x == m.lastIncludedIndex
  <1> USE DEF TypeOK
  <1>1. /\ i \in Server /\ m.term \in Nat /\ m \in SnapshotCalls /\ x \in Nat
        /\ m.lastIncludedTerm \in Nat /\ m.data \in Seq(Command)
    BY RpcKinds DEF SnapshotCalls
  <1>2. ServerTypes'
    BY <1>1, FollowTermType DEF AcceptSnapshot
  <1>3. Retained(i, x, m.lastIncludedTerm) \in Logs
    <2>1. CASE x <= LastIndex(i) /\ TermAt(i, x) = m.lastIncludedTerm
      <3>1. lastIncludedIndex[i] \in Nat /\ LastIndex(i) \in Nat /\ x > lastIncludedIndex[i]
        BY <1>1, LastTermType DEF LogTypes, AcceptSnapshot
      <3>2. HasIndex(i, x)
        BY <1>1, <2>1, <3>1 DEF HasIndex
      <3> QED
        BY <1>1, <2>1, <3>2, SuffixType DEF Retained
    <2>2. CASE ~(x <= LastIndex(i) /\ TermAt(i, x) = m.lastIncludedTerm)
      <3>1. Sentinel(m.lastIncludedTerm) \in Entry
        BY <1>1 DEF Sentinel, Entry
      <3>2. <<Sentinel(m.lastIncludedTerm)>> \in Logs
        BY <3>1 DEF Logs
      <3> QED
        BY <2>2, <3>2 DEF Retained
    <2> QED
      BY <2>1, <2>2
  <1>4. LogTypes'
    BY <1>1, <1>3 DEF AcceptSnapshot, LogTypes
  <1>5. commitIndex' \in [Server -> Nat] /\ lastApplied' \in [Server -> Nat]
    BY <1>1 DEF AcceptSnapshot, Raised, CommitTypes, ApplyTypes
  <1>6. snapshotPending' \in [Server -> Pendings]
    BY <1>1 DEF Pendings, AcceptSnapshot, Pending, ApplyTypes
  <1>7. DiskTypes'
    BY <1>1, <1>2, <1>4, PersistType DEF AcceptSnapshot
  <1> QED
    BY <1>2, <1>4, <1>5, <1>6, <1>7

LEMMA InstallSnapShotType ==
  ASSUME TypeOK, NEW m \in rpcs, InstallSnapShot(m)
  PROVE  TypeOK'
  <1> USE DEF TypeOK
  <1>1. m.type = "SnapshotCall" /\ m \in SnapshotCalls /\ m.to \in Server /\ m.from # m.to
    BY RpcKinds DEF InstallSnapShot
  <1>2. /\ ServerTypes' /\ LogTypes' /\ DiskTypes' /\ commitIndex' \in [Server -> Nat]
        /\ lastApplied' \in [Server -> Nat]
        /\ snapshotPending' \in [Server -> Pendings]
    <2>1. /\ commitIndex \in [Server -> Nat] /\ lastApplied \in [Server -> Nat]
          /\ snapshotPending \in [Server -> Pendings]
      BY DEF CommitTypes, ApplyTypes
    <2> QED
      BY <1>1, <2>1, IgnoreSnapshotType, AcceptSnapshotType DEF InstallSnapShot
  <1>3. CommitTypes' /\ ApplyTypes'
    BY <1>2 DEF CommitTypes, ApplyTypes, InstallSnapShot
  <1>4. RpcTypes'
    <2>1. currentTerm[m.to] \in Nat
      BY <1>1 DEF ServerTypes
    <2>2. SnapshotReply(m, currentTerm[m.to]) \in SnapshotReplies
      BY <1>1, <2>1 DEF SnapshotReply, SnapshotReplies, SnapshotCalls
    <2> QED
      BY <1>1, <2>2, ReturnType DEF RPC, SnapshotReply, InstallSnapShot
  <1> QED
    BY <1>2, <1>3, <1>4, Frames DEF InstallSnapShot

LEMMA HandleSnapshotReplyType ==
  ASSUME TypeOK, NEW m \in rpcs, HandleSnapshotReply(m)
  PROVE  TypeOK'
  <1> DEFINE i == m.from  p == m.to  advances == m.match > matchIndex[i][p]
  <1> USE DEF TypeOK
  <1>1. /\ i \in Server /\ p \in Server /\ m \in SnapshotReplies
        /\ m.match \in Nat /\ m.match + 1 \in Nat
    BY RpcKinds DEF HandleSnapshotReply, SnapshotReplies
  <1>2. /\ nextIndex \in [Server -> [Server -> Nat]] /\ matchIndex \in [Server -> [Server -> Nat]]
    BY DEF LeaderTypes
  <1>3. LeaderTypes' /\ CommitTypes'
    <2>1. CASE /\ matchIndex' = [matchIndex EXCEPT ![i][p] = IF advances THEN m.match ELSE @]
               /\ nextIndex' = [nextIndex EXCEPT ![i][p] = IF advances THEN m.match + 1 ELSE @]
               /\ UpdateCommitIndex(i)
      <3>1. LeaderTypes'
        BY <1>1, <1>2, <2>1 DEF LeaderTypes
      <3> QED
        BY <1>1, <2>1, <3>1, UpdateCommitType
    <2>2. CASE UNCHANGED <<leaderVars, commitVars>>
      BY <2>2, Frames
    <2> QED
      BY <2>1, <2>2 DEF HandleSnapshotReply
  <1>4. RpcTypes'
    BY ReceivedType DEF HandleSnapshotReply
  <1> QED
    BY <1>3, <1>4, Frames DEF HandleSnapshotReply

-----------------------------------------------------------------------------
(* The applier, restart and the theorem.                                   *)

LEMMA IdleType == \A pc \in ApplierStates : [Idle EXCEPT !.pc = pc] \in Messages
  <1>1. <<>> \in Seq(Command)
    BY EmptySeq
  <1> QED
    BY <1>1 DEF Idle, Messages

LEMMA NextCommandType ==
  ASSUME LogTypes, CommitTypes, ApplyTypes, NEW i \in Server, NextCommand(i)
  PROVE  lastApplied' \in [Server -> Nat] /\ applier' \in [Server -> Messages]
  <1> DEFINE x == lastApplied[i] + 1
             msg == [Idle EXCEPT !.pc = "sendCommand", !.index = x,
                        !.command = log[i][x - lastIncludedIndex[i] + 1].command]
  <1>1. lastApplied \in [Server -> Nat] /\ applier \in [Server -> Messages] /\ x \in Nat
    BY DEF ApplyTypes, Messages
  <1>2. CASE lastApplied[i] < commitIndex[i]
    <2>1. /\ HasIndex(i, x) /\ lastApplied' = [lastApplied EXCEPT ![i] = x]
          /\ applier' = [applier EXCEPT ![i] = msg]
      BY <1>2 DEF NextCommand
    <2>2. log[i][x - lastIncludedIndex[i] + 1].command \in Command \cup {None}
      BY <2>1, TermAtType DEF Entry
    <2>3. <<>> \in Seq(Command)
      BY EmptySeq
    <2>4. msg \in Messages
      BY <1>1, <2>2, <2>3 DEF Idle, Messages, ApplierStates
    <2> HIDE DEF msg, x
    <2> QED
      BY <1>1, <2>1, <2>4
  <1>3. CASE ~(lastApplied[i] < commitIndex[i])
    BY <1>1, <1>3, IdleType DEF NextCommand, Goto, ApplierStates
  <1> QED
    BY <1>2, <1>3

LEMMA ApplierType ==
  ASSUME LogTypes, CommitTypes, ApplyTypes, NEW i \in Server,
         \/ ApplierTop(i) \/ ApplierReadSnapshot(i) \/ ApplierSentSnapshot(i)
         \/ ApplierSentCommand(i) \/ ReaderRestore(i) \/ ReaderDoOp(i)
  PROVE  ApplyTypes'
  <1>1. /\ lastApplied \in [Server -> Nat] /\ applier \in [Server -> Messages]
        /\ snapshotPending \in [Server -> Pendings]
        /\ sm \in [Server -> Seq(Command)] /\ readerAt \in [Server -> Nat]
    BY DEF ApplyTypes
  <1>2. NoPending \in Pendings
    BY EmptySeq DEF NoPending, Pendings
  <1>3. CASE ApplierTop(i)
    <2>1. lastApplied' \in [Server -> Nat] /\ applier' \in [Server -> Messages]
      BY <1>1, <1>3, IdleType, NextCommandType DEF ApplierTop, Goto, ApplierStates
    <2>2. UNCHANGED <<snapshotPending, sm, readerAt>>
      BY <1>3 DEF ApplierTop
    <2> QED
      BY <1>1, <2>1, <2>2 DEF ApplyTypes
  <1>4. CASE ApplierReadSnapshot(i)
    <2> DEFINE msg == [Idle EXCEPT !.pc = "sendSnapshot", !.data = snapshotPending[i].data]
    <2>1. snapshotPending[i].data \in Seq(Command)
      BY <1>1 DEF Pendings
    <2>2. msg \in Messages
      BY <2>1 DEF Idle, Messages, ApplierStates
    <2>3. /\ applier' = [applier EXCEPT ![i] = msg]
          /\ UNCHANGED <<lastApplied, snapshotPending, sm, readerAt>>
      BY <1>4 DEF ApplierReadSnapshot
    <2> HIDE DEF msg
    <2> QED
      BY <1>1, <2>2, <2>3 DEF ApplyTypes
  <1>5. CASE ApplierSentSnapshot(i)
    <2>1. lastApplied' \in [Server -> Nat] /\ applier' \in [Server -> Messages]
      BY <1>5, NextCommandType DEF ApplierSentSnapshot
    <2>2. /\ snapshotPending' = [snapshotPending EXCEPT ![i] = NoPending]
          /\ UNCHANGED <<sm, readerAt>>
      BY <1>5 DEF ApplierSentSnapshot
    <2> QED
      BY <1>1, <1>2, <2>1, <2>2 DEF ApplyTypes
  <1>6. CASE ApplierSentCommand(i)
    <2>1. lastApplied' \in [Server -> Nat] /\ applier' \in [Server -> Messages]
      BY <1>6, NextCommandType DEF ApplierSentCommand
    <2>2. UNCHANGED <<snapshotPending, sm, readerAt>>
      BY <1>6 DEF ApplierSentCommand
    <2> QED
      BY <1>1, <2>1, <2>2 DEF ApplyTypes
  <1>7. CASE ReaderRestore(i)
    <2>1. applier[i].data \in Seq(Command)
      BY <1>1 DEF Messages
    <2>2. applier' \in [Server -> Messages]
      BY <1>1, <1>7, IdleType DEF ReaderRestore, Goto, ApplierStates
    <2>3. /\ sm' = [sm EXCEPT ![i] = applier[i].data]
          /\ readerAt' = [readerAt EXCEPT ![i] = 0]
          /\ UNCHANGED <<lastApplied, snapshotPending>>
      BY <1>7 DEF ReaderRestore
    <2> QED
      BY <1>1, <2>1, <2>2, <2>3 DEF ApplyTypes
  <1>8. CASE ReaderDoOp(i)
    <2>1. applier[i].command \in Command \cup {None} /\ applier[i].index \in Nat
      BY <1>1 DEF Messages
    <2>2. applier' \in [Server -> Messages] /\ UNCHANGED <<lastApplied, snapshotPending>>
      BY <1>1, <1>8, IdleType DEF ReaderDoOp, Goto, ApplierStates
    <2>3. CASE applier[i].command # None
      <3>1. Append(sm[i], applier[i].command) \in Seq(Command)
        BY <1>1, <2>1, <2>3, AppendProperties
      <3>2. /\ sm' = [sm EXCEPT ![i] = Append(@, applier[i].command)]
            /\ readerAt' = [readerAt EXCEPT ![i] = applier[i].index]
        BY <1>8, <2>3 DEF ReaderDoOp
      <3> QED
        BY <1>1, <2>1, <2>2, <3>1, <3>2 DEF ApplyTypes
    <2>4. CASE applier[i].command = None
      <3>1. UNCHANGED <<sm, readerAt>>
        BY <1>8, <2>4 DEF ReaderDoOp
      <3> QED
        BY <1>1, <2>2, <3>1 DEF ApplyTypes
    <2> QED
      BY <2>3, <2>4
  <1> QED
    BY <1>3, <1>4, <1>5, <1>6, <1>7, <1>8

LEMMA ApplyStepType ==
  ASSUME TypeOK, NEW i \in Server, Apply(i)
  PROVE  TypeOK'
  <1>1. ServerTypes' /\ LogTypes' /\ LeaderTypes' /\ CommitTypes' /\ ElectionTypes'
        /\ DiskTypes' /\ RpcTypes'
    BY Frames DEF Apply, TypeOK
  <1>2. ApplyTypes'
    BY ApplierType DEF Apply, TypeOK
  <1> QED
    BY <1>1, <1>2 DEF TypeOK

LEMMA RestartType ==
  ASSUME TypeOK, NEW i \in Server, Restart(i)
  PROVE  TypeOK'
  <1> DEFINE disk == persister[i]
  <1> USE DEF TypeOK
  <1>1. disk \in Disk /\ <<>> \in Seq(Command)
    BY EmptySeq DEF DiskTypes
  <1>2. ServerTypes' /\ LogTypes'
    BY <1>1 DEF Restart, ServerTypes, LogTypes, Disk
  <1>3. LeaderTypes' /\ ElectionTypes'
    BY DEF Restart, LeaderTypes, ElectionTypes
  <1>4. CommitTypes' /\ lastApplied' \in [Server -> Nat]
    BY <1>1 DEF Restart, CommitTypes, ApplyTypes, Disk
  <1>5. ApplyTypes'
    <2>1. PendingAtStart(disk) \in Pendings
      BY <1>1 DEF Pendings, PendingAtStart, Pending, NoPending, Disk
    <2>2. Idle \in Messages
      BY <1>1 DEF Idle, Messages, ApplierStates
    <2>3. /\ snapshotPending' \in [Server -> Pendings]
          /\ applier' \in [Server -> Messages]
      BY <2>1, <2>2 DEF Restart, ApplyTypes, Messages
    <2>4. sm' \in [Server -> Seq(Command)] /\ readerAt' \in [Server -> Nat]
      BY <1>1 DEF Restart, ApplyTypes
    <2> QED
      BY <1>4, <2>3, <2>4 DEF ApplyTypes, Messages
  <1>6. RpcTypes'
    <2>1. ASSUME NEW m \in rpcs, m.from = i => m.type \in CallTypes
          PROVE  Orphan(i, m) \in RPC /\ Orphan(i, m).from # Orphan(i, m).to
      <3>1. CASE m.from # i
        BY <3>1 DEF Orphan, RpcTypes
      <3>2. CASE m \in VoteCalls
        <4>1. Orphan(i, m) \in VoteCalls
          BY <3>2 DEF Orphan, VoteCalls
        <4> QED
          BY <3>2, <4>1, RpcKinds DEF RPC, Orphan, VoteCalls
      <3>3. CASE m \in AppendCalls
        <4>1. Orphan(i, m) \in AppendCalls
          BY <3>3 DEF Orphan, AppendCalls
        <4> QED
          BY <3>3, <4>1, RpcKinds DEF RPC, Orphan, AppendCalls
      <3>4. CASE m \in SnapshotCalls
        <4>1. Orphan(i, m) \in SnapshotCalls
          BY <3>4 DEF Orphan, SnapshotCalls
        <4> QED
          BY <3>4, <4>1, RpcKinds DEF RPC, Orphan, SnapshotCalls
      <3> QED
        BY <2>1, <3>1, <3>2, <3>3, <3>4, RpcKinds DEF CallTypes
    <2> QED
      BY <2>1 DEF Restart, RpcTypes
  <1>7. DiskTypes'
    BY DEF Restart, DiskTypes
  <1> QED
    BY <1>2, <1>3, <1>4, <1>5, <1>6, <1>7

LEMMA InitType == Init => TypeOK
  <1> SUFFICES ASSUME Init PROVE TypeOK
    OBVIOUS
  <1>1. InitialLog \in Logs /\ <<>> \in Seq(Command)
    BY EmptySeq DEF InitialLog, Logs, Entry, Sentinel
  <1>2. ServerTypes /\ LogTypes /\ LeaderTypes
    BY <1>1 DEF Init, ServerTypes, LogTypes, LeaderTypes, Vote
  <1>3. CommitTypes /\ ElectionTypes /\ RpcTypes
    BY DEF Init, CommitTypes, ElectionTypes, RpcTypes
  <1>4. ApplyTypes
    BY <1>1 DEF Init, Pendings, Messages, ApplyTypes, NoPending, Idle, ApplierStates
  <1>5. DiskTypes
    BY <1>1, <1>2 DEF Init, DiskTypes, Disk, Persisted, ServerTypes, LogTypes
  <1> QED
    BY <1>2, <1>3, <1>4, <1>5 DEF TypeOK

LEMMA NextType == TypeOK /\ [Next]_vars => TypeOK'
  <1> SUFFICES ASSUME TypeOK, [Next]_vars PROVE TypeOK'
    OBVIOUS
  <1>1. ASSUME NEW i \in Server,
               \/ Timeout(i) \/ Heartbeat(i) \/ Snapshot(i) \/ Apply(i) \/ Restart(i)
               \/ \E e \in electionCalls[i] : CallElection(i, e)
               \/ \E c \in Command : Start(i, c)
        PROVE  TypeOK'
    BY <1>1, TimeoutType, HeartbeatType, SnapshotType, ApplyStepType, RestartType,
       CallElectionType, StartType
  <1>2. ASSUME NEW m \in rpcs, Handle(m)
        PROVE  TypeOK'
    BY <1>2, RequestVoteType, StepDownType, CountVoteType, AppendEntriesType,
       HandleAppendReplyType, InstallSnapShotType, HandleSnapshotReplyType DEF Handle
  <1>3. CASE UNCHANGED vars
    BY <1>3, Frames DEF vars, TypeOK
  <1> QED
    BY <1>1, <1>2, <1>3 DEF Next

\* Whatever is sent, lost, delayed or forgotten in a crash, every variable
\* keeps its type; in particular no log ever loses its sentinel and no server
\* ever calls itself.
THEOREM TypeCorrect == Spec => []TypeOK
  BY InitType, NextType, PTL DEF Spec

-----------------------------------------------------------------------------
(* What is on disk.                                                        *)

\* What persist() would write for server i does not change.
Kept(i) ==
  /\ currentTerm'[i] = currentTerm[i] /\ votedFor'[i] = votedFor[i]
  /\ log'[i] = log[i]
  /\ lastIncludedIndex'[i] = lastIncludedIndex[i]
  /\ lastIncludedTerm'[i] = lastIncludedTerm[i]
OthersKept(i) == \A j \in Server \ {i} : Kept(j)

LEMMA Persisting ==
  ASSUME DiskTypes, DiskIsCurrent, NEW i \in Server, OthersKept(i),
         NEW snapshot, Persist(i, snapshot)
  PROVE  DiskIsCurrent'
  BY DEF DiskTypes, DiskIsCurrent, OthersKept, Kept, Persist, Persisted

LEMMA NothingToPersist ==
  ASSUME DiskIsCurrent, NEW i \in Server, OthersKept(i), Kept(i), UNCHANGED persister
  PROVE  DiskIsCurrent'
  BY DEF DiskIsCurrent, OthersKept, Kept, Persisted

LEMMA PersistingIf ==
  ASSUME DiskTypes, DiskIsCurrent, NEW i \in Server, OthersKept(i),
         NEW called, PersistIf(called, i), called \/ Kept(i)
  PROVE  DiskIsCurrent'
  BY Persisting, NothingToPersist DEF PersistIf

LEMMA SameFields ==
  ASSUME UNCHANGED <<currentTerm, votedFor, logVars>>
  PROVE  \A i \in Server : Kept(i) /\ OthersKept(i)
  BY DEF Kept, OthersKept, logVars

LEMMA FollowTermKept ==
  ASSUME ServerTypes, NEW i \in Server, NEW term \in Nat, FollowTerm(i, term)
  PROVE  /\ \A j \in Server \ {i} : currentTerm'[j] = currentTerm[j] /\ votedFor'[j] = votedFor[j]
         /\ ~(term > currentTerm[i]) =>
              currentTerm'[i] = currentTerm[i] /\ votedFor'[i] = votedFor[i]
  BY DEF ServerTypes, FollowTerm, AdoptTerm

LEMMA DiskAtTimeout ==
  ASSUME TypeOK, DiskIsCurrent, NEW i \in Server, Timeout(i)
  PROVE  DiskIsCurrent'
  <1>1. OthersKept(i)
    BY DEF Timeout, OthersKept, Kept, TypeOK, ServerTypes, logVars
  <1> QED
    BY <1>1, Persisting DEF Timeout, TypeOK

LEMMA DiskAtRequestVote ==
  ASSUME TypeOK, DiskIsCurrent, NEW m \in rpcs, RequestVote(m)
  PROVE  DiskIsCurrent'
  <1>1. m.to \in Server
    BY RpcKinds DEF TypeOK
  <1>2. OthersKept(m.to)
    BY <1>1 DEF RequestVote, OthersKept, Kept, TypeOK, ServerTypes, logVars
  <1>3. \/ m.term > currentTerm[m.to] \/ MayVote(m.to, m) \/ Kept(m.to)
    BY <1>1 DEF RequestVote, Kept, TypeOK, ServerTypes, logVars
  <1> QED
    BY <1>1, <1>2, <1>3, PersistingIf DEF RequestVote, TypeOK

LEMMA DiskAtStepDown ==
  ASSUME TypeOK, DiskIsCurrent, NEW m \in rpcs, StepDown(m)
  PROVE  DiskIsCurrent'
  <1>1. m.from \in Server
    BY RpcKinds DEF TypeOK
  <1>2. OthersKept(m.from)
    BY <1>1 DEF StepDown, AdoptTerm, OthersKept, Kept, TypeOK, ServerTypes, logVars
  <1> QED
    BY <1>1, <1>2, PersistingIf DEF StepDown, TypeOK

LEMMA DiskAtStart ==
  ASSUME TypeOK, DiskIsCurrent, NEW i \in Server, NEW c \in Command, Start(i, c)
  PROVE  DiskIsCurrent'
  <1>1. OthersKept(i)
    BY DEF Start, OthersKept, Kept, TypeOK, LogTypes, serverVars
  <1> QED
    BY <1>1, PersistingIf DEF Start, TypeOK

LEMMA DiskAtSnapshot ==
  ASSUME TypeOK, DiskIsCurrent, NEW i \in Server, Snapshot(i)
  PROVE  DiskIsCurrent'
  <1>1. OthersKept(i)
    BY DEF Snapshot, OthersKept, Kept, TypeOK, LogTypes, serverVars
  <1> QED
    BY <1>1, Persisting DEF Snapshot, TypeOK

LEMMA DiskAtAppendEntries ==
  ASSUME TypeOK, DiskIsCurrent, NEW m \in rpcs, AppendEntries(m)
  PROVE  DiskIsCurrent'
  <1>1. m.to \in Server /\ m.term \in Nat
    BY RpcKinds DEF TypeOK
  <1>2. CASE RefuseStaleAppend(m)
    BY <1>1, <1>2, SameFields, NothingToPersist DEF RefuseStaleAppend, serverVars
  <1>3. CASE RefuseMismatch(m)
    <2>1. FollowTerm(m.to, m.term) /\ UNCHANGED logVars
      BY <1>3 DEF RefuseMismatch
    <2>2. OthersKept(m.to) /\ (FollowTermPersists(m.to, m.term) \/ Kept(m.to))
      BY <1>1, <2>1, FollowTermKept
         DEF OthersKept, Kept, FollowTermPersists, logVars, TypeOK
    <2> QED
      BY <1>1, <1>3, <2>2, PersistingIf DEF RefuseMismatch, TypeOK
  <1>4. CASE AcceptAppend(m)
    <2>0. PICK k \in 0 .. Len(m.entries) : \E newLog :
            /\ log' = [log EXCEPT ![m.to] = newLog]
            /\ ~Truncates(m, k) => newLog = log[m.to]
            /\ PersistIf(Truncates(m, k) \/ FollowTermPersists(m.to, m.term), m.to)
      BY <1>4 DEF AcceptAppend
    <2>1. PICK newLog :
            /\ log' = [log EXCEPT ![m.to] = newLog]
            /\ ~Truncates(m, k) => newLog = log[m.to]
            /\ PersistIf(Truncates(m, k) \/ FollowTermPersists(m.to, m.term), m.to)
      BY <2>0
    <2>2. FollowTerm(m.to, m.term) /\ UNCHANGED <<lastIncludedIndex, lastIncludedTerm>>
      BY <1>4 DEF AcceptAppend
    <2>3. OthersKept(m.to)
      BY <1>1, <2>1, <2>2, FollowTermKept DEF OthersKept, Kept, TypeOK, LogTypes
    <2>4. Truncates(m, k) \/ FollowTermPersists(m.to, m.term) \/ Kept(m.to)
      BY <1>1, <2>1, <2>2, FollowTermKept DEF Kept, FollowTermPersists, TypeOK, LogTypes
    <2> QED
      BY <1>1, <2>1, <2>3, <2>4, PersistingIf DEF TypeOK
  <1> QED
    BY <1>2, <1>3, <1>4 DEF AppendEntries

LEMMA DiskAtInstallSnapShot ==
  ASSUME TypeOK, DiskIsCurrent, NEW m \in rpcs, InstallSnapShot(m)
  PROVE  DiskIsCurrent'
  <1>1. m.to \in Server /\ m.term \in Nat
    BY RpcKinds DEF TypeOK
  <1>2. CASE IgnoreSnapshot(m) /\ Stale(m)
    BY <1>1, <1>2, SameFields, NothingToPersist DEF IgnoreSnapshot, serverVars
  <1>3. CASE IgnoreSnapshot(m) /\ ~Stale(m)
    <2>1. FollowTerm(m.to, m.term) /\ UNCHANGED logVars
          /\ PersistIf(FollowTermPersists(m.to, m.term), m.to)
      BY <1>3 DEF IgnoreSnapshot
    <2>2. OthersKept(m.to) /\ (FollowTermPersists(m.to, m.term) \/ Kept(m.to))
      BY <1>1, <2>1, FollowTermKept
         DEF OthersKept, Kept, FollowTermPersists, logVars, TypeOK
    <2> QED
      BY <1>1, <2>1, <2>2, PersistingIf DEF TypeOK
  <1>4. CASE AcceptSnapshot(m)
    <2>1. FollowTerm(m.to, m.term) /\ Persist(m.to, m.data)
      BY <1>4 DEF AcceptSnapshot
    <2>2. \A j \in Server \ {m.to} : /\ log'[j] = log[j]
                                     /\ lastIncludedIndex'[j] = lastIncludedIndex[j]
                                     /\ lastIncludedTerm'[j] = lastIncludedTerm[j]
      BY <1>1, <1>4 DEF AcceptSnapshot, TypeOK, LogTypes
    <2>3. OthersKept(m.to)
      BY <1>1, <2>1, <2>2, FollowTermKept DEF OthersKept, Kept, TypeOK
    <2> QED
      BY <1>1, <2>1, <2>3, Persisting DEF TypeOK
  <1> QED
    BY <1>2, <1>3, <1>4 DEF InstallSnapShot

LEMMA DiskAtRestart ==
  ASSUME TypeOK, DiskIsCurrent, NEW i \in Server, Restart(i)
  PROVE  DiskIsCurrent' /\ \A j \in Server : Kept(j)
  <1> DEFINE disk == persister[i]
  <1>0. /\ disk.currentTerm = currentTerm[i] /\ disk.votedFor = votedFor[i]
        /\ disk.log = log[i] /\ disk.lastIncludedIndex = lastIncludedIndex[i]
        /\ disk.lastIncludedTerm = lastIncludedTerm[i]
    <2>1. disk = Persisted(i, disk.snapshot)
      BY DEF DiskIsCurrent
    <2> HIDE DEF disk
    <2> QED
      BY <2>1 DEF Persisted
  <1>2. /\ currentTerm' = [currentTerm EXCEPT ![i] = disk.currentTerm]
        /\ votedFor' = [votedFor EXCEPT ![i] = disk.votedFor]
        /\ log' = [log EXCEPT ![i] = disk.log]
        /\ lastIncludedIndex' = [lastIncludedIndex EXCEPT ![i] = disk.lastIncludedIndex]
        /\ lastIncludedTerm' = [lastIncludedTerm EXCEPT ![i] = disk.lastIncludedTerm]
        /\ UNCHANGED persister
    BY DEF Restart
  <1> HIDE DEF disk
  <1>1. \A j \in Server : Kept(j)
    BY <1>0, <1>2 DEF Kept, TypeOK, ServerTypes, LogTypes
  <1> QED
    BY <1>1, <1>2, NothingToPersist DEF OthersKept

\* Steps that touch neither a persisted field nor the disk.
LEMMA DiskElsewhere ==
  ASSUME DiskIsCurrent, UNCHANGED <<currentTerm, votedFor, logVars, persister>>
  PROVE  DiskIsCurrent'
  BY DEF DiskIsCurrent, Persisted, logVars

LEMMA DiskStep == TypeOK /\ DiskIsCurrent /\ [Next]_vars => DiskIsCurrent'
  <1> SUFFICES ASSUME TypeOK, DiskIsCurrent, [Next]_vars PROVE DiskIsCurrent'
    OBVIOUS
  <1>1. ASSUME NEW i \in Server,
               \/ Heartbeat(i) \/ Apply(i) \/ \E e \in electionCalls[i] : CallElection(i, e)
        PROVE  DiskIsCurrent'
    BY <1>1, DiskElsewhere DEF Heartbeat, Apply, CallElection, serverVars
  <1>2. ASSUME NEW m \in rpcs, CountVote(m) \/ HandleAppendReply(m) \/ HandleSnapshotReply(m)
        PROVE  DiskIsCurrent'
    BY <1>2, DiskElsewhere DEF CountVote, HandleAppendReply, HandleSnapshotReply, serverVars
  <1>3. CASE UNCHANGED vars
    BY <1>3, DiskElsewhere DEF vars, serverVars
  <1> QED
    BY <1>1, <1>2, <1>3, DiskAtTimeout, DiskAtSnapshot, DiskAtRestart, DiskAtStart,
       DiskAtRequestVote, DiskAtStepDown, DiskAtAppendEntries, DiskAtInstallSnapShot
       DEF Next, Handle

\* A crash at any moment loses nothing a peer may have relied on: the disk
\* always holds the current term, the vote and the log.
THEOREM DiskAlwaysCurrent == Spec => []DiskIsCurrent
  <1>1. Init => DiskIsCurrent
    BY DEF Init, DiskIsCurrent, Persisted
  <1> QED
    BY <1>1, TypeCorrect, DiskStep, PTL DEF Spec

-----------------------------------------------------------------------------
(* Votes.  Most steps are quiet: they ask for no vote, give none and count *)
(* none.                                                                   *)

\* A vote RPC in flight after the step was in flight before it, possibly with
\* a caller still waiting for it.
SameVoteRpc(m, r) ==
  /\ m.type = r.type /\ m.from = r.from /\ m.to = r.to /\ m.election = r.election
  /\ m.type = "VoteCall" => m.term = r.term
  /\ m.type = "VoteReply" => m.callTerm = r.callTerm /\ m.granted = r.granted

QuietAt(i) ==
  /\ electionCalls'[i] \subseteq electionCalls[i]
  /\ \/ /\ currentTerm'[i] = currentTerm[i] /\ votedFor'[i] = votedFor[i]
        /\ state'[i] = state[i] \/ state'[i] = Follower
     \/ currentTerm'[i] > currentTerm[i] /\ state'[i] = Follower
Quiet ==
  /\ tally' = tally
  /\ \A i \in Server : QuietAt(i)
  /\ \A m \in rpcs' : m.type \in {"VoteCall", "VoteReply"} =>
       \E r \in rpcs : SameVoteRpc(m, r)

LEMMA QuietVotes ==
  ASSUME TypeOK, TypeOK', Quiet, NEW q \in Server, NEW i \in Server
  PROVE  TermsVoted(q, i)' \subseteq TermsVoted(q, i)
  <1>1. ASSUME NEW m \in rpcs', m.type = "VoteReply", m.granted, m.to = q, m.from = i
        PROVE  m.callTerm \in TermsVoted(q, i)
    <2>1. PICK r \in rpcs : SameVoteRpc(m, r)
      BY <1>1 DEF Quiet
    <2> QED
      BY <1>1, <2>1 DEF SameVoteRpc, TermsVoted
  <1>2. ASSUME q = i, state'[i] # Follower
        PROVE  currentTerm'[i] \in TermsVoted(q, i)
    <2>1. state[i] # Follower /\ currentTerm'[i] = currentTerm[i]
      BY <1>2 DEF Quiet, QuietAt
    <2> QED
      BY <1>2, <2>1 DEF TermsVoted
  <1>3. ASSUME NEW e \in 1 .. MaxTerm, q \in tally'[i][e].votes
        PROVE  tally'[i][e].term \in TermsVoted(q, i)
    BY <1>3 DEF Quiet, TermsVoted
  <1> QED
    BY <1>1, <1>2, <1>3 DEF TermsVoted

LEMMA VotedType ==
  ASSUME TypeOK, NEW q \in Server, NEW i \in Server
  PROVE  TermsVoted(q, i) \subseteq Nat
  <1>1. \A m \in rpcs : m.type = "VoteReply" => m.callTerm \in Nat
    BY RpcKinds DEF TypeOK, VoteReplies
  <1>2. currentTerm[i] \in Nat /\ \A e \in 1 .. MaxTerm : tally[i][e].term \in Nat
    BY DEF TypeOK, ServerTypes, ElectionTypes
  <1> QED
    BY <1>1, <1>2 DEF TermsVoted

LEMMA QuietStep ==
  ASSUME TypeOK, TypeOK', ElectionInv, Quiet
  PROVE  ElectionInv'
  <1>1. \A i \in Server : currentTerm[i] \in Nat /\ currentTerm'[i] \in Nat
                           /\ currentTerm'[i] >= currentTerm[i]
    BY DEF Quiet, QuietAt, TypeOK, ServerTypes
  <1>2. VotesRemembered'
    <2> SUFFICES ASSUME NEW q \in Server, NEW i \in Server, NEW T \in TermsVoted(q, i)'
                 PROVE  currentTerm'[q] >= T /\ (currentTerm'[q] = T => votedFor'[q] = i)
      BY DEF VotesRemembered
    <2>1. T \in TermsVoted(q, i) /\ T \in Nat
      BY QuietVotes, VotedType
    <2>2. currentTerm[q] >= T /\ (currentTerm[q] = T => votedFor[q] = i)
      BY <2>1 DEF ElectionInv, VotesRemembered
    <2> QED
      BY <1>1, <2>1, <2>2 DEF Quiet, QuietAt
  <1>3. VotesUnique'
    <2> SUFFICES ASSUME NEW q \in Server, NEW i \in Server, NEW j \in Server,
                        TermsVoted(q, i)' \cap TermsVoted(q, j)' # {}
                 PROVE  i = j
      BY DEF VotesUnique
    <2>1. TermsVoted(q, i) \cap TermsVoted(q, j) # {}
      BY QuietVotes
    <2> QED
      BY <2>1 DEF ElectionInv, VotesUnique
  <1>4. LeadersElected'
    <2> SUFFICES ASSUME NEW i \in Server, state'[i] = Leader
                 PROVE  \E e \in 1 .. MaxTerm :
                          /\ tally'[i][e].term = currentTerm'[i] /\ tally'[i][e].votes # {}
                          /\ Majority(tally'[i][e].votes \cup {i})
      BY DEF LeadersElected, Majority
    <2>1. state[i] = Leader /\ currentTerm'[i] = currentTerm[i] /\ tally' = tally
      BY DEF Quiet, QuietAt, Leader, Follower
    <2> QED
      BY <2>1 DEF ElectionInv, LeadersElected
  <1>5. TalliesMatch'
    <2> SUFFICES ASSUME NEW i \in Server, NEW e \in 1 .. MaxTerm
                 PROVE  /\ e \in electionCalls'[i] => e <= currentTerm'[i]
                        /\ e > currentTerm'[i] \/ e \in electionCalls'[i] =>
                             tally'[i][e].votes = {} /\ \A m \in rpcs' : ~VoteCallOf(m, i, e)
                        /\ \A m \in rpcs' : VoteCallOf(m, i, e) =>
                             tally'[i][e].term =
                               IF m.type = "VoteCall" THEN m.term ELSE m.callTerm
      BY DEF TalliesMatch, VoteCallOf
    <2>1. electionCalls'[i] \subseteq electionCalls[i] /\ tally' = tally /\ e \in Int
      BY BoundAssumption DEF Quiet, QuietAt
    <2>2. e > currentTerm'[i] => e > currentTerm[i]
      BY <1>1, <2>1
    <2>3. e \in electionCalls'[i] => e <= currentTerm'[i]
      BY <1>1, <2>1 DEF ElectionInv, TalliesMatch
    <2>4. ASSUME NEW m \in rpcs', VoteCallOf(m, i, e)
          PROVE  \E r \in rpcs : VoteCallOf(r, i, e) /\ SameVoteRpc(m, r)
      BY <2>4 DEF Quiet, VoteCallOf, SameVoteRpc
    <2>5. ASSUME NEW m \in rpcs', VoteCallOf(m, i, e)
          PROVE  tally[i][e].term = IF m.type = "VoteCall" THEN m.term ELSE m.callTerm
      <3>1. PICK r \in rpcs : VoteCallOf(r, i, e) /\ SameVoteRpc(m, r)
        BY <2>4, <2>5
      <3>2. tally[i][e].term = IF r.type = "VoteCall" THEN r.term ELSE r.callTerm
        BY <3>1 DEF ElectionInv, TalliesMatch
      <3> QED
        BY <2>5, <3>1, <3>2 DEF SameVoteRpc, VoteCallOf
    <2>6. ASSUME e > currentTerm[i] \/ e \in electionCalls[i]
          PROVE  tally[i][e].votes = {} /\ \A r \in rpcs : ~VoteCallOf(r, i, e)
      BY <2>6 DEF ElectionInv, TalliesMatch
    <2> QED
      BY <2>1, <2>2, <2>3, <2>4, <2>5, <2>6
  <1> QED
    BY <1>2, <1>3, <1>4, <1>5 DEF ElectionInv

\* The quiet actions.  No vote RPC appears in any of them.
NoNewVotes == \A m \in rpcs' : m.type \in {"VoteCall", "VoteReply"} => m \in rpcs

LEMMA QuietIf ==
  ASSUME NoNewVotes, tally' = tally, \A i \in Server : QuietAt(i)
  PROVE  Quiet
  BY DEF NoNewVotes, Quiet, SameVoteRpc

LEMMA SameServers ==
  ASSUME UNCHANGED <<serverVars, electionVars>>
  PROVE  tally' = tally /\ \A i \in Server : QuietAt(i)
  BY DEF serverVars, electionVars, QuietAt

LEMMA NoVotesSent ==
  ASSUME NEW i, NEW entries, Broadcast(i, entries)
  PROVE  NoNewVotes
  BY DEF Broadcast, SendCalls, AppendCall, SnapshotCall, NoNewVotes

LEMMA NoVotesReturned ==
  ASSUME NEW m, NEW r, r.type \notin {"VoteCall", "VoteReply"}, Return(m, r)
  PROVE  NoNewVotes
  BY DEF Return, NoNewVotes

LEMMA NoVotesReceived ==
  ASSUME NEW m, Received(m)
  PROVE  NoNewVotes
  BY DEF Received, NoNewVotes

LEMMA FollowTermQuiet ==
  ASSUME ServerTypes, NEW i \in Server, NEW term \in Nat, FollowTerm(i, term),
         UNCHANGED electionVars
  PROVE  tally' = tally /\ \A j \in Server : QuietAt(j)
  <1>1. CASE term > currentTerm[i]
    BY <1>1 DEF FollowTerm, AdoptTerm, QuietAt, electionVars, ServerTypes
  <1>2. CASE ~(term > currentTerm[i])
    BY <1>2 DEF FollowTerm, QuietAt, electionVars, ServerTypes
  <1> QED
    BY <1>1, <1>2

LEMMA QuietAppendEntries ==
  ASSUME TypeOK, NEW m \in rpcs, AppendEntries(m)
  PROVE  Quiet
  <1>1. m.to \in Server /\ m.term \in Nat
    BY RpcKinds DEF TypeOK
  <1>2. NoNewVotes
    BY NoVotesReturned DEF AppendEntries, RefuseStaleAppend, RefuseMismatch,
       AcceptAppend, AppendReply
  <1>3. UNCHANGED serverVars \/ FollowTerm(m.to, m.term)
    BY DEF AppendEntries, RefuseStaleAppend, RefuseMismatch, AcceptAppend
  <1>4. UNCHANGED electionVars
    BY DEF AppendEntries
  <1> QED
    BY <1>1, <1>2, <1>3, <1>4, QuietIf, SameServers, FollowTermQuiet DEF TypeOK

LEMMA QuietInstallSnapShot ==
  ASSUME TypeOK, NEW m \in rpcs, InstallSnapShot(m)
  PROVE  Quiet
  <1>1. m.to \in Server /\ m.term \in Nat
    BY RpcKinds DEF TypeOK
  <1>2. NoNewVotes
    BY NoVotesReturned DEF InstallSnapShot, SnapshotReply
  <1>3. UNCHANGED serverVars \/ FollowTerm(m.to, m.term)
    BY DEF InstallSnapShot, IgnoreSnapshot, AcceptSnapshot
  <1>4. UNCHANGED electionVars
    BY DEF InstallSnapShot
  <1> QED
    BY <1>1, <1>2, <1>3, <1>4, QuietIf, SameServers, FollowTermQuiet DEF TypeOK

LEMMA QuietStepDown ==
  ASSUME TypeOK, NEW m \in rpcs, StepDown(m)
  PROVE  Quiet
  <1>1. m.from \in Server
    BY RpcKinds DEF TypeOK
  <1>2. UNCHANGED electionVars /\ m.term > currentTerm[m.from] /\ AdoptTerm(m.from, m.term)
    BY DEF StepDown
  <1>3. tally' = tally /\ \A i \in Server : QuietAt(i)
    BY <1>1, <1>2 DEF AdoptTerm, QuietAt, electionVars, TypeOK, ServerTypes
  <1>4. NoNewVotes
    BY NoVotesReceived DEF StepDown
  <1> QED
    BY <1>3, <1>4, QuietIf

LEMMA QuietRestart ==
  ASSUME TypeOK, DiskIsCurrent, NEW i \in Server, Restart(i)
  PROVE  Quiet
  <1>1. \A j \in Server : Kept(j)
    BY DiskAtRestart
  <1>2. /\ tally' = tally /\ state' = [state EXCEPT ![i] = Follower]
        /\ electionCalls' = [electionCalls EXCEPT ![i] = {}]
        /\ \A m \in rpcs' : \E r \in rpcs : m = Orphan(i, r)
    BY DEF Restart
  <1>3. \A j \in Server : QuietAt(j)
    BY <1>1, <1>2 DEF Kept, QuietAt, TypeOK, ServerTypes, ElectionTypes
  <1>4. ASSUME NEW m \in rpcs', m.type \in {"VoteCall", "VoteReply"}
        PROVE  \E r \in rpcs : SameVoteRpc(m, r)
    <2>1. PICK r \in rpcs : m = Orphan(i, r)
      BY <1>2
    <2>2. CASE r.from # i
      BY <2>1, <2>2 DEF Orphan, SameVoteRpc
    <2>3. CASE r.from = i /\ r.type = "VoteCall"
      <3>1. r \in VoteCalls
        BY <2>3, RpcKinds DEF TypeOK
      <3> QED
        BY <2>1, <2>3, <3>1 DEF Orphan, SameVoteRpc, VoteCalls
    <2>4. CASE r.from = i /\ r.type = "VoteReply"
      <3>1. r \in VoteReplies
        BY <2>4, RpcKinds DEF TypeOK
      <3> QED
        BY <2>1, <2>4, <3>1 DEF Orphan, SameVoteRpc, VoteReplies
    <2>5. r.type \in {"VoteCall", "VoteReply"}
      BY <1>4, <2>1, RpcKinds DEF Orphan, TypeOK, RpcTypes, RPC, VoteCalls, VoteReplies,
         AppendCalls, AppendReplies, SnapshotCalls, SnapshotReplies
    <2> QED
      BY <2>2, <2>3, <2>4, <2>5
  <1> QED
    BY <1>2, <1>3, <1>4 DEF Quiet

LEMMA QuietActions ==
  ASSUME TypeOK, DiskIsCurrent, NEW i \in Server,
         \/ Heartbeat(i) \/ Snapshot(i) \/ Apply(i) \/ Restart(i)
         \/ \E c \in Command : Start(i, c)
  PROVE  Quiet
  <1>1. CASE Heartbeat(i)
    BY <1>1, QuietIf, SameServers, NoVotesSent DEF Heartbeat
  <1>2. CASE Snapshot(i) \/ Apply(i)
    BY <1>2, QuietIf, SameServers DEF Snapshot, Apply, NoNewVotes
  <1>3. CASE \E c \in Command : Start(i, c)
    BY <1>3, QuietIf, SameServers, NoVotesSent DEF Start
  <1> QED
    BY <1>1, <1>2, <1>3, QuietRestart

LEMMA QuietHandlers ==
  ASSUME TypeOK, NEW m \in rpcs,
         \/ StepDown(m) \/ AppendEntries(m) \/ HandleAppendReply(m)
         \/ InstallSnapShot(m) \/ HandleSnapshotReply(m)
  PROVE  Quiet
  <1>1. CASE HandleAppendReply(m) \/ HandleSnapshotReply(m)
    BY <1>1, QuietIf, SameServers, NoVotesReceived DEF HandleAppendReply, HandleSnapshotReply
  <1> QED
    BY <1>1, QuietStepDown, QuietAppendEntries, QuietInstallSnapShot

-----------------------------------------------------------------------------
(* The four steps of an election.                                          *)

\* Standing for election adds a server's vote for itself, and no other.
LEMMA TimeoutAsks ==
  ASSUME TypeOK, NEW i \in Server, Timeout(i), NEW q \in Server, NEW j \in Server,
         NEW T \in TermsVoted(q, j)'
  PROVE  T \in TermsVoted(q, j) \/ (q = i /\ j = i /\ T = currentTerm[i] + 1)
  <1> DEFINE T0 == currentTerm[i] + 1
  <1>1. /\ currentTerm' = [currentTerm EXCEPT ![i] = T0]
        /\ state' = [state EXCEPT ![i] = Candidate]
        /\ tally' = tally /\ rpcs' = rpcs
    BY DEF Timeout
  <1> HIDE DEF T0
  <1>2. /\ currentTerm'[i] = T0
        /\ \A p \in Server \ {i} : currentTerm'[p] = currentTerm[p] /\ state'[p] = state[p]
    BY <1>1 DEF TypeOK, ServerTypes
  <1>3. T \in TermsVoted(q, j) \/ (q = i /\ j = i /\ T = T0)
    BY <1>1, <1>2 DEF TermsVoted
  <1> QED
    BY <1>3 DEF T0

LEMMA TimeoutVotes ==
  ASSUME TypeOK, TypeOK', ElectionInv, NEW i \in Server, Timeout(i)
  PROVE  VotesRemembered' /\ VotesUnique'
  <1> DEFINE T0 == currentTerm[i] + 1
  <1>1. /\ currentTerm' = [currentTerm EXCEPT ![i] = T0]
        /\ votedFor' = [votedFor EXCEPT ![i] = i]
        /\ state' = [state EXCEPT ![i] = Candidate]
        /\ tally' = tally /\ rpcs' = rpcs
    BY DEF Timeout
  <1>2. T0 \in Nat /\ T0 > currentTerm[i] /\ \A q \in Server : currentTerm[q] \in Nat
    BY DEF TypeOK, ServerTypes
  <1> HIDE DEF T0
  <1>3. /\ currentTerm'[i] = T0 /\ votedFor'[i] = i
        /\ \A q \in Server \ {i} : /\ currentTerm'[q] = currentTerm[q]
                                   /\ votedFor'[q] = votedFor[q] /\ state'[q] = state[q]
    BY <1>1 DEF TypeOK, ServerTypes
  <1>4. ASSUME NEW q \in Server, NEW j \in Server, NEW T \in TermsVoted(q, j)'
        PROVE  T \in TermsVoted(q, j) \/ (q = i /\ j = i /\ T = T0)
    BY <1>4, TimeoutAsks DEF T0
  <1>5. \A q, j \in Server : \A T \in TermsVoted(q, j) :
          T \in Nat /\ currentTerm[q] >= T /\ (currentTerm[q] = T => votedFor[q] = j)
    BY VotedType DEF ElectionInv, VotesRemembered
  <1>6. VotesRemembered'
    <2> SUFFICES ASSUME NEW q \in Server, NEW j \in Server, NEW T \in TermsVoted(q, j)'
                 PROVE  currentTerm'[q] >= T /\ (currentTerm'[q] = T => votedFor'[q] = j)
      BY DEF VotesRemembered
    <2> QED
      BY <1>2, <1>3, <1>4, <1>5
  <1>7. VotesUnique'
    <2> SUFFICES ASSUME NEW q \in Server, NEW j \in Server, NEW k \in Server,
                        NEW T \in TermsVoted(q, j)', T \in TermsVoted(q, k)'
                 PROVE  j = k
      BY DEF VotesUnique
    <2>1. CASE T \in TermsVoted(q, j) /\ T \in TermsVoted(q, k)
      BY <2>1 DEF ElectionInv, VotesUnique
    <2>2. T \in TermsVoted(q, j) \/ (q = i /\ j = i /\ T = T0)
      BY <1>4
    <2>3. T \in TermsVoted(q, k) \/ (q = i /\ k = i /\ T = T0)
      BY <1>4
    <2> QED
      BY <1>2, <1>5, <2>1, <2>2, <2>3
  <1> QED
    BY <1>6, <1>7

LEMMA TimeoutTallies ==
  ASSUME TypeOK, TypeOK', ElectionInv, NEW i \in Server, Timeout(i)
  PROVE  LeadersElected' /\ TalliesMatch'
  <1> DEFINE T0 == currentTerm[i] + 1
  <1>1. /\ currentTerm' = [currentTerm EXCEPT ![i] = T0]
        /\ state' = [state EXCEPT ![i] = Candidate]
        /\ electionCalls' = [electionCalls EXCEPT ![i] = @ \cup {currentTerm'[i]}]
        /\ tally' = tally /\ rpcs' = rpcs
    BY DEF Timeout
  <1>2. T0 \in Nat /\ T0 > currentTerm[i] /\ currentTerm[i] \in Nat
    BY DEF TypeOK, ServerTypes
  <1> HIDE DEF T0
  <1>3. /\ currentTerm'[i] = T0 /\ state'[i] = Candidate
        /\ electionCalls'[i] = electionCalls[i] \cup {T0}
        /\ \A q \in Server \ {i} : /\ currentTerm'[q] = currentTerm[q]
                                   /\ state'[q] = state[q]
                                   /\ electionCalls'[q] = electionCalls[q]
    BY <1>1 DEF TypeOK, ServerTypes, ElectionTypes
  <1>4. LeadersElected'
    <2> SUFFICES ASSUME NEW j \in Server, state'[j] = Leader
                 PROVE  \E e \in 1 .. MaxTerm :
                          /\ tally'[j][e].term = currentTerm'[j] /\ tally'[j][e].votes # {}
                          /\ Majority(tally'[j][e].votes \cup {j})
      BY DEF LeadersElected, Majority
    <2>1. j # i
      BY <1>3 DEF Candidate, Leader
    <2> QED
      BY <1>1, <1>3, <2>1 DEF ElectionInv, LeadersElected
  <1>5. TalliesMatch'
    <2> SUFFICES ASSUME NEW j \in Server, NEW e \in 1 .. MaxTerm
                 PROVE  /\ e \in electionCalls'[j] => e <= currentTerm'[j]
                        /\ e > currentTerm'[j] \/ e \in electionCalls'[j] =>
                             tally[j][e].votes = {} /\ \A m \in rpcs : ~VoteCallOf(m, j, e)
                        /\ \A m \in rpcs : VoteCallOf(m, j, e) =>
                             tally[j][e].term =
                               IF m.type = "VoteCall" THEN m.term ELSE m.callTerm
      BY <1>1 DEF TalliesMatch, VoteCallOf
    <2>1. /\ e \in electionCalls[j] => e <= currentTerm[j]
          /\ e > currentTerm[j] \/ e \in electionCalls[j] =>
               tally[j][e].votes = {} /\ \A m \in rpcs : ~VoteCallOf(m, j, e)
          /\ \A m \in rpcs : VoteCallOf(m, j, e) =>
               tally[j][e].term = IF m.type = "VoteCall" THEN m.term ELSE m.callTerm
      BY DEF ElectionInv, TalliesMatch
    <2>2. e \in Nat
      OBVIOUS
    <2>3. CASE j = i
      BY <1>2, <1>3, <2>1, <2>2, <2>3
    <2>4. CASE j # i
      BY <1>3, <2>1, <2>4
    <2> QED
      BY <2>3, <2>4
  <1> QED
    BY <1>4, <1>5

\* What callElection's request for votes changes: an empty tally is opened.
LEMMA CallElectionFacts ==
  ASSUME TypeOK, ElectionInv, NEW i \in Server, NEW e \in electionCalls[i],
         CallElection(i, e)
  PROVE  /\ UNCHANGED <<currentTerm, votedFor, state>>
         /\ e \in 1 .. MaxTerm
         /\ tally'[i][e].term = currentTerm[i] /\ tally'[i][e].votes = {}
         /\ electionCalls'[i] = electionCalls[i] \ {e}
         /\ \A f \in 1 .. MaxTerm \ {e} : tally'[i][f] = tally[i][f]
         /\ \A j \in Server \ {i} : /\ tally'[j] = tally[j]
                                    /\ electionCalls'[j] = electionCalls[j]
         /\ \A m \in rpcs' : m \notin rpcs =>
               m.type = "VoteCall" /\ m.from = i /\ m.election = e /\ m.term = currentTerm[i]
         /\ e <= currentTerm[i] /\ tally[i][e].votes = {}
         /\ \A m \in rpcs : ~VoteCallOf(m, i, e)
         /\ \A q, j \in Server : TermsVoted(q, j)' \subseteq TermsVoted(q, j)
  <1> DEFINE asked == [term |-> currentTerm[i], votes |-> {}]
  <1>1. /\ UNCHANGED <<currentTerm, votedFor, state>>
        /\ electionCalls' = [electionCalls EXCEPT ![i] = @ \ {e}]
        /\ tally' = [tally EXCEPT ![i][e] = asked]
    BY DEF CallElection, serverVars
  <1>2. e \in 1 .. MaxTerm
    BY DEF TypeOK, ElectionTypes
  <1>3. /\ tally'[i][e] = asked /\ electionCalls'[i] = electionCalls[i] \ {e}
        /\ \A f \in 1 .. MaxTerm \ {e} : tally'[i][f] = tally[i][f]
        /\ \A j \in Server \ {i} : /\ tally'[j] = tally[j]
                                   /\ electionCalls'[j] = electionCalls[j]
    BY <1>1, <1>2 DEF TypeOK, ElectionTypes
  <1>4. asked.votes = {} /\ asked.term = currentTerm[i]
    OBVIOUS
  <1> HIDE DEF asked
  <1>5. ASSUME NEW m \in rpcs', m \notin rpcs
        PROVE  m.type = "VoteCall" /\ m.from = i /\ m.election = e /\ m.term = currentTerm[i]
    BY <1>5 DEF CallElection, SendCalls, VoteCall
  <1>6. /\ e <= currentTerm[i] /\ tally[i][e].votes = {}
        /\ \A m \in rpcs : ~VoteCallOf(m, i, e)
    BY <1>2 DEF ElectionInv, TalliesMatch
  <1>7. ASSUME NEW q \in Server, NEW j \in Server
        PROVE  TermsVoted(q, j)' \subseteq TermsVoted(q, j)
    <2>1. \A f \in 1 .. MaxTerm : q \in tally'[j][f].votes => tally'[j][f] = tally[j][f]
      BY <1>3, <1>4
    <2> QED
      BY <1>1, <1>5, <2>1 DEF TermsVoted
  <1> QED
    BY <1>1, <1>2, <1>3, <1>4, <1>5, <1>6, <1>7

LEMMA CallElectionStep ==
  ASSUME TypeOK, TypeOK', ElectionInv, NEW i \in Server, NEW e \in electionCalls[i],
         CallElection(i, e)
  PROVE  ElectionInv'
  <1>1. UNCHANGED <<currentTerm, votedFor, state>> /\ e \in 1 .. MaxTerm
    BY CallElectionFacts
  <1>3. /\ tally'[i][e].votes = {} /\ tally'[i][e].term = currentTerm[i]
        /\ electionCalls'[i] = electionCalls[i] \ {e}
        /\ \A f \in 1 .. MaxTerm \ {e} : tally'[i][f] = tally[i][f]
        /\ \A j \in Server \ {i} : /\ tally'[j] = tally[j]
                                   /\ electionCalls'[j] = electionCalls[j]
    BY CallElectionFacts
  <1>5. ASSUME NEW m \in rpcs', m \notin rpcs
        PROVE  m.type = "VoteCall" /\ m.from = i /\ m.election = e /\ m.term = currentTerm[i]
    BY <1>5, CallElectionFacts
  <1>6. /\ e <= currentTerm[i] /\ tally[i][e].votes = {}
        /\ \A m \in rpcs : ~VoteCallOf(m, i, e)
    BY CallElectionFacts
  <1>7. \A q, j \in Server : TermsVoted(q, j)' \subseteq TermsVoted(q, j)
    BY CallElectionFacts
  <1>8. VotesRemembered' /\ VotesUnique'
    BY <1>1, <1>7 DEF ElectionInv, VotesRemembered, VotesUnique
  <1>9. LeadersElected'
    <2> SUFFICES ASSUME NEW j \in Server, state'[j] = Leader
                 PROVE  \E f \in 1 .. MaxTerm :
                          /\ tally'[j][f].term = currentTerm'[j] /\ tally'[j][f].votes # {}
                          /\ Majority(tally'[j][f].votes \cup {j})
      BY DEF LeadersElected, Majority
    <2>1. PICK f \in 1 .. MaxTerm :
            /\ tally[j][f].term = currentTerm[j] /\ tally[j][f].votes # {}
            /\ Majority(tally[j][f].votes \cup {j})
      BY <1>1 DEF ElectionInv, LeadersElected
    <2>2. tally'[j][f] = tally[j][f]
      BY <1>3, <1>6, <2>1
    <2> QED
      BY <1>1, <2>1, <2>2
  <1>10. TalliesMatch'
    <2> SUFFICES ASSUME NEW j \in Server, NEW f \in 1 .. MaxTerm
                 PROVE  /\ f \in electionCalls'[j] => f <= currentTerm'[j]
                        /\ f > currentTerm'[j] \/ f \in electionCalls'[j] =>
                             tally'[j][f].votes = {} /\ \A m \in rpcs' : ~VoteCallOf(m, j, f)
                        /\ \A m \in rpcs' : VoteCallOf(m, j, f) =>
                             tally'[j][f].term =
                               IF m.type = "VoteCall" THEN m.term ELSE m.callTerm
      BY DEF TalliesMatch, VoteCallOf
    <2>1. /\ f \in electionCalls[j] => f <= currentTerm[j]
          /\ f > currentTerm[j] \/ f \in electionCalls[j] =>
               tally[j][f].votes = {} /\ \A m \in rpcs : ~VoteCallOf(m, j, f)
          /\ \A m \in rpcs : VoteCallOf(m, j, f) =>
               tally[j][f].term = IF m.type = "VoteCall" THEN m.term ELSE m.callTerm
      BY DEF ElectionInv, TalliesMatch
    <2>2. CASE j = i /\ f = e
      <3>1. f \notin electionCalls'[j] /\ ~(f > currentTerm'[j])
        BY <1>1, <1>3, <1>6, <2>2 DEF TypeOK, ServerTypes
      <3>2. \A m \in rpcs' : VoteCallOf(m, j, f) => m.type = "VoteCall" /\ m.term = currentTerm[i]
        BY <1>5, <1>6, <2>2 DEF VoteCallOf
      <3> QED
        BY <1>3, <2>2, <3>1, <3>2
    <2>3. CASE ~(j = i /\ f = e)
      <3>1. tally'[j][f] = tally[j][f] /\ (f \in electionCalls'[j] <=> f \in electionCalls[j])
        BY <1>3, <2>3
      <3>2. \A m \in rpcs' : VoteCallOf(m, j, f) => m \in rpcs
        BY <1>5, <2>3 DEF VoteCallOf
      <3> QED
        BY <1>1, <2>1, <3>1, <3>2
    <2> QED
      BY <2>2, <2>3
  <1> QED
    BY <1>8, <1>9, <1>10 DEF ElectionInv

\* What a voter does, free of the call's details.
LEMMA VoterFacts ==
  ASSUME TypeOK, NEW m \in rpcs, RequestVote(m)
  PROVE  /\ m.to \in Server /\ m.from \in Server /\ m.term \in Nat
         /\ electionVars' = electionVars
         /\ \A q \in Server \ {m.to} :
              /\ currentTerm'[q] = currentTerm[q] /\ votedFor'[q] = votedFor[q]
              /\ state'[q] = state[q]
         /\ currentTerm'[m.to] = IF m.term > currentTerm[m.to] THEN m.term ELSE currentTerm[m.to]
         /\ state'[m.to] = IF m.term > currentTerm[m.to] THEN Follower ELSE state[m.to]
         /\ votedFor'[m.to] = IF MayVote(m.to, m) THEN m.from
                              ELSE IF m.term > currentTerm[m.to] THEN None ELSE votedFor[m.to]
         /\ m.type = "VoteCall"
         /\ \A r \in rpcs' : r \in rpcs \/
              /\ r.type = "VoteReply" /\ r.from = m.from /\ r.to = m.to
              /\ r.election = m.election /\ r.callTerm = m.term
              /\ r.granted = MayVote(m.to, m)
  <1>1. /\ m.to \in Server /\ m.from \in Server /\ m.term \in Nat
    BY RpcKinds DEF TypeOK
  <1>2. \A r \in rpcs' : r \in rpcs \/ r = VoteReply(m, currentTerm'[m.to], MayVote(m.to, m))
    BY DEF RequestVote, Return
  <1>3. \A r \in rpcs' : r \in rpcs \/
              /\ r.type = "VoteReply" /\ r.from = m.from /\ r.to = m.to
              /\ r.election = m.election /\ r.callTerm = m.term
              /\ r.granted = MayVote(m.to, m)
    BY <1>2 DEF VoteReply
  <1> QED
    BY <1>1, <1>3 DEF RequestVote, TypeOK, ServerTypes, electionVars

\* A request that is granted adds one vote, and no other request adds any.
LEMMA VoterTerms ==
  ASSUME TypeOK, NEW m \in rpcs, RequestVote(m), NEW q \in Server, NEW j \in Server,
         NEW T \in TermsVoted(q, j)'
  PROVE  T \in TermsVoted(q, j) \/ (MayVote(m.to, m) /\ q = m.to /\ j = m.from /\ T = m.term)
  <1> DEFINE v == m.to
             T0 == m.term
             granted == MayVote(m.to, m)
  <1>1. /\ v \in Server /\ m.from \in Server /\ T0 \in Nat
        /\ tally' = tally
        /\ \A w \in Server \ {v} :
              /\ currentTerm'[w] = currentTerm[w] /\ votedFor'[w] = votedFor[w]
              /\ state'[w] = state[w]
        /\ currentTerm'[v] = IF T0 > currentTerm[v] THEN T0 ELSE currentTerm[v]
        /\ state'[v] = IF T0 > currentTerm[v] THEN Follower ELSE state[v]
        /\ votedFor'[v] = IF granted THEN m.from
                          ELSE IF T0 > currentTerm[v] THEN None ELSE votedFor[v]
    BY VoterFacts DEF electionVars
  <1>2. \A r \in rpcs' : r \in rpcs \/
              /\ r.type = "VoteReply" /\ r.from = m.from /\ r.to = v
              /\ r.callTerm = T0 /\ r.granted = granted
    BY VoterFacts
  <1> HIDE DEF v, T0, granted
  <1>3. ASSUME NEW r \in rpcs', r.type = "VoteReply", r.granted, r.to = q, r.from = j,
               T = r.callTerm
        PROVE  T \in TermsVoted(q, j) \/ (granted /\ q = v /\ j = m.from /\ T = T0)
    BY <1>2, <1>3 DEF TermsVoted
  <1>4. ASSUME q = j, state'[j] # Follower, T = currentTerm'[j]
        PROVE  T \in TermsVoted(q, j)
    <2>1. state[j] # Follower /\ currentTerm'[j] = currentTerm[j]
      BY <1>1, <1>4
    <2> QED
      BY <1>4, <2>1 DEF TermsVoted
  <1>5. ASSUME NEW e \in 1 .. MaxTerm, q \in tally'[j][e].votes, T = tally'[j][e].term
        PROVE  T \in TermsVoted(q, j)
    BY <1>1, <1>5 DEF TermsVoted
  <1> QED
    BY <1>3, <1>4, <1>5 DEF TermsVoted, v, T0, granted

LEMMA RequestVoteVotes ==
  ASSUME TypeOK, TypeOK', ElectionInv, NEW m \in rpcs, RequestVote(m)
  PROVE  VotesRemembered' /\ VotesUnique'
  <1> DEFINE v == m.to
             T0 == m.term
             granted == MayVote(m.to, m)
  <1>1. /\ v \in Server /\ m.from \in Server /\ T0 \in Nat
        /\ tally' = tally
        /\ \A q \in Server \ {v} :
              /\ currentTerm'[q] = currentTerm[q] /\ votedFor'[q] = votedFor[q]
              /\ state'[q] = state[q]
        /\ currentTerm'[v] = IF T0 > currentTerm[v] THEN T0 ELSE currentTerm[v]
        /\ state'[v] = IF T0 > currentTerm[v] THEN Follower ELSE state[v]
        /\ votedFor'[v] = IF granted THEN m.from
                          ELSE IF T0 > currentTerm[v] THEN None ELSE votedFor[v]
    BY VoterFacts DEF electionVars
  <1>2. \A r \in rpcs' : r \in rpcs \/
              /\ r.type = "VoteReply" /\ r.from = m.from /\ r.to = v
              /\ r.callTerm = T0 /\ r.granted = granted
    BY VoterFacts
  <1>3. granted => T0 >= currentTerm[v] /\ (T0 = currentTerm[v] => votedFor[v] \in {None, m.from})
    <2>1. T0 \in Nat /\ currentTerm[v] \in Nat
      BY VoterFacts DEF TypeOK, ServerTypes
    <2> QED
      BY <2>1 DEF MayVote
  <1>4. granted \in BOOLEAN
    BY DEF MayVote
  <1> HIDE DEF v, T0, granted
  <1>5. ASSUME NEW q \in Server, NEW j \in Server, NEW T \in TermsVoted(q, j)'
        PROVE  T \in TermsVoted(q, j) \/ (granted /\ q = v /\ j = m.from /\ T = T0)
    BY <1>5, VoterTerms DEF v, T0, granted
  <1>6. \A q, j \in Server : \A T \in TermsVoted(q, j) :
          T \in Nat /\ currentTerm[q] >= T /\ (currentTerm[q] = T => votedFor[q] = j)
    BY VotedType DEF ElectionInv, VotesRemembered
  <1>7. \A q \in Server : currentTerm[q] \in Nat
    BY DEF TypeOK, ServerTypes
  <1>8. \A j \in Server : j # None
    BY ServerAssumption
  <1>9. VotesRemembered'
    <2> SUFFICES ASSUME NEW q \in Server, NEW j \in Server, NEW T \in TermsVoted(q, j)'
                 PROVE  currentTerm'[q] >= T /\ (currentTerm'[q] = T => votedFor'[q] = j)
      BY DEF VotesRemembered
    <2>1. CASE q # v
      BY <1>1, <1>5, <1>6, <2>1
    <2>2. CASE q = v /\ T \in TermsVoted(q, j)
      <3>1. T \in Nat /\ currentTerm[v] >= T /\ (currentTerm[v] = T => votedFor[v] = j)
        BY <1>6, <2>2
      <3> QED
        BY <1>1, <1>3, <1>7, <1>8, <2>2, <3>1
    <2>3. CASE granted /\ q = v /\ j = m.from /\ T = T0
      BY <1>1, <1>3, <1>7, <2>3
    <2> QED
      BY <1>5, <2>1, <2>2, <2>3
  <1>10. VotesUnique'
    <2> SUFFICES ASSUME NEW q \in Server, NEW j \in Server, NEW k \in Server,
                        NEW T \in TermsVoted(q, j)', T \in TermsVoted(q, k)'
                 PROVE  j = k
      BY DEF VotesUnique
    <2>1. CASE T \in TermsVoted(q, j) /\ T \in TermsVoted(q, k)
      BY <2>1 DEF ElectionInv, VotesUnique
    <2>2. ASSUME NEW i \in Server, T \in TermsVoted(v, i), granted, T = T0
          PROVE  i = m.from
      BY <1>1, <1>3, <1>6, <1>7, <1>8, <2>2
    <2> QED
      BY <1>5, <2>1, <2>2
  <1> QED
    BY <1>9, <1>10

LEMMA RequestVoteTallies ==
  ASSUME TypeOK, TypeOK', ElectionInv, NEW m \in rpcs, RequestVote(m)
  PROVE  LeadersElected' /\ TalliesMatch'
  <1>1. tally' = tally /\ electionCalls' = electionCalls
    BY VoterFacts DEF electionVars
  <1>2. ASSUME NEW j \in Server
        PROVE  /\ currentTerm[j] \in Nat /\ currentTerm'[j] >= currentTerm[j]
               /\ state'[j] = Leader => state[j] = Leader /\ currentTerm'[j] = currentTerm[j]
    BY VoterFacts DEF Leader, Follower, TypeOK, ServerTypes
  <1>3. LeadersElected'
    <2> SUFFICES ASSUME NEW j \in Server, state'[j] = Leader
                 PROVE  \E e \in 1 .. MaxTerm :
                          /\ tally'[j][e].term = currentTerm'[j] /\ tally'[j][e].votes # {}
                          /\ Majority(tally'[j][e].votes \cup {j})
      BY DEF LeadersElected, Majority
    <2> QED
      BY <1>1, <1>2 DEF ElectionInv, LeadersElected
  <1>4. ASSUME NEW r \in rpcs', NEW j \in Server, NEW e \in 1 .. MaxTerm, VoteCallOf(r, j, e)
        PROVE  /\ \E r0 \in rpcs : VoteCallOf(r0, j, e)
               /\ tally[j][e].term = IF r.type = "VoteCall" THEN r.term ELSE r.callTerm
    <2>1. CASE r \in rpcs
      BY <1>4, <2>1 DEF ElectionInv, TalliesMatch
    <2>2. CASE r \notin rpcs
      <3>1. /\ m.type = "VoteCall" /\ r.type = "VoteReply" /\ r.from = m.from
            /\ r.election = m.election /\ r.callTerm = m.term
        BY <2>2, VoterFacts
      <3>2. VoteCallOf(m, j, e)
        BY <1>4, <3>1 DEF VoteCallOf
      <3>3. tally[j][e].term = m.term
        BY <3>1, <3>2 DEF ElectionInv, TalliesMatch
      <3> QED
        BY <3>1, <3>2, <3>3
    <2> QED
      BY <2>1, <2>2
  <1>5. TalliesMatch'
    <2> SUFFICES ASSUME NEW j \in Server, NEW e \in 1 .. MaxTerm
                 PROVE  /\ e \in electionCalls[j] => e <= currentTerm'[j]
                        /\ e > currentTerm'[j] \/ e \in electionCalls[j] =>
                             tally[j][e].votes = {} /\ \A r \in rpcs' : ~VoteCallOf(r, j, e)
                        /\ \A r \in rpcs' : VoteCallOf(r, j, e) =>
                             tally[j][e].term =
                               IF r.type = "VoteCall" THEN r.term ELSE r.callTerm
      BY <1>1 DEF TalliesMatch, VoteCallOf
    <2>1. /\ e \in electionCalls[j] => e <= currentTerm[j]
          /\ e > currentTerm[j] \/ e \in electionCalls[j] =>
               tally[j][e].votes = {} /\ \A r \in rpcs : ~VoteCallOf(r, j, e)
      BY DEF ElectionInv, TalliesMatch
    <2>2. currentTerm'[j] \in Nat /\ e \in Nat
      BY DEF TypeOK, ServerTypes
    <2> QED
      BY <1>2, <1>4, <2>1, <2>2
  <1> QED
    BY <1>3, <1>5

\* A vote is counted by a candidate of the term the vote was asked for in.
Counts(m) == currentTerm[m.from] = m.callTerm /\ state[m.from] = Candidate /\ m.granted
VotesWith(m) == tally[m.from][m.election].votes \cup {m.to}

\* What counting a vote changes: no vote is added to those already given.
LEMMA CountVoteFacts ==
  ASSUME TypeOK, ElectionInv, NEW m \in rpcs, CountVote(m)
  PROVE  /\ m.type = "VoteReply" /\ m.from \in Server /\ m.to \in Server
         /\ m.election \in 1 .. MaxTerm
         /\ UNCHANGED <<currentTerm, votedFor, electionCalls>>
         /\ rpcs' = rpcs \ {m}
         /\ tally[m.from][m.election].term = m.callTerm
         /\ \A j \in Server : \A f \in 1 .. MaxTerm : tally'[j][f].term = tally[j][f].term
         /\ \A j \in Server : \A f \in 1 .. MaxTerm :
              tally'[j][f].votes = IF Counts(m) /\ j = m.from /\ f = m.election
                                   THEN VotesWith(m) ELSE tally[j][f].votes
         /\ \A j \in Server : /\ state'[j] # Follower => state[j] # Follower
                              /\ state'[j] = Leader =>
                                   \/ state[j] = Leader
                                   \/ j = m.from /\ Counts(m) /\ Majority(VotesWith(m) \cup {j})
         /\ Counts(m) => m.callTerm \in TermsVoted(m.to, m.from)
         /\ \A q, j \in Server : TermsVoted(q, j)' \subseteq TermsVoted(q, j)
  <1> DEFINE i == m.from
             e == m.election
             votes == tally[i][e].votes \cup {m.to}
             counts == currentTerm[i] = m.callTerm /\ state[i] = Candidate /\ m.granted
  <1>1. m.type = "VoteReply" /\ i \in Server /\ m.to \in Server /\ e \in 1 .. MaxTerm
    BY RpcKinds DEF CountVote, TypeOK, VoteReplies
  <1>2. /\ UNCHANGED <<currentTerm, votedFor, electionCalls>>
        /\ rpcs' = rpcs \ {m}
        /\ IF counts THEN tally' = [tally EXCEPT ![i][e].votes = votes]
                     ELSE UNCHANGED <<tally, state>>
        /\ \/ UNCHANGED state
           \/ /\ counts /\ Majority(votes \cup {i})
              /\ state' = [state EXCEPT ![i] = Leader]
    BY DEF CountVote, Received, ConvertToLeader
  <1>3. tally[i][e].term = m.callTerm
    BY <1>1 DEF ElectionInv, TalliesMatch, VoteCallOf
  <1>4. /\ \A j \in Server : \A f \in 1 .. MaxTerm : tally'[j][f].term = tally[j][f].term
        /\ \A j \in Server : \A f \in 1 .. MaxTerm :
             tally'[j][f].votes = IF counts /\ j = i /\ f = e THEN votes
                                  ELSE tally[j][f].votes
    <2>1. CASE counts
      <3>1. tally' = [tally EXCEPT ![i][e].votes = votes]
        BY <1>2, <2>1
      <3>2. tally \in [Server -> [1 .. MaxTerm -> [term : Nat, votes : SUBSET Server]]]
        BY DEF TypeOK, ElectionTypes
      <3> HIDE DEF i, e, votes, counts
      <3>3. /\ \A j \in Server \ {i} : tally'[j] = tally[j]
            /\ \A f \in 1 .. MaxTerm \ {e} : tally'[i][f] = tally[i][f]
            /\ tally'[i][e] = [tally[i][e] EXCEPT !.votes = votes]
        BY <1>1, <3>1, <3>2
      <3>4. tally'[i][e].term = tally[i][e].term /\ tally'[i][e].votes = votes
        BY <1>1, <3>2, <3>3
      <3> QED
        BY <2>1, <3>3, <3>4
    <2>2. CASE ~counts
      BY <1>2, <2>2
    <2> QED
      BY <2>1, <2>2
  <1>5. \A j \in Server : /\ state'[j] # Follower => state[j] # Follower
                          /\ state'[j] = Leader =>
                               state[j] = Leader \/ (j = i /\ counts /\ Majority(votes \cup {i}))
    <2>1. CASE counts /\ state' = [state EXCEPT ![i] = Leader] /\ Majority(votes \cup {i})
      <3>1. state \in [Server -> {Follower, Candidate, Leader}] /\ state[i] # Follower
        BY <2>1 DEF TypeOK, ServerTypes, Candidate, Follower
      <3>2. state' = [state EXCEPT ![i] = Leader] /\ counts /\ Majority(votes \cup {i})
        BY <2>1
      <3>3. i \in Server
        BY <1>1
      <3> HIDE DEF i, e, votes, counts
      <3>4. \A j \in Server : state'[j] = state[j] \/ j = i
        BY <3>1, <3>2, <3>3
      <3> QED
        BY <3>1, <3>2, <3>4
    <2>2. CASE UNCHANGED state
      BY <2>2
    <2>3. UNCHANGED state \/ (counts /\ state' = [state EXCEPT ![i] = Leader]
                             /\ Majority(votes \cup {i}))
      BY <1>2
    <2> HIDE DEF i, e, votes, counts
    <2> QED
      BY <2>1, <2>2, <2>3
  <1>6. counts => m.callTerm \in TermsVoted(m.to, i)
    BY <1>1 DEF TermsVoted
  <1>7. counts => currentTerm[i] = m.callTerm
    OBVIOUS
  <1>8. \A r \in rpcs' : r \in rpcs
    BY <1>2
  <1>9. votes = tally[i][e].votes \cup {m.to}
    OBVIOUS
  <1> HIDE DEF i, e, votes, counts
  <1>10. ASSUME NEW q \in Server, NEW j \in Server
         PROVE  TermsVoted(q, j)' \subseteq TermsVoted(q, j)
    <2>1. ASSUME NEW f \in 1 .. MaxTerm, q \in tally'[j][f].votes
          PROVE  tally'[j][f].term \in TermsVoted(q, j)
      <3>1. CASE q \in tally[j][f].votes
        BY <1>4, <3>1 DEF TermsVoted
      <3>2. CASE q \notin tally[j][f].votes
        <4>1. counts /\ j = i /\ f = e /\ q = m.to
          BY <1>4, <1>9, <2>1, <3>2
        <4> QED
          BY <1>1, <1>3, <1>4, <1>6, <4>1
      <3> QED
        BY <3>1, <3>2
    <2> QED
      BY <1>2, <1>5, <1>8, <2>1 DEF TermsVoted
  <1> QED
    BY <1>1, <1>2, <1>3, <1>4, <1>5, <1>6, <1>10 DEF Counts, VotesWith, i, e, votes, counts

LEMMA CountVoteStep ==
  ASSUME TypeOK, TypeOK', ElectionInv, NEW m \in rpcs, CountVote(m)
  PROVE  ElectionInv'
  <1> DEFINE i == m.from
             e == m.election
             votes == VotesWith(m)
             counts == Counts(m)
  <1>1. m.type = "VoteReply" /\ i \in Server /\ m.to \in Server /\ e \in 1 .. MaxTerm
    BY CountVoteFacts
  <1>2. UNCHANGED <<currentTerm, votedFor, electionCalls>> /\ rpcs' = rpcs \ {m}
    BY CountVoteFacts
  <1>3. tally[i][e].term = m.callTerm
    BY CountVoteFacts
  <1>4. /\ \A j \in Server : \A f \in 1 .. MaxTerm : tally'[j][f].term = tally[j][f].term
        /\ \A j \in Server : \A f \in 1 .. MaxTerm :
             tally'[j][f].votes = IF counts /\ j = i /\ f = e THEN votes
                                  ELSE tally[j][f].votes
    BY CountVoteFacts
  <1>5. \A j \in Server : state'[j] = Leader =>
          state[j] = Leader \/ (j = i /\ counts /\ Majority(votes \cup {i}))
    BY CountVoteFacts
  <1>7. counts => currentTerm[i] = m.callTerm /\ state[i] = Candidate
    BY DEF Counts
  <1>8. \A r \in rpcs' : r \in rpcs
    BY <1>2
  <1>9. votes = tally[i][e].votes \cup {m.to}
    BY DEF VotesWith
  <1>10. \A q, j \in Server : TermsVoted(q, j)' \subseteq TermsVoted(q, j)
    BY CountVoteFacts
  <1> HIDE DEF i, e, votes, counts
  <1>11. VotesRemembered' /\ VotesUnique'
    BY <1>2, <1>10 DEF ElectionInv, VotesRemembered, VotesUnique
  <1>12. LeadersElected'
    <2> SUFFICES ASSUME NEW j \in Server, state'[j] = Leader
                 PROVE  \E f \in 1 .. MaxTerm :
                          /\ tally'[j][f].term = currentTerm'[j] /\ tally'[j][f].votes # {}
                          /\ Majority(tally'[j][f].votes \cup {j})
      BY DEF LeadersElected, Majority
    <2>1. CASE j = i /\ counts /\ Majority(votes \cup {i})
      BY <1>1, <1>2, <1>3, <1>4, <1>7, <1>9, <2>1
    <2>2. CASE state[j] = Leader /\ ~(counts /\ j = i)
      BY <1>2, <1>4, <2>2 DEF ElectionInv, LeadersElected
    <2>3. ~(state[j] = Leader /\ counts /\ j = i)
      BY <1>7 DEF Candidate, Leader
    <2> QED
      BY <1>5, <2>1, <2>2, <2>3
  <1>13. TalliesMatch'
    <2> SUFFICES ASSUME NEW j \in Server, NEW f \in 1 .. MaxTerm
                 PROVE  /\ f \in electionCalls[j] => f <= currentTerm[j]
                        /\ f > currentTerm[j] \/ f \in electionCalls[j] =>
                             tally'[j][f].votes = {} /\ \A r \in rpcs' : ~VoteCallOf(r, j, f)
                        /\ \A r \in rpcs' : VoteCallOf(r, j, f) =>
                             tally'[j][f].term =
                               IF r.type = "VoteCall" THEN r.term ELSE r.callTerm
      BY <1>2 DEF TalliesMatch, VoteCallOf
    <2>1. /\ f \in electionCalls[j] => f <= currentTerm[j]
          /\ f > currentTerm[j] \/ f \in electionCalls[j] =>
               tally[j][f].votes = {} /\ \A r \in rpcs : ~VoteCallOf(r, j, f)
          /\ \A r \in rpcs : VoteCallOf(r, j, f) =>
               tally[j][f].term = IF r.type = "VoteCall" THEN r.term ELSE r.callTerm
      BY DEF ElectionInv, TalliesMatch
    <2>2. VoteCallOf(m, i, e)
      BY <1>1 DEF VoteCallOf, i, e
    <2> QED
      BY <1>4, <1>8, <2>1, <2>2
  <1> QED
    BY <1>11, <1>12, <1>13 DEF ElectionInv

-----------------------------------------------------------------------------
(* The election invariant and what follows from it.                        *)

LEMMA ElectionInit == Init => ElectionInv
  <1> SUFFICES ASSUME Init PROVE ElectionInv
    OBVIOUS
  <1>1. \A q, i \in Server : TermsVoted(q, i) = {}
    BY DEF Init, TermsVoted, Follower
  <1>2. VotesRemembered /\ VotesUnique
    BY <1>1 DEF VotesRemembered, VotesUnique
  <1>3. LeadersElected
    BY DEF Init, LeadersElected, Follower, Leader
  <1>4. TalliesMatch
    BY DEF Init, TalliesMatch
  <1> QED
    BY <1>2, <1>3, <1>4 DEF ElectionInv

LEMMA ElectionStep ==
  TypeOK /\ TypeOK' /\ DiskIsCurrent /\ ElectionInv /\ [Next]_vars => ElectionInv'
  <1> SUFFICES ASSUME TypeOK, TypeOK', DiskIsCurrent, ElectionInv, [Next]_vars
               PROVE  ElectionInv'
    OBVIOUS
  <1>1. ASSUME NEW i \in Server, Timeout(i)
        PROVE  ElectionInv'
    BY <1>1, TimeoutVotes, TimeoutTallies DEF ElectionInv
  <1>2. ASSUME NEW i \in Server, NEW e \in electionCalls[i], CallElection(i, e)
        PROVE  ElectionInv'
    BY <1>2, CallElectionStep
  <1>3. ASSUME NEW m \in rpcs, RequestVote(m)
        PROVE  ElectionInv'
    BY <1>3, RequestVoteVotes, RequestVoteTallies DEF ElectionInv
  <1>4. ASSUME NEW m \in rpcs, CountVote(m)
        PROVE  ElectionInv'
    BY <1>4, CountVoteStep
  <1>5. CASE Quiet
    BY <1>5, QuietStep
  <1>6. CASE UNCHANGED vars
    BY <1>6, SameServers, QuietIf, QuietStep DEF vars, NoNewVotes
  <1> QED
    BY <1>1, <1>2, <1>3, <1>4, <1>5, <1>6, QuietActions, QuietHandlers DEF Next, Handle

LEMMA ElectionAlways == Spec => [](TypeOK /\ DiskIsCurrent /\ ElectionInv)
  BY TypeCorrect, DiskAlwaysCurrent, ElectionInit, ElectionStep, PTL DEF Spec

\* A vote a candidate has been sent is remembered, by the server that gave it, as
\* the one vote of that term; a leader has a majority of such votes; and what a
\* goroutine of callElection counts are replies to its own request
\* (raft.go:108-152, 415-508).
THEOREM VotesAreCountedRight == Spec => []ElectionInv
  BY ElectionAlways, PTL

\* Two majorities share a server, and a server votes once in a term: the
\* votes both leaders were counted are still remembered by that server.
LEMMA OneLeader ==
  ASSUME TypeOK, ElectionInv
  PROVE  ElectionSafety
  <1> SUFFICES ASSUME NEW i \in Server, NEW j \in Server, state[i] = Leader,
                      state[j] = Leader, currentTerm[i] = currentTerm[j]
               PROVE  i = j
    BY DEF ElectionSafety
  <1>1. PICK e \in 1 .. MaxTerm : /\ tally[i][e].term = currentTerm[i]
                                 /\ Majority(tally[i][e].votes \cup {i})
    BY DEF ElectionInv, LeadersElected
  <1>2. PICK f \in 1 .. MaxTerm : /\ tally[j][f].term = currentTerm[j]
                                 /\ Majority(tally[j][f].votes \cup {j})
    BY DEF ElectionInv, LeadersElected
  <1> DEFINE A == tally[i][e].votes \cup {i}
             B == tally[j][f].votes \cup {j}
  <1>3. A \subseteq Server /\ B \subseteq Server
    BY DEF TypeOK, ElectionTypes
  <1>4. PICK q : q \in A /\ q \in B
    <2>1. Majority(A) /\ Majority(B)
      BY <1>1, <1>2
    <2> HIDE DEF A, B
    <2>2. /\ Cardinality(A) \in Nat /\ Cardinality(B) \in Nat
          /\ Cardinality(Server) \in Nat /\ IsFiniteSet(Server)
      BY <1>3, ServerAssumption, FS_Subset, FS_CardinalityType
    <2>3. Cardinality(A) + Cardinality(B) > Cardinality(Server)
      BY <2>1, <2>2 DEF Majority
    <2>4. A \cap B # {}
      BY <1>3, <2>2, <2>3, FS_MajoritiesIntersect
    <2> QED
      BY <2>4
  <1>5. q \in Server
    BY <1>3, <1>4
  <1>6. currentTerm[i] \in TermsVoted(q, i)
    BY <1>1, <1>4 DEF TermsVoted, Leader, Follower
  <1>7. currentTerm[i] \in TermsVoted(q, j)
    BY <1>2, <1>4 DEF TermsVoted, Leader, Follower
  <1> QED
    BY <1>5, <1>6, <1>7 DEF ElectionInv, VotesUnique

\* There is never more than one leader in a term, with any number of servers,
\* crashes, restarts and lost or delayed RPCs.
THEOREM ElectionIsSafe == Spec => []ElectionSafety
  BY ElectionAlways, OneLeader, PTL

\* A step that leaves the term of a server alone leaves a vote given alone.
VoteStands(i) ==
  currentTerm'[i] = currentTerm[i] /\ votedFor[i] # None => votedFor'[i] = votedFor[i]

LEMMA VoteStep ==
  TypeOK /\ DiskIsCurrent /\ [Next]_vars => [\A i \in Server : VoteStands(i)]_vars
  <1> SUFFICES ASSUME TypeOK, DiskIsCurrent, Next
               PROVE  \A i \in Server : VoteStands(i)
    OBVIOUS
  <1>1. CASE Quiet
    BY <1>1 DEF Quiet, QuietAt, VoteStands, TypeOK, ServerTypes
  <1>2. ASSUME NEW i \in Server, Timeout(i)
        PROVE  \A j \in Server : VoteStands(j)
    <2>1. /\ currentTerm' = [currentTerm EXCEPT ![i] = @ + 1]
          /\ votedFor' = [votedFor EXCEPT ![i] = i]
      BY <1>2 DEF Timeout
    <2> QED
      BY <2>1 DEF VoteStands, TypeOK, ServerTypes
  <1>3. ASSUME NEW i \in Server, NEW e \in electionCalls[i], CallElection(i, e)
        PROVE  \A j \in Server : VoteStands(j)
    BY <1>3 DEF CallElection, VoteStands, serverVars
  <1>4. ASSUME NEW m \in rpcs, RequestVote(m)
        PROVE  \A j \in Server : VoteStands(j)
    <2>1. m.term \in Nat /\ currentTerm[m.to] \in Nat
      BY VoterFacts, <1>4 DEF TypeOK, ServerTypes
    <2>2. MayVote(m.to, m) =>
            m.term > currentTerm[m.to] \/ votedFor[m.to] \in {None, m.from}
      BY DEF MayVote
    <2> QED
      BY <1>4, <2>1, <2>2, VoterFacts DEF VoteStands
  <1>5. ASSUME NEW m \in rpcs, CountVote(m)
        PROVE  \A j \in Server : VoteStands(j)
    BY <1>5 DEF CountVote, VoteStands
  <1> QED
    BY <1>1, <1>2, <1>3, <1>4, <1>5, QuietActions, QuietHandlers DEF Next, Handle

\* A vote given in a term is never changed or forgotten while the term lasts,
\* whether the server steps down, hears from another candidate or crashes.
THEOREM VotesAreFinal == Spec => VoteOncePerTerm
  <1>1. [\A i \in Server : VoteStands(i)]_vars =>
          [\A i \in Server : currentTerm'[i] = currentTerm[i] /\ votedFor[i] # None
                               => votedFor'[i] = votedFor[i]]_vars
    BY DEF VoteStands
  <1> QED
    BY <1>1, TypeCorrect, DiskAlwaysCurrent, VoteStep, PTL DEF Spec, VoteOncePerTerm

=============================================================================
