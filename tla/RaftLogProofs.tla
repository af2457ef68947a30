--------------------------- MODULE RaftLogProofs ---------------------------
(***************************************************************************)
(* The logs and commits of Raft, for every set of servers, every set of    *)
(* commands and all bounds: indexes in range, log matching, the safety of  *)
(* the applied state machine, the completeness of leaders, what a leader   *)
(* may do to its log, and the service beside Raft.                         *)
(*                                                                         *)
(* The invariant speaks of two functions the program does not keep.  L[T]  *)
(* is the log, snapshots included, that the leader of term T has had;      *)
(* A[q][t] is how far server q has acknowledged the log of the leader of   *)
(* term t.  LogInv says that two such functions exist that fit the state;  *)
(* each action's proof names the ones that fit the next state.  An index   *)
(* may be committed in L[T] once half the servers have acknowledged it in  *)
(* term T, or can still do so (Choosable): every later leader then has it, *)
(* because half the servers and a majority share one.                      *)
(*                                                                         *)
(* The order: the ghosts and the invariant; how a step may move them       *)
(* (LogStep); quiet steps, appends, replies, snapshots, elections,         *)
(* submissions, one by one; then the theorems.                             *)
(***************************************************************************)
EXTENDS RaftProofs

-----------------------------------------------------------------------------
(* Who asks for votes, and who has been elected.                           *)

LastTerm(i) == log[i][Len(log[i])].term

\* i has been elected in term T: one of its tallies holds a majority.
ElectedBy(i, T) ==
  \E e \in 1 .. MaxTerm :
    /\ tally[i][e].term = T /\ tally[i][e].votes # {}
    /\ Majority(tally[i][e].votes \cup {i})
Elected(T) == \E i \in Server : ElectedBy(i, T)

\* No vote is asked for, given or counted in a term its candidate has not
\* reached; and a candidate whose tally is not empty has voted for itself.
VotesAsked ==
  \A m \in rpcs : m.type = "VoteCall" => m.term <= currentTerm[m.from]
TermsReached ==
  \A q, i \in Server : \A T \in TermsVoted(q, i) : T <= currentTerm[i]
TalliesOwn ==
  \A i \in Server : \A e \in 1 .. MaxTerm : tally[i][e].votes # {} =>
    /\ currentTerm[i] = tally[i][e].term => votedFor[i] = i
    /\ \A j \in Server \ {i} : tally[i][e].term \notin TermsVoted(i, j)
AskedInv == VotesAsked /\ TermsReached /\ TalliesOwn

LEMMA TalliedVotes ==
  ASSUME TypeOK, NEW i \in Server, NEW e \in 1 .. MaxTerm
  PROVE  /\ tally[i][e].votes \subseteq Server /\ tally[i][e].term \in Nat
         /\ \A q \in tally[i][e].votes : tally[i][e].term \in TermsVoted(q, i)
  <1>1. tally[i][e].votes \subseteq Server /\ tally[i][e].term \in Nat
    <2>1. ElectionTypes
      BY DEF TypeOK
    <2>2. tally[i][e] \in [term : Nat, votes : SUBSET Server]
      BY <2>1 DEF ElectionTypes
    <2> QED
      BY <2>2
  <1> QED
    BY <1>1 DEF TermsVoted

LEMMA TallyReached ==
  ASSUME TypeOK, TermsReached, NEW i \in Server, NEW e \in 1 .. MaxTerm, tally[i][e].votes # {}
  PROVE  tally[i][e].term <= currentTerm[i]
  <1>1. PICK q \in tally[i][e].votes : TRUE
    OBVIOUS
  <1>2. q \in Server /\ tally[i][e].term \in TermsVoted(q, i)
    BY <1>1, TalliedVotes
  <1> QED
    BY <1>2 DEF TermsReached

LEMMA QuietAsked ==
  ASSUME TypeOK, TypeOK', ElectionInv, AskedInv, Quiet
  PROVE  AskedInv'
  <1>1. \A i \in Server : /\ currentTerm[i] \in Nat /\ currentTerm'[i] \in Nat
                          /\ currentTerm'[i] >= currentTerm[i]
                          /\ currentTerm'[i] = currentTerm[i] => votedFor'[i] = votedFor[i]
    BY DEF Quiet, QuietAt, TypeOK, ServerTypes
  <1>2. VotesAsked'
    <2> SUFFICES ASSUME NEW m \in rpcs', m.type = "VoteCall"
                 PROVE  m.term <= currentTerm'[m.from]
      BY DEF VotesAsked
    <2>1. PICK r \in rpcs : SameVoteRpc(m, r)
      BY DEF Quiet
    <2>2. /\ r.type = "VoteCall" /\ r.from = m.from /\ r.term = m.term
          /\ r.from \in Server /\ r.term \in Nat
      BY <2>1, RpcKinds DEF SameVoteRpc, TypeOK
    <2>3. r.term <= currentTerm[r.from]
      BY <2>2 DEF AskedInv, VotesAsked
    <2> QED
      BY <1>1, <2>2, <2>3
  <1>3. TermsReached'
    <2> SUFFICES ASSUME NEW q \in Server, NEW i \in Server, NEW T \in TermsVoted(q, i)'
                 PROVE  T <= currentTerm'[i]
      BY DEF TermsReached
    <2>1. T \in TermsVoted(q, i) /\ T \in Nat
      BY QuietVotes, VotedType
    <2>2. T <= currentTerm[i]
      BY <2>1 DEF AskedInv, TermsReached
    <2> QED
      BY <1>1, <2>1, <2>2
  <1>4. TalliesOwn'
    <2> SUFFICES ASSUME NEW i \in Server, NEW e \in 1 .. MaxTerm, tally'[i][e].votes # {}
                 PROVE  /\ currentTerm'[i] = tally'[i][e].term => votedFor'[i] = i
                        /\ \A j \in Server \ {i} : tally'[i][e].term \notin TermsVoted(i, j)'
      BY DEF TalliesOwn
    <2>1. tally' = tally
      BY DEF Quiet
    <2>2. /\ currentTerm[i] = tally[i][e].term => votedFor[i] = i
          /\ \A j \in Server \ {i} : tally[i][e].term \notin TermsVoted(i, j)
      BY <2>1 DEF AskedInv, TalliesOwn
    <2>3. tally[i][e].term <= currentTerm[i] /\ tally[i][e].term \in Nat
      BY <2>1, TallyReached, TalliedVotes DEF AskedInv
    <2>4. \A j \in Server : TermsVoted(i, j)' \subseteq TermsVoted(i, j)
      BY QuietVotes
    <2> QED
      BY <1>1, <2>1, <2>2, <2>3, <2>4
  <1> QED
    BY <1>2, <1>3, <1>4 DEF AskedInv

LEMMA TimeoutAsked ==
  ASSUME TypeOK, TypeOK', ElectionInv, AskedInv, NEW i \in Server, Timeout(i)
  PROVE  AskedInv'
  <1>1. /\ currentTerm' = [currentTerm EXCEPT ![i] = @ + 1]
        /\ votedFor' = [votedFor EXCEPT ![i] = i]
        /\ tally' = tally /\ rpcs' = rpcs
    BY DEF Timeout
  <1>2. /\ \A q \in Server : currentTerm[q] \in Nat /\ currentTerm'[q] >= currentTerm[q]
        /\ currentTerm'[i] = currentTerm[i] + 1
        /\ \A q \in Server \ {i} : currentTerm'[q] = currentTerm[q] /\ votedFor'[q] = votedFor[q]
        /\ \A q \in Server : currentTerm'[q] \in Nat
    BY <1>1 DEF TypeOK, ServerTypes
  <1>3. VotesAsked'
    <2>1. ASSUME NEW m \in rpcs, m.type = "VoteCall"
          PROVE  m.term <= currentTerm'[m.from]
      <3>1. m.from \in Server /\ m.term \in Nat /\ m.term <= currentTerm[m.from]
        BY <2>1, RpcKinds DEF AskedInv, VotesAsked, TypeOK
      <3> QED
        BY <1>2, <3>1
    <2> QED
      BY <1>1, <2>1 DEF VotesAsked
  <1>4. TermsReached'
    <2> SUFFICES ASSUME NEW q \in Server, NEW j \in Server, NEW T \in TermsVoted(q, j)'
                 PROVE  T <= currentTerm'[j]
      BY DEF TermsReached
    <2>1. T \in TermsVoted(q, j) \/ (q = i /\ j = i /\ T = currentTerm[i] + 1)
      BY TimeoutAsks
    <2>2. CASE T \in TermsVoted(q, j)
      <3>1. T \in Nat /\ T <= currentTerm[j]
        BY <2>2, VotedType DEF AskedInv, TermsReached
      <3> QED
        BY <1>2, <3>1
    <2> QED
      BY <1>2, <2>1, <2>2
  <1>5. TalliesOwn'
    <2> SUFFICES ASSUME NEW j \in Server, NEW e \in 1 .. MaxTerm, tally[j][e].votes # {}
                 PROVE  /\ currentTerm'[j] = tally[j][e].term => votedFor'[j] = j
                        /\ \A k \in Server \ {j} : tally[j][e].term \notin TermsVoted(j, k)'
      BY <1>1 DEF TalliesOwn
    <2>1. /\ currentTerm[j] = tally[j][e].term => votedFor[j] = j
          /\ \A k \in Server \ {j} : tally[j][e].term \notin TermsVoted(j, k)
      BY DEF AskedInv, TalliesOwn
    <2>2. tally[j][e].term <= currentTerm[j] /\ tally[j][e].term \in Nat
      BY TallyReached, TalliedVotes DEF AskedInv
    <2> QED
      BY <1>2, <2>1, <2>2, TimeoutAsks
  <1> QED
    BY <1>3, <1>4, <1>5 DEF AskedInv

LEMMA CallElectionAsked ==
  ASSUME TypeOK, TypeOK', ElectionInv, AskedInv, NEW i \in Server, NEW e \in electionCalls[i],
         CallElection(i, e)
  PROVE  AskedInv'
  <1>1. UNCHANGED <<currentTerm, votedFor>> /\ e \in 1 .. MaxTerm
    BY CallElectionFacts
  <1>2. /\ tally'[i][e].votes = {}
        /\ \A f \in 1 .. MaxTerm \ {e} : tally'[i][f] = tally[i][f]
        /\ \A j \in Server \ {i} : tally'[j] = tally[j]
    BY CallElectionFacts
  <1>3. \A m \in rpcs' : m \notin rpcs => m.from = i /\ m.term = currentTerm[i]
    BY CallElectionFacts
  <1>4. \A q, j \in Server : TermsVoted(q, j)' \subseteq TermsVoted(q, j)
    BY CallElectionFacts
  <1>5. VotesAsked'
    <2>1. currentTerm[i] \in Nat
      BY DEF TypeOK, ServerTypes
    <2> QED
      BY <1>1, <1>3, <2>1 DEF AskedInv, VotesAsked
  <1>6. TermsReached'
    BY <1>1, <1>4 DEF AskedInv, TermsReached
  <1>7. TalliesOwn'
    <2> SUFFICES ASSUME NEW j \in Server, NEW f \in 1 .. MaxTerm, tally'[j][f].votes # {}
                 PROVE  /\ currentTerm'[j] = tally'[j][f].term => votedFor'[j] = j
                        /\ \A k \in Server \ {j} : tally'[j][f].term \notin TermsVoted(j, k)'
      BY DEF TalliesOwn
    <2>1. tally'[j][f] = tally[j][f]
      BY <1>2
    <2> QED
      BY <1>1, <1>4, <2>1 DEF AskedInv, TalliesOwn
  <1> QED
    BY <1>5, <1>6, <1>7 DEF AskedInv

LEMMA RequestVoteAsked ==
  ASSUME TypeOK, TypeOK', ElectionInv, AskedInv, NEW m \in rpcs, RequestVote(m)
  PROVE  AskedInv'
  <1> DEFINE v == m.to
  <1>1. /\ v \in Server /\ m.from \in Server /\ m.term \in Nat /\ m.type = "VoteCall"
        /\ m.from # v
    BY VoterFacts, RpcKinds DEF TypeOK
  <1>2. /\ \A q \in Server : /\ currentTerm[q] \in Nat /\ currentTerm'[q] \in Nat
                             /\ currentTerm'[q] >= currentTerm[q]
        /\ \A q \in Server \ {v} : currentTerm'[q] = currentTerm[q] /\ votedFor'[q] = votedFor[q]
        /\ currentTerm'[v] = IF m.term > currentTerm[v] THEN m.term ELSE currentTerm[v]
        /\ votedFor'[v] = IF MayVote(v, m) THEN m.from
                          ELSE IF m.term > currentTerm[v] THEN None ELSE votedFor[v]
    BY VoterFacts DEF TypeOK, ServerTypes
  <1>3. /\ m.term <= currentTerm[m.from]
        /\ MayVote(v, m) => m.term >= currentTerm[v]
             /\ (m.term = currentTerm[v] => votedFor[v] \in {None, m.from})
    BY <1>1, <1>2 DEF AskedInv, VotesAsked, MayVote
  <1> HIDE DEF v
  <1>4. VotesAsked'
    <2> SUFFICES ASSUME NEW r \in rpcs', r.type = "VoteCall"
                 PROVE  r.term <= currentTerm'[r.from]
      BY DEF VotesAsked
    <2>1. r \in rpcs
      BY VoterFacts
    <2>2. r.from \in Server /\ r.term \in Nat /\ r.term <= currentTerm[r.from]
      BY <2>1, RpcKinds DEF AskedInv, VotesAsked, TypeOK
    <2> QED
      BY <1>2, <2>2
  <1>5. ASSUME NEW q \in Server, NEW j \in Server, NEW T \in TermsVoted(q, j)'
        PROVE  T \in TermsVoted(q, j) \/ (MayVote(v, m) /\ q = v /\ j = m.from /\ T = m.term)
    BY VoterTerms DEF v
  <1>6. TermsReached'
    <2> SUFFICES ASSUME NEW q \in Server, NEW j \in Server, NEW T \in TermsVoted(q, j)'
                 PROVE  T <= currentTerm'[j]
      BY DEF TermsReached
    <2>1. CASE T \in TermsVoted(q, j)
      <3>1. T \in Nat /\ T <= currentTerm[j]
        BY <2>1, VotedType DEF AskedInv, TermsReached
      <3> QED
        BY <1>2, <3>1
    <2>2. CASE j = m.from /\ T = m.term
      BY <1>1, <1>2, <1>3, <2>2
    <2> QED
      BY <1>5, <2>1, <2>2
  <1>7. TalliesOwn'
    <2> SUFFICES ASSUME NEW j \in Server, NEW e \in 1 .. MaxTerm, tally[j][e].votes # {}
                 PROVE  /\ currentTerm'[j] = tally[j][e].term => votedFor'[j] = j
                        /\ \A k \in Server \ {j} : tally[j][e].term \notin TermsVoted(j, k)'
      BY VoterFacts DEF TalliesOwn, electionVars
    <2>1. /\ currentTerm[j] = tally[j][e].term => votedFor[j] = j
          /\ \A k \in Server \ {j} : tally[j][e].term \notin TermsVoted(j, k)
      BY DEF AskedInv, TalliesOwn
    <2>2. tally[j][e].term <= currentTerm[j] /\ tally[j][e].term \in Nat
      BY TallyReached, TalliedVotes DEF AskedInv
    <2>3. j # None
      BY ServerAssumption
    <2>4. ASSUME MayVote(v, m), j = v, tally[j][e].term = m.term \/ currentTerm'[j] = tally[j][e].term
          PROVE  FALSE
      <3>1. m.term = currentTerm[v]
        BY <1>1, <1>2, <1>3, <2>2, <2>4
      <3> QED
        BY <1>1, <1>2, <1>3, <2>1, <2>2, <2>3, <2>4, <3>1
    <2>5. currentTerm'[j] = tally[j][e].term => votedFor'[j] = j
      <3>1. CASE j # v
        BY <1>2, <2>1, <3>1
      <3>2. CASE j = v
        BY <1>1, <1>2, <2>1, <2>2, <2>4, <3>2
      <3> QED
        BY <3>1, <3>2
    <2>6. \A k \in Server \ {j} : tally[j][e].term \notin TermsVoted(j, k)'
      BY <1>5, <2>1, <2>4
    <2> QED
      BY <2>5, <2>6
  <1> QED
    BY <1>4, <1>6, <1>7 DEF AskedInv

LEMMA CountVoteAsked ==
  ASSUME TypeOK, TypeOK', ElectionInv, AskedInv, NEW m \in rpcs, CountVote(m)
  PROVE  AskedInv'
  <1> DEFINE i == m.from
             e == m.election
  <1>1. /\ i \in Server /\ e \in 1 .. MaxTerm
        /\ UNCHANGED <<currentTerm, votedFor>> /\ rpcs' = rpcs \ {m}
        /\ tally[i][e].term = m.callTerm
    BY CountVoteFacts
  <1>2. \A j \in Server : \A f \in 1 .. MaxTerm :
          /\ tally'[j][f].term = tally[j][f].term
          /\ tally'[j][f].votes = IF Counts(m) /\ j = i /\ f = e
                                  THEN VotesWith(m) ELSE tally[j][f].votes
    BY CountVoteFacts
  <1>3. \A q, j \in Server : TermsVoted(q, j)' \subseteq TermsVoted(q, j)
    BY CountVoteFacts
  <1>4. Counts(m) => m.callTerm \in TermsVoted(i, i) /\ currentTerm[i] = m.callTerm
    BY <1>1 DEF Counts, TermsVoted, Candidate, Follower
  <1> HIDE DEF i, e
  <1>5. VotesAsked' /\ TermsReached'
    BY <1>1, <1>3 DEF AskedInv, VotesAsked, TermsReached
  <1>6. TalliesOwn'
    <2> SUFFICES ASSUME NEW j \in Server, NEW f \in 1 .. MaxTerm, tally'[j][f].votes # {}
                 PROVE  /\ currentTerm[j] = tally[j][f].term => votedFor[j] = j
                        /\ \A k \in Server \ {j} : tally[j][f].term \notin TermsVoted(j, k)
      BY <1>1, <1>2, <1>3 DEF TalliesOwn
    <2>1. CASE tally[j][f].votes # {}
      BY <2>1 DEF AskedInv, TalliesOwn
    <2>2. CASE tally[j][f].votes = {}
      <3>1. Counts(m) /\ j = i /\ f = e
        BY <1>2, <2>2
      <3>2. m.callTerm \in TermsVoted(i, i) /\ tally[j][f].term = m.callTerm
        BY <1>1, <1>4, <3>1
      <3>3. currentTerm[i] = m.callTerm => votedFor[i] = i
        BY <1>1, <3>2 DEF ElectionInv, VotesRemembered
      <3>4. \A k \in Server \ {i} : m.callTerm \notin TermsVoted(i, k)
        BY <1>1, <3>2 DEF ElectionInv, VotesUnique
      <3> QED
        BY <1>1, <3>1, <3>2, <3>3, <3>4
    <2> QED
      BY <2>1, <2>2
  <1> QED
    BY <1>5, <1>6 DEF AskedInv

LEMMA AskedInit == Init => AskedInv
  <1> SUFFICES ASSUME Init PROVE AskedInv
    OBVIOUS
  <1>1. \A q, i \in Server : TermsVoted(q, i) = {}
    BY DEF Init, TermsVoted, Follower
  <1>2. VotesAsked /\ TermsReached
    BY <1>1 DEF Init, VotesAsked, TermsReached
  <1>3. TalliesOwn
    BY DEF Init, TalliesOwn
  <1> QED
    BY <1>2, <1>3 DEF AskedInv

LEMMA AskedStep ==
  TypeOK /\ TypeOK' /\ DiskIsCurrent /\ ElectionInv /\ AskedInv /\ [Next]_vars => AskedInv'
  <1> SUFFICES ASSUME TypeOK, TypeOK', DiskIsCurrent, ElectionInv, AskedInv, [Next]_vars
               PROVE  AskedInv'
    OBVIOUS
  <1>1. ASSUME NEW i \in Server, Timeout(i)
        PROVE  AskedInv'
    BY <1>1, TimeoutAsked
  <1>2. ASSUME NEW i \in Server, NEW e \in electionCalls[i], CallElection(i, e)
        PROVE  AskedInv'
    BY <1>2, CallElectionAsked
  <1>3. ASSUME NEW m \in rpcs, RequestVote(m)
        PROVE  AskedInv'
    BY <1>3, RequestVoteAsked
  <1>4. ASSUME NEW m \in rpcs, CountVote(m)
        PROVE  AskedInv'
    BY <1>4, CountVoteAsked
  <1>5. CASE Quiet
    BY <1>5, QuietAsked
  <1>6. CASE UNCHANGED vars
    BY <1>6, SameServers, QuietIf, QuietAsked DEF vars, NoNewVotes
  <1> QED
    BY <1>1, <1>2, <1>3, <1>4, <1>5, <1>6, QuietActions, QuietHandlers DEF Next, Handle

LEMMA AskedAlways == Spec => []AskedInv
  BY ElectionAlways, AskedInit, AskedStep, PTL DEF Spec

-----------------------------------------------------------------------------
(* Two ghosts.  L[T] is the whole log, snapshots included, that the leader *)
(* of term T has had, <<>> when no one was elected; A[q][t] is the highest *)
(* index q has told the leader of term t, or itself when it leads, that    *)
(* its log agrees with that leader's log up to.                            *)

Ghosts(L, A) == L \in [Nat -> Seq(Entry)] /\ A \in [Server -> [Nat -> Nat]]

\* The sequences F and G begin with the same n entries.
Agree(F, G, n) == n <= Len(F) /\ n <= Len(G) /\ \A y \in 1 .. n : F[y] = G[y]

\* Every entry of a leader's log has a term up to the leader's, and the log up
\* to it is what the leader of that term had.
Coherent(L) == \A T \in Nat :
  /\ Len(L[T]) > 0 => Elected(T)
  /\ \A x \in 1 .. Len(L[T]) :
       /\ L[T][x].term >= 1 /\ L[T][x].term <= T
       /\ Agree(L[T], L[L[T][x].term], x)

TermOf(F, x) == IF x = 0 THEN 0 ELSE F[x].term

\* The slice s, whose sentinel stands at index base, is a part of F.
Fits(F, base, s) ==
  /\ base + Len(s) - 1 <= Len(F) /\ s[1].term = TermOf(F, base)
  /\ \A k \in 2 .. Len(s) : s[k] = F[base + k - 1]

\* The log of i, with what its snapshot stands for, begins like that of the
\* leader of term t up to index n.
Holds(L, i, t, n) == n <= LastIndex(i) /\ Agree(L[LastTerm(i)], L[t], n)

LogFits(L, i) ==
  LastTerm(i) <= currentTerm[i] /\ Fits(L[LastTerm(i)], lastIncludedIndex[i], log[i])
LogsFit(L) == \A i \in Server : LogFits(L, i)

LeaderFits(L, A, i) ==
  /\ ElectedBy(i, currentTerm[i]) /\ Len(L[currentTerm[i]]) = LastIndex(i)
  /\ Holds(L, i, currentTerm[i], LastIndex(i))
  /\ A[i][currentTerm[i]] = LastIndex(i)
  /\ \A p \in Server \ {i} : matchIndex[i][p] <= A[p][currentTerm[i]]
LeadersFit(L, A) == \A i \in Server : state[i] = Leader => LeaderFits(L, A, i)
CandidatesFit == \A i \in Server : state[i] = Candidate => ~ElectedBy(i, currentTerm[i])

\* Half the servers are enough for the code to commit, rounded up: the median
\* of the match indexes is element len / 2 of the sorted ones, from 0.
Half(Q) == Q \subseteq Server /\ 2 * Cardinality(Q) >= Cardinality(Server)

OwnEntry(L, t, n) == n \in 1 .. Len(L[t]) /\ L[t][n].term = t

\* Half the servers have acknowledged index n to the leader of term t, or may
\* still do so; and half of them have, and what it commits is in the history.
Choosable(L, A, t, n) ==
  /\ OwnEntry(L, t, n)
  /\ \E Q \in SUBSET Server : Half(Q) /\ \A q \in Q : A[q][t] >= n \/ currentTerm[q] <= t
Committed(L, A, t, n) ==
  /\ OwnEntry(L, t, n)
  /\ \E Q \in SUBSET Server : Half(Q) /\ \A q \in Q : A[q][t] >= n
  /\ \A y \in 1 .. n : [index |-> y, entry |-> L[t][y]] \in chosen

\* Index x of the log of leader u is committed, by a leader of a term up to T.
Sealed(L, A, T, u, x) ==
  \/ x = 0
  \/ \E t, n \in Nat : /\ t <= T /\ n >= x /\ Committed(L, A, t, n)
                       /\ Agree(L[u], L[t], x)

\* An acknowledgement holds while its term lasts; and for ever, up to an index
\* that may be committed by it.
Acks(L, A) == \A q \in Server, t \in Nat :
  /\ A[q][t] <= Len(L[t]) /\ (A[q][t] > 0 => t <= currentTerm[q])
  /\ currentTerm[q] = t => Holds(L, q, t, A[q][t])
AckKeeps(L, A) == \A q \in Server, t, n \in Nat :
  n <= A[q][t] /\ Choosable(L, A, t, n) => Holds(L, q, t, n)

\* What may be committed in a term is in the log of every later leader; and in
\* that of every candidate a voter who acknowledged it has voted for.
Beyond(L, A) == \A t, T, n \in Nat :
  t < T /\ Elected(T) /\ Choosable(L, A, t, n) => Agree(L[T], L[t], n)
Ballots(L, A) == \A i, q \in Server :
  state[i] = Candidate /\ currentTerm[i] \in TermsVoted(q, i) =>
    \A t, n \in Nat :
      t < currentTerm[i] /\ n <= A[q][t] /\ Choosable(L, A, t, n) => Holds(L, i, t, n)

Chosens(L, A) == \A c \in chosen : \E t, n \in Nat :
  /\ Committed(L, A, t, n) /\ c.index \in 1 .. n /\ c.entry = L[t][c.index]

\* Every commitIndex is sealed.
Seal(L, A, i) ==
  /\ lastIncludedIndex[i] <= commitIndex[i] /\ commitIndex[i] <= LastIndex(i)
  /\ Sealed(L, A, currentTerm[i], LastTerm(i), commitIndex[i])
Seals(L, A) == \A i \in Server : Seal(L, A, i)

\* What is in flight.
AppendCallFits(L, A, m) ==
  /\ ElectedBy(m.from, m.term)
  /\ m.prevLogIndex + Len(m.entries) <= Len(L[m.term])
  /\ m.prevLogTerm = TermOf(L[m.term], m.prevLogIndex)
  /\ \A k \in 1 .. Len(m.entries) : m.entries[k] = L[m.term][m.prevLogIndex + k]
  /\ m.leaderCommit <= m.prevLogIndex + Len(m.entries)
  /\ Sealed(L, A, m.term, m.term, m.leaderCommit)
SnapshotCallFits(L, A, m) ==
  /\ ElectedBy(m.from, m.term)
  /\ m.lastIncludedIndex >= 1 /\ m.lastIncludedIndex <= Len(L[m.term])
  /\ m.lastIncludedTerm = L[m.term][m.lastIncludedIndex].term
  /\ Sealed(L, A, m.term, m.term, m.lastIncludedIndex)
  /\ Len(m.data) > 0
VoteCallFits(m) ==
  state[m.from] = Candidate /\ currentTerm[m.from] = m.term =>
    m.lastLogIndex = LastIndex(m.from) /\ m.lastLogTerm = LastTerm(m.from)
CallFits(L, A, m) ==
  /\ m.type = "AppendCall" => AppendCallFits(L, A, m)
  /\ m.type = "SnapshotCall" => SnapshotCallFits(L, A, m)
  /\ m.type = "VoteCall" => VoteCallFits(m)
  /\ m.type = "AppendReply" /\ m.success => A[m.to][m.callTerm] >= m.match
  /\ m.type = "SnapshotReply" /\ m.term <= m.callTerm => A[m.to][m.callTerm] >= m.match
CallsFit(L, A) == \A m \in rpcs : CallFits(L, A, m)

\* The indexes a server keeps of its own log.
InRange(i) ==
  /\ lastIncludedIndex[i] <= lastApplied[i] /\ lastApplied[i] <= commitIndex[i]
  /\ readerAt[i] <= lastApplied[i] /\ applier[i].index <= lastApplied[i]
  /\ readerAt[i] > 0 => Len(sm[i]) > 0
  /\ lastIncludedIndex[i] > 0 => Len(persister[i].snapshot) > 0
  /\ lastIncludedTerm[i] = log[i][1].term
  /\ \A p \in Server : nextIndex[i][p] >= 1
  /\ state[i] = Leader => \A p \in Server \ {i} : nextIndex[i][p] <= LastIndex(i) + 1
Ranges == \A i \in Server : InRange(i)

Inv(L, A) ==
  /\ Ghosts(L, A) /\ Coherent(L) /\ LogsFit(L) /\ LeadersFit(L, A) /\ CandidatesFit
  /\ Acks(L, A) /\ AckKeeps(L, A) /\ Beyond(L, A) /\ Ballots(L, A)
  /\ Chosens(L, A) /\ Seals(L, A) /\ CallsFit(L, A) /\ Ranges
Base == TypeOK /\ DiskIsCurrent /\ ElectionInv /\ AskedInv

-----------------------------------------------------------------------------
(* Facts about one state.                                                  *)

LEMMA GhostFacts ==
  ASSUME NEW L, NEW A, Ghosts(L, A)
  PROVE  /\ \A T \in Nat : /\ L[T] \in Seq(Entry) /\ Len(L[T]) \in Nat
                           /\ \A x \in 1 .. Len(L[T]) : L[T][x] \in Entry /\ L[T][x].term \in Nat
         /\ \A q \in Server, t \in Nat : A[q][t] \in Nat
  <1>1. ASSUME NEW T \in Nat
        PROVE  L[T] \in Seq(Entry) /\ Len(L[T]) \in Nat
    BY LenProperties DEF Ghosts
  <1>2. ASSUME NEW T \in Nat, NEW x \in 1 .. Len(L[T])
        PROVE  L[T][x] \in Entry /\ L[T][x].term \in Nat
    <2>1. L[T][x] \in Entry
      BY <1>1, ElementOfSeq
    <2> QED
      BY <2>1 DEF Entry
  <1> QED
    BY <1>1, <1>2 DEF Ghosts

LEMMA AgreeSym ==
  ASSUME NEW F, NEW G, NEW n, Agree(F, G, n)
  PROVE  Agree(G, F, n)
  BY DEF Agree

LEMMA AgreeTrans ==
  ASSUME NEW F, NEW G, NEW H, NEW n, Agree(F, G, n), Agree(G, H, n)
  PROVE  Agree(F, H, n)
  BY DEF Agree

LEMMA AgreeLess ==
  ASSUME NEW F, NEW G, NEW n \in Nat, NEW k \in Nat, k <= n, Agree(F, G, n),
         Len(F) \in Nat, Len(G) \in Nat
  PROVE  Agree(F, G, k)
  BY DEF Agree

LEMMA AgreeNone ==
  ASSUME NEW F, NEW G, Len(F) \in Nat, Len(G) \in Nat
  PROVE  Agree(F, G, 0)
  BY DEF Agree

\* Two leaders' logs with the same term at an index agree up to it.
LEMMA TermsMeet ==
  ASSUME NEW L, Coherent(L), NEW T \in Nat, NEW U \in Nat,
         NEW x, x \in 1 .. Len(L[T]), x \in 1 .. Len(L[U]), L[T][x].term = L[U][x].term
  PROVE  Agree(L[T], L[U], x)
  <1>1. Agree(L[T], L[L[T][x].term], x) /\ Agree(L[U], L[L[U][x].term], x)
    BY DEF Coherent
  <1> QED
    BY <1>1, AgreeSym, AgreeTrans

LEMMA LastTermIs ==
  ASSUME TypeOK, NEW i \in Server
  PROVE  /\ LastTerm(i) = TermAt(i, LastIndex(i)) /\ LastTerm(i) \in Nat
         /\ LastIndex(i) \in Nat /\ lastIncludedIndex[i] \in Nat
         /\ lastIncludedIndex[i] <= LastIndex(i) /\ currentTerm[i] \in Nat
         /\ Len(log[i]) \in Nat \ {0} /\ LastIndex(i) = lastIncludedIndex[i] + Len(log[i]) - 1
  <1>1. Len(log[i]) \in Nat \ {0} /\ lastIncludedIndex[i] \in Nat /\ currentTerm[i] \in Nat
    BY LogFacts DEF TypeOK, ServerTypes
  <1>2. LastIndex(i) = lastIncludedIndex[i] + Len(log[i]) - 1
    BY DEF LastIndex
  <1>3. LastIndex(i) - lastIncludedIndex[i] + 1 = Len(log[i])
    BY <1>1, <1>2
  <1>4. LastTerm(i) = TermAt(i, LastIndex(i))
    BY <1>3 DEF LastTerm, TermAt
  <1> QED
    BY <1>1, <1>2, <1>4, LastTermType DEF TypeOK

LEMMA NextLog ==
  ASSUME TypeOK', NEW i \in Server
  PROVE  /\ log'[i] \in Seq(Entry) /\ Len(log'[i]) \in Nat \ {0}
         /\ lastIncludedIndex'[i] \in Nat
         /\ LastTerm(i)' \in Nat /\ LastIndex(i)' \in Nat
         /\ LastIndex(i)' = lastIncludedIndex'[i] + Len(log'[i]) - 1
         /\ lastIncludedIndex'[i] <= LastIndex(i)'
  <1>1. log'[i] \in Logs /\ lastIncludedIndex'[i] \in Nat
    BY DEF TypeOK, LogTypes
  <1>2. log'[i] \in Seq(Entry) /\ Len(log'[i]) \in Nat \ {0}
    BY <1>1, EmptySeq, LenProperties DEF Logs
  <1>3. log'[i][Len(log'[i])] \in Entry
    BY <1>2, ElementOfSeq
  <1>4. LastTerm(i)' \in Nat
    BY <1>3 DEF LastTerm, Entry
  <1> QED
    BY <1>1, <1>2, <1>4 DEF LastIndex

\* A server's log reads as the log of the leader of its last entry.
LEMMA LogReads ==
  ASSUME TypeOK, NEW L, NEW A, Ghosts(L, A), NEW i \in Server, LogFits(L, i),
         NEW x, HasIndex(i, x)
  PROVE  /\ x \in Nat /\ x <= Len(L[LastTerm(i)])
         /\ TermAt(i, x) = TermOf(L[LastTerm(i)], x)
         /\ x > lastIncludedIndex[i] =>
              log[i][x - lastIncludedIndex[i] + 1] = L[LastTerm(i)][x]
  <1> DEFINE F == L[LastTerm(i)]
             base == lastIncludedIndex[i]
             k == x - base + 1
  <1>1. /\ Len(log[i]) \in Nat \ {0} /\ base \in Nat
        /\ LastIndex(i) = base + Len(log[i]) - 1 /\ LastTerm(i) \in Nat
    BY LastTermIs
  <1>2. Len(F) \in Nat
    BY <1>1, GhostFacts
  <1>3. x \in Nat /\ k \in 1 .. Len(log[i]) /\ x = base + k - 1
    BY <1>1 DEF HasIndex
  <1>4. /\ base + Len(log[i]) - 1 <= Len(F) /\ log[i][1].term = TermOf(F, base)
        /\ \A j \in 2 .. Len(log[i]) : log[i][j] = F[base + j - 1]
    BY DEF LogFits, Fits
  <1>5. TermAt(i, x) = log[i][k].term
    BY DEF TermAt
  <1> HIDE DEF F, base, k
  <1>6. x <= Len(F)
    BY <1>1, <1>2, <1>3, <1>4
  <1>7. CASE k = 1
    <2>1. x = base
      BY <1>1, <1>3, <1>7
    <2>2. TermAt(i, x) = TermOf(F, x) /\ ~(x > base)
      BY <1>1, <1>4, <1>5, <1>7, <2>1
    <2> QED
      BY <1>3, <1>6, <2>2 DEF F, base
  <1>8. CASE k # 1
    <2>1. k \in 2 .. Len(log[i]) /\ x # 0
      BY <1>1, <1>3, <1>8
    <2>2. log[i][k] = F[x]
      BY <1>3, <1>4, <2>1
    <2> QED
      BY <1>3, <1>5, <1>6, <2>1, <2>2 DEF TermOf, F, base, k
  <1> QED
    BY <1>7, <1>8

\* The last entry of a log, when there is one, is of the leader's own term.
LEMMA LastEntry ==
  ASSUME TypeOK, NEW L, NEW A, Ghosts(L, A), Coherent(L), NEW i \in Server, LogFits(L, i)
  PROVE  /\ LastIndex(i) <= Len(L[LastTerm(i)])
         /\ LastIndex(i) = 0 => LastTerm(i) = 0
         /\ LastIndex(i) > 0 => /\ L[LastTerm(i)][LastIndex(i)].term = LastTerm(i)
                                /\ Elected(LastTerm(i)) /\ LastTerm(i) > 0
  <1>1. HasIndex(i, LastIndex(i)) /\ LastIndex(i) \in Nat /\ LastTerm(i) \in Nat
    BY LastTermIs DEF HasIndex
  <1>2. /\ LastIndex(i) <= Len(L[LastTerm(i)])
        /\ LastTerm(i) = TermOf(L[LastTerm(i)], LastIndex(i))
    BY <1>1, LogReads, LastTermIs
  <1>3. Len(L[LastTerm(i)]) \in Nat
    BY <1>1, GhostFacts
  <1>4. CASE LastIndex(i) > 0
    <2>1. LastIndex(i) \in 1 .. Len(L[LastTerm(i)]) /\ Len(L[LastTerm(i)]) > 0
      BY <1>1, <1>2, <1>3, <1>4
    <2>2. L[LastTerm(i)][LastIndex(i)].term = LastTerm(i)
      BY <1>2, <1>4 DEF TermOf
    <2>3. Elected(LastTerm(i)) /\ L[LastTerm(i)][LastIndex(i)].term >= 1
      BY <1>1, <2>1 DEF Coherent
    <2> QED
      BY <1>1, <1>2, <1>4, <2>2, <2>3
  <1>5. CASE LastIndex(i) = 0
    BY <1>2, <1>5 DEF TermOf
  <1> QED
    BY <1>1, <1>2, <1>4, <1>5

LEMMA HalfMeets ==
  ASSUME NEW Q, Half(Q), NEW S \in SUBSET Server, Majority(S)
  PROVE  \E q \in Q : q \in S
  <1>1. /\ Cardinality(Q) \in Nat /\ Cardinality(S) \in Nat
        /\ Cardinality(Server) \in Nat /\ IsFiniteSet(Server)
    BY ServerAssumption, FS_Subset, FS_CardinalityType DEF Half
  <1>2. Cardinality(Q) + Cardinality(S) > Cardinality(Server)
    BY <1>1 DEF Half, Majority
  <1>3. Q \cap S # {}
    BY <1>1, <1>2, FS_MajoritiesIntersect DEF Half
  <1> QED
    BY <1>3

LEMMA HalfIsSomeone ==
  ASSUME NEW Q, Half(Q), NEW i \in Server
  PROVE  \E q \in Q : q \in Server
  <1>1. IsFiniteSet(Server) /\ Cardinality(Server) \in Nat /\ Q \subseteq Server
    BY ServerAssumption, FS_CardinalityType DEF Half
  <1>2. Cardinality(Server) # 0
    BY <1>1, FS_EmptySet
  <1>3. Q # {}
    <2> SUFFICES ASSUME Q = {} PROVE FALSE
      OBVIOUS
    <2>1. Cardinality(Q) = 0
      BY FS_EmptySet
    <2> QED
      BY <1>1, <1>2, <2>1 DEF Half
  <1> QED
    BY <1>1, <1>3

\* Those who elected a leader are all past its election.
LEMMA Electors ==
  ASSUME Base, NEW i \in Server, NEW T \in Nat, ElectedBy(i, T)
  PROVE  /\ currentTerm[i] >= T
         /\ \E S \in SUBSET Server :
              /\ Majority(S)
              /\ \A q \in S : /\ currentTerm[q] >= T
                              /\ q # i => T \in TermsVoted(q, i)
         /\ \E e \in 1 .. MaxTerm : tally[i][e].term = T /\ tally[i][e].votes # {}
  <1>1. PICK e \in 1 .. MaxTerm : /\ tally[i][e].term = T /\ tally[i][e].votes # {}
                                 /\ Majority(tally[i][e].votes \cup {i})
    BY DEF ElectedBy
  <1>2. currentTerm[i] >= T
    BY <1>1, TallyReached DEF Base, AskedInv, TypeOK, ServerTypes
  <1>3. ASSUME NEW q \in tally[i][e].votes
        PROVE  q \in Server /\ T \in TermsVoted(q, i) /\ currentTerm[q] >= T
    BY <1>1, TalliedVotes DEF Base, ElectionInv, VotesRemembered
  <1>4. tally[i][e].votes \cup {i} \in SUBSET Server
    BY <1>3
  <1> QED
    BY <1>1, <1>2, <1>3, <1>4

LEMMA ElectedOnce ==
  ASSUME Base, NEW i \in Server, NEW j \in Server, NEW T \in Nat,
         ElectedBy(i, T), ElectedBy(j, T)
  PROVE  i = j
  <1>1. PICK e \in 1 .. MaxTerm : /\ tally[i][e].term = T /\ tally[i][e].votes # {}
                                 /\ Majority(tally[i][e].votes \cup {i})
    BY DEF ElectedBy
  <1>2. PICK f \in 1 .. MaxTerm : /\ tally[j][f].term = T /\ tally[j][f].votes # {}
                                 /\ Majority(tally[j][f].votes \cup {j})
    BY DEF ElectedBy
  <1> DEFINE V == tally[i][e].votes \cup {i}
             W == tally[j][f].votes \cup {j}
  <1>3. V \subseteq Server /\ W \subseteq Server
    BY TalliedVotes DEF Base
  <1>4. PICK q : q \in V /\ q \in W
    <2>1. Majority(V) /\ Majority(W)
      BY <1>1, <1>2
    <2> HIDE DEF V, W
    <2>2. /\ Cardinality(V) \in Nat /\ Cardinality(W) \in Nat
          /\ Cardinality(Server) \in Nat /\ IsFiniteSet(Server)
      BY <1>3, ServerAssumption, FS_Subset, FS_CardinalityType
    <2>3. Cardinality(V) + Cardinality(W) > Cardinality(Server)
      BY <2>1, <2>2 DEF Majority
    <2>4. V \cap W # {}
      BY <1>3, <2>2, <2>3, FS_MajoritiesIntersect
    <2> QED
      BY <2>4
  <1>5. /\ q # i => T \in TermsVoted(q, i)
        /\ q # j => T \in TermsVoted(q, j)
    BY <1>1, <1>2, <1>4, TalliedVotes DEF Base
  <1>6. /\ \A k \in Server \ {i} : T \notin TermsVoted(i, k)
        /\ \A k \in Server \ {j} : T \notin TermsVoted(j, k)
    BY <1>1, <1>2 DEF Base, AskedInv, TalliesOwn
  <1>7. CASE q = i \/ q = j
    BY <1>5, <1>6, <1>7
  <1>8. CASE q # i /\ q # j
    BY <1>3, <1>4, <1>5, <1>8 DEF Base, ElectionInv, VotesUnique
  <1> QED
    BY <1>7, <1>8

LEMMA CommittedIsChoosable ==
  ASSUME NEW L, NEW A, NEW t, NEW n, Committed(L, A, t, n)
  PROVE  Choosable(L, A, t, n)
  BY DEF Committed, Choosable

\* What is sealed by a term up to U is in the log of the leader of U.
LEMMA SealedIn ==
  ASSUME NEW L, NEW A, Ghosts(L, A), Beyond(L, A),
         NEW T \in Nat, NEW u \in Nat, NEW x \in Nat, NEW U \in Nat,
         Sealed(L, A, T, u, x), T <= U, Elected(U)
  PROVE  Agree(L[u], L[U], x)
  <1>1. Len(L[u]) \in Nat /\ Len(L[U]) \in Nat
    BY GhostFacts
  <1>2. CASE x = 0
    BY <1>1, <1>2, AgreeNone
  <1>3. CASE x # 0
    <2>1. PICK t, n \in Nat : /\ t <= T /\ n >= x /\ Committed(L, A, t, n)
                              /\ Agree(L[u], L[t], x)
      BY <1>3 DEF Sealed
    <2>2. t = U \/ t < U
      BY <2>1
    <2>3. CASE t < U
      <3>1. Agree(L[U], L[t], n)
        BY <2>1, <2>3, CommittedIsChoosable DEF Beyond
      <3>2. Agree(L[U], L[t], x)
        BY <2>1, <3>1, <1>1, AgreeLess, GhostFacts
      <3> QED
        BY <2>1, <3>2, AgreeSym, AgreeTrans
    <2> QED
      BY <2>1, <2>2, <2>3
  <1> QED
    BY <1>2, <1>3

LEMMA SealedLess ==
  ASSUME NEW L, NEW A, Ghosts(L, A), NEW T \in Nat, NEW u \in Nat, NEW x \in Nat,
         NEW y \in Nat, y <= x, Sealed(L, A, T, u, x)
  PROVE  Sealed(L, A, T, u, y)
  <1>1. CASE x = 0
    BY <1>1 DEF Sealed
  <1>2. CASE x # 0
    <2>1. PICK t, n \in Nat : /\ t <= T /\ n >= x /\ Committed(L, A, t, n)
                              /\ Agree(L[u], L[t], x)
      BY <1>2 DEF Sealed
    <2>2. Agree(L[u], L[t], y)
      BY <2>1, AgreeLess, GhostFacts
    <2>3. n >= y
      BY <2>1
    <2> QED
      BY <2>1, <2>2, <2>3 DEF Sealed
  <1> QED
    BY <1>1, <1>2

\* A seal moves to any log that agrees up to its index, and to later terms.
LEMMA SealedMoves ==
  ASSUME NEW L, NEW A, NEW T \in Nat, NEW U \in Nat, NEW u, NEW v, NEW x,
         Sealed(L, A, T, u, x), T <= U, Agree(L[v], L[u], x)
  PROVE  Sealed(L, A, U, v, x)
  <1>1. CASE x = 0
    BY <1>1 DEF Sealed
  <1>2. CASE x # 0
    <2>1. PICK t, n \in Nat : /\ t <= T /\ n >= x /\ Committed(L, A, t, n)
                              /\ Agree(L[u], L[t], x)
      BY <1>2 DEF Sealed
    <2>2. Agree(L[v], L[t], x) /\ t <= U
      BY <2>1, AgreeTrans
    <2> QED
      BY <2>1, <2>2 DEF Sealed
  <1> QED
    BY <1>1, <1>2

-----------------------------------------------------------------------------
(* A step: the ghosts grow, and what may be committed only gets less.      *)

Grow(L, A, L1, A1) ==
  /\ Ghosts(L1, A1)
  /\ \A T \in Nat : Agree(L1[T], L[T], Len(L[T]))
  /\ \A q \in Server, t \in Nat :
       A1[q][t] >= A[q][t] /\ (A1[q][t] # A[q][t] => currentTerm[q] <= t)
  /\ \A q \in Server : currentTerm'[q] >= currentTerm[q]
  /\ chosen \subseteq chosen'

LEMMA GrowsLonger ==
  ASSUME NEW L, NEW A, NEW L1, NEW A1, Ghosts(L, A), Grow(L, A, L1, A1), NEW T \in Nat
  PROVE  /\ Len(L[T]) \in Nat /\ Len(L1[T]) \in Nat /\ Len(L[T]) <= Len(L1[T])
         /\ \A x \in 1 .. Len(L[T]) : L1[T][x] = L[T][x]
  <1>1. Ghosts(L1, A1) /\ Agree(L1[T], L[T], Len(L[T]))
    BY DEF Grow
  <1>2. Len(L[T]) \in Nat /\ Len(L1[T]) \in Nat
    BY <1>1, GhostFacts
  <1> QED
    BY <1>1, <1>2 DEF Agree

LEMMA AgreeGrows ==
  ASSUME NEW L, NEW A, NEW L1, NEW A1, Ghosts(L, A), Grow(L, A, L1, A1),
         NEW T \in Nat, NEW U \in Nat, NEW n \in Nat, Agree(L[T], L[U], n)
  PROVE  Agree(L1[T], L1[U], n)
  <1>1. /\ Len(L[T]) \in Nat /\ Len(L1[T]) \in Nat /\ Len(L[T]) <= Len(L1[T])
        /\ \A x \in 1 .. Len(L[T]) : L1[T][x] = L[T][x]
    BY GrowsLonger
  <1>2. /\ Len(L[U]) \in Nat /\ Len(L1[U]) \in Nat /\ Len(L[U]) <= Len(L1[U])
        /\ \A x \in 1 .. Len(L[U]) : L1[U][x] = L[U][x]
    BY GrowsLonger
  <1>3. n <= Len(L[T]) /\ n <= Len(L[U]) /\ \A y \in 1 .. n : L[T][y] = L[U][y]
    BY DEF Agree
  <1>4. ASSUME NEW y \in 1 .. n
        PROVE  L1[T][y] = L1[U][y]
    <2>1. y \in 1 .. Len(L[T]) /\ y \in 1 .. Len(L[U])
      BY <1>1, <1>2, <1>3
    <2>2. L1[T][y] = L[T][y] /\ L1[U][y] = L[U][y]
      BY <1>1, <1>2, <2>1
    <2> QED
      BY <1>3, <2>2
  <1>5. n <= Len(L1[T]) /\ n <= Len(L1[U])
    BY <1>1, <1>2, <1>3
  <1> QED
    BY <1>4, <1>5 DEF Agree

LEMMA ChoosableBack ==
  ASSUME TypeOK, TypeOK', NEW L, NEW A, NEW L1, NEW A1, Ghosts(L, A), Grow(L, A, L1, A1),
         NEW t \in Nat, NEW n \in Nat, n <= Len(L[t]), Choosable(L1, A1, t, n)'
  PROVE  Choosable(L, A, t, n)
  <1>1. /\ Len(L[t]) \in Nat /\ Len(L1[t]) \in Nat
        /\ \A x \in 1 .. Len(L[t]) : L1[t][x] = L[t][x]
    BY GrowsLonger
  <1>2. n \in 1 .. Len(L1[t]) /\ L1[t][n].term = t
    BY DEF Choosable, OwnEntry
  <1>3. OwnEntry(L, t, n)
    BY <1>1, <1>2 DEF OwnEntry
  <1>4. PICK Q \in SUBSET Server :
          Half(Q) /\ \A q \in Q : A1[q][t] >= n \/ currentTerm'[q] <= t
    BY DEF Choosable, Half
  <1>5. ASSUME NEW q \in Q
        PROVE  A[q][t] >= n \/ currentTerm[q] <= t
    <2>1. /\ A[q][t] \in Nat /\ A1[q][t] \in Nat /\ currentTerm[q] \in Nat
          /\ currentTerm'[q] \in Nat
      BY <1>4, GhostFacts DEF Grow, TypeOK, ServerTypes
    <2>2. /\ A1[q][t] # A[q][t] => currentTerm[q] <= t
          /\ currentTerm'[q] >= currentTerm[q]
      BY <1>4 DEF Grow
    <2>3. A1[q][t] >= n \/ currentTerm'[q] <= t
      BY <1>4
    <2> QED
      BY <2>1, <2>2, <2>3
  <1> QED
    BY <1>3, <1>4, <1>5 DEF Choosable

LEMMA CommittedGrows ==
  ASSUME NEW L, NEW A, NEW L1, NEW A1, Ghosts(L, A), Grow(L, A, L1, A1),
         NEW t \in Nat, NEW n \in Nat, Committed(L, A, t, n)
  PROVE  Committed(L1, A1, t, n)'
  <1>1. /\ Len(L[t]) \in Nat /\ Len(L1[t]) \in Nat /\ Len(L[t]) <= Len(L1[t])
        /\ \A x \in 1 .. Len(L[t]) : L1[t][x] = L[t][x]
    BY GrowsLonger
  <1>2. n \in 1 .. Len(L[t]) /\ L[t][n].term = t
    BY DEF Committed, OwnEntry
  <1>3. n \in 1 .. Len(L1[t]) /\ L1[t][n].term = t
    BY <1>1, <1>2
  <1>4. PICK Q \in SUBSET Server : Half(Q) /\ \A q \in Q : A[q][t] >= n
    BY DEF Committed
  <1>5. \A q \in Q : A1[q][t] >= n
    BY <1>4, GhostFacts DEF Grow
  <1>6. \A y \in 1 .. n : [index |-> y, entry |-> L1[t][y]] \in chosen'
    <2> SUFFICES ASSUME NEW y \in 1 .. n
                 PROVE  [index |-> y, entry |-> L1[t][y]] \in chosen'
      OBVIOUS
    <2>1. L1[t][y] = L[t][y]
      BY <1>1, <1>2
    <2>2. [index |-> y, entry |-> L[t][y]] \in chosen
      BY DEF Committed
    <2> QED
      BY <2>1, <2>2 DEF Grow
  <1> QED
    BY <1>3, <1>4, <1>5, <1>6 DEF Committed, OwnEntry, Half

LEMMA SealedGrows ==
  ASSUME NEW L, NEW A, NEW L1, NEW A1, Ghosts(L, A), Grow(L, A, L1, A1),
         NEW T \in Nat, NEW U \in Nat, NEW u \in Nat, NEW x \in Nat,
         T <= U, Sealed(L, A, T, u, x)
  PROVE  Sealed(L1, A1, U, u, x)'
  <1>1. CASE x = 0
    BY <1>1 DEF Sealed
  <1>2. CASE x # 0
    <2>1. PICK t, n \in Nat : /\ t <= T /\ n >= x /\ Committed(L, A, t, n)
                              /\ Agree(L[u], L[t], x)
      BY <1>2 DEF Sealed
    <2>2. Committed(L1, A1, t, n)' /\ Agree(L1[u], L1[t], x) /\ t <= U
      BY <2>1, CommittedGrows, AgreeGrows
    <2> QED
      BY <2>1, <2>2 DEF Sealed, Agree
  <1> QED
    BY <1>1, <1>2

LEMMA ChosensGrow ==
  ASSUME NEW L, NEW A, NEW L1, NEW A1, Ghosts(L, A), Grow(L, A, L1, A1),
         Chosens(L, A), NEW c \in chosen
  PROVE  \E t, n \in Nat : /\ Committed(L1, A1, t, n)' /\ c.index \in 1 .. n
                           /\ c.entry = L1[t][c.index]
  <1>1. PICK t, n \in Nat : /\ Committed(L, A, t, n) /\ c.index \in 1 .. n
                            /\ c.entry = L[t][c.index]
    BY DEF Chosens
  <1>2. Committed(L1, A1, t, n)'
    BY <1>1, CommittedGrows
  <1>3. n \in 1 .. Len(L[t])
    BY <1>1 DEF Committed, OwnEntry
  <1>4. c.index \in 1 .. Len(L[t])
    BY <1>1, <1>3, GrowsLonger
  <1>5. L1[t][c.index] = L[t][c.index]
    BY <1>4, GrowsLonger
  <1> QED
    BY <1>1, <1>2, <1>5

-----------------------------------------------------------------------------
(* Steps in which no leader appends or is elected: the leaders' logs are   *)
(* what they were.                                                         *)

EndKept(i) == LastTerm(i)' = LastTerm(i) /\ LastIndex(i)' = LastIndex(i)

\* A follower's log becomes what the leader of its new term has up to index e,
\* and loses nothing they had in common.
CutTo(L, i, T, e) ==
  /\ currentTerm[i] <= T /\ currentTerm'[i] = T /\ Elected(T)
  /\ state'[i] = Follower
  /\ LastIndex(i)' = e /\ Agree(L[LastTerm(i)'], L[T], e)
  /\ \A n \in Nat : n <= LastIndex(i) /\ Agree(L[LastTerm(i)], L[T], n) => n <= e
Moves(L, i) == EndKept(i) \/ \E T, e \in Nat : CutTo(L, i, T, e)

\* q has just acknowledged an index to the leader of its new term, or not.
Acknowledges(L, A, A1, q, t) ==
  A1[q][t] # A[q][t] =>
    /\ currentTerm'[q] = t /\ A1[q][t] <= Len(L[t])
    /\ Holds(L, q, t, A1[q][t])'

SameElected ==
  \A i \in Server, T \in Nat : ElectedBy(i, T)' <=> ElectedBy(i, T)

LogStep(L, A, A1) ==
  /\ Grow(L, A, L, A1)
  /\ \A i \in Server : Moves(L, i)
  /\ \A q \in Server, t \in Nat : Acknowledges(L, A, A1, q, t)
  /\ SameElected

LEMMA SameTallies == tally' = tally => SameElected
  BY DEF SameElected, ElectedBy, Majority

LEMMA SameLeaders ==
  ASSUME SameElected, NEW T \in Nat
  PROVE  Elected(T)' <=> Elected(T)
  BY DEF SameElected, Elected

LEMMA HoldsStays ==
  ASSUME NEW L, NEW i \in Server, NEW t \in Nat, NEW n \in Nat, Holds(L, i, t, n), Moves(L, i),
         \A T \in Nat : currentTerm[i] <= T /\ currentTerm'[i] = T /\ Elected(T)
                          => Agree(L[T], L[t], n)
  PROVE  Holds(L, i, t, n)'
  <1>1. n <= LastIndex(i) /\ Agree(L[LastTerm(i)], L[t], n)
    BY DEF Holds
  <1>2. CASE EndKept(i)
    BY <1>1, <1>2 DEF EndKept, Holds
  <1>3. ASSUME NEW T \in Nat, NEW e \in Nat, CutTo(L, i, T, e)
        PROVE  Holds(L, i, t, n)'
    <2>1. Agree(L[T], L[t], n)
      BY <1>3 DEF CutTo
    <2>2. Agree(L[LastTerm(i)], L[T], n)
      BY <1>1, <2>1, AgreeSym, AgreeTrans
    <2>3. n <= e /\ LastIndex(i)' = e /\ Agree(L[LastTerm(i)'], L[T], e)
      BY <1>1, <1>3, <2>2 DEF CutTo
    <2>4. Agree(L[LastTerm(i)'], L[t], n)
      BY <2>1, <2>3 DEF Agree
    <2> QED
      BY <2>3, <2>4 DEF Holds
  <1> QED
    BY <1>2, <1>3 DEF Moves

LEMMA CoherentStays ==
  ASSUME NEW L, NEW A, Ghosts(L, A), Coherent(L), SameElected
  PROVE  Coherent(L)'
  BY SameLeaders DEF Coherent

LEMMA AcksStep ==
  ASSUME TypeOK, TypeOK', NEW L, NEW A, NEW A1, Ghosts(L, A), Acks(L, A), LogStep(L, A, A1)
  PROVE  Acks(L, A1)'
  <1> SUFFICES ASSUME NEW q \in Server, NEW t \in Nat
               PROVE  /\ A1[q][t] <= Len(L[t]) /\ (A1[q][t] > 0 => t <= currentTerm'[q])
                      /\ currentTerm'[q] = t => Holds(L, q, t, A1[q][t])'
    BY DEF Acks
  <1>1. /\ A[q][t] \in Nat /\ currentTerm[q] \in Nat /\ currentTerm'[q] \in Nat
        /\ currentTerm'[q] >= currentTerm[q] /\ A1[q][t] \in Nat /\ Len(L[t]) \in Nat
    BY GhostFacts DEF LogStep, Grow, TypeOK, ServerTypes
  <1>2. CASE A1[q][t] # A[q][t]
    BY <1>1, <1>2 DEF LogStep, Acknowledges
  <1>3. CASE A1[q][t] = A[q][t]
    <2>1. /\ A[q][t] <= Len(L[t]) /\ (A[q][t] > 0 => t <= currentTerm[q])
          /\ currentTerm[q] = t => Holds(L, q, t, A[q][t])
      BY DEF Acks
    <2>2. CASE A[q][t] = 0
      <3>1. LastIndex(q)' \in Nat /\ Len(L[LastTerm(q)']) \in Nat
        BY NextLog, GhostFacts
      <3>2. Holds(L, q, t, 0)'
        BY <1>1, <3>1, AgreeNone DEF Holds
      <3> QED
        BY <1>1, <1>3, <2>1, <2>2, <3>2
    <2>3. CASE A[q][t] > 0
      <3>1. currentTerm'[q] = t => currentTerm[q] = t
        BY <1>1, <2>1, <2>3
      <3>2. currentTerm'[q] = t => Holds(L, q, t, A[q][t])'
        <4> SUFFICES ASSUME currentTerm'[q] = t PROVE Holds(L, q, t, A[q][t])'
          OBVIOUS
        <4>1. Holds(L, q, t, A[q][t]) /\ Moves(L, q)
          BY <2>1, <3>1 DEF LogStep
        <4>2. Agree(L[t], L[t], A[q][t])
          BY <1>1, <2>1 DEF Agree
        <4> QED
          BY <1>1, <4>1, <4>2, HoldsStays
      <3> QED
        BY <1>1, <1>3, <2>1, <2>3, <3>2
    <2> QED
      BY <1>1, <2>2, <2>3
  <1> QED
    BY <1>2, <1>3

LEMMA AckKeepsStep ==
  ASSUME TypeOK, TypeOK', NEW L, NEW A, NEW A1, Ghosts(L, A), Acks(L, A), AckKeeps(L, A),
         Beyond(L, A), LogStep(L, A, A1)
  PROVE  AckKeeps(L, A1)'
  <1> SUFFICES ASSUME NEW q \in Server, NEW t \in Nat, NEW n \in Nat, n <= A1[q][t],
                      Choosable(L, A1, t, n)'
               PROVE  Holds(L, q, t, n)'
    BY DEF AckKeeps
  <1>1. /\ A[q][t] \in Nat /\ currentTerm[q] \in Nat /\ A1[q][t] \in Nat /\ Len(L[t]) \in Nat
        /\ Grow(L, A, L, A1)
    BY GhostFacts DEF LogStep, Grow, TypeOK, ServerTypes
  <1>2. n >= 1 /\ n <= Len(L[t])
    BY <1>1 DEF Choosable, OwnEntry
  <1>3. Choosable(L, A, t, n)
    BY <1>1, <1>2, ChoosableBack
  <1>4. CASE n <= A[q][t]
    <2>1. Holds(L, q, t, n) /\ Moves(L, q)
      BY <1>3, <1>4 DEF AckKeeps, LogStep
    <2>2. t <= currentTerm[q]
      BY <1>1, <1>2, <1>4 DEF Acks
    <2>3. ASSUME NEW T \in Nat, currentTerm[q] <= T, Elected(T)
          PROVE  Agree(L[T], L[t], n)
      <3>1. CASE T = t
        BY <1>1, <1>2, <3>1 DEF Agree
      <3>2. CASE T # t
        BY <1>1, <1>3, <2>2, <2>3, <3>2 DEF Beyond
      <3> QED
        BY <3>1, <3>2
    <2> QED
      BY <2>1, <2>3, HoldsStays
  <1>5. CASE ~(n <= A[q][t])
    <2>1. A1[q][t] # A[q][t]
      BY <1>1, <1>5
    <2>2. Holds(L, q, t, A1[q][t])'
      BY <2>1 DEF LogStep, Acknowledges
    <2>3. LastIndex(q)' \in Nat
      BY NextLog
    <2> QED
      BY <1>1, <1>2, <2>2, <2>3 DEF Holds, Agree
  <1> QED
    BY <1>4, <1>5

LEMMA BeyondStep ==
  ASSUME TypeOK, TypeOK', NEW L, NEW A, NEW A1, Ghosts(L, A), Beyond(L, A), LogStep(L, A, A1)
  PROVE  Beyond(L, A1)'
  <1> SUFFICES ASSUME NEW t \in Nat, NEW T \in Nat, NEW n \in Nat, t < T,
                      Elected(T)', Choosable(L, A1, t, n)'
               PROVE  Agree(L[T], L[t], n)
    BY DEF Beyond, Agree
  <1>1. Elected(T)
    BY SameLeaders DEF LogStep
  <1>2. n <= Len(L[t])
    BY GhostFacts DEF Choosable, OwnEntry
  <1>3. Choosable(L, A, t, n)
    BY <1>2, ChoosableBack DEF LogStep
  <1> QED
    BY <1>1, <1>3 DEF Beyond

\* Who stands for election or leads did so before, in the same term.
SameRoles ==
  \A i \in Server : state'[i] # Follower =>
    state'[i] = state[i] /\ currentTerm'[i] = currentTerm[i]
LeadersStand ==
  \A i \in Server : state'[i] = Leader => state[i] = Leader /\ currentTerm'[i] = currentTerm[i]
FewerVotes == \A q, i \in Server : TermsVoted(q, i)' \subseteq TermsVoted(q, i)

LEMMA RolesStand == SameRoles => LeadersStand
  BY DEF SameRoles, LeadersStand, Leader, Follower

LEMMA QuietRoles ==
  ASSUME TypeOK, TypeOK', Quiet
  PROVE  /\ SameRoles /\ FewerVotes /\ SameElected
         /\ \A i \in Server : currentTerm'[i] >= currentTerm[i]
  <1>1. SameRoles /\ \A i \in Server : currentTerm'[i] >= currentTerm[i]
    BY DEF Quiet, QuietAt, SameRoles, TypeOK, ServerTypes
  <1>2. FewerVotes
    BY QuietVotes DEF FewerVotes
  <1> QED
    BY <1>1, <1>2, SameTallies DEF Quiet

Ballot(L, A, i, q) ==
  state[i] = Candidate /\ currentTerm[i] \in TermsVoted(q, i) =>
    \A t, n \in Nat :
      t < currentTerm[i] /\ n <= A[q][t] /\ Choosable(L, A, t, n) => Holds(L, i, t, n)

LEMMA BallotStays ==
  ASSUME Base, TypeOK', NEW L, NEW A, NEW A1, Ghosts(L, A), Ballots(L, A), LogStep(L, A, A1),
         NEW i \in Server, NEW q \in Server,
         state'[i] = Candidate => state[i] = Candidate /\ currentTerm'[i] = currentTerm[i],
         currentTerm'[i] \in TermsVoted(q, i)' => currentTerm'[i] \in TermsVoted(q, i)
  PROVE  Ballot(L, A1, i, q)'
  <1> SUFFICES ASSUME state'[i] = Candidate,
                      currentTerm'[i] \in TermsVoted(q, i)', NEW t \in Nat, NEW n \in Nat,
                      t < currentTerm'[i], n <= A1[q][t], Choosable(L, A1, t, n)'
               PROVE  Holds(L, i, t, n)'
    BY DEF Ballot
  <1>1. /\ state[i] = Candidate /\ currentTerm'[i] = currentTerm[i]
        /\ currentTerm[i] \in TermsVoted(q, i)
    OBVIOUS
  <1>2. /\ currentTerm[q] >= currentTerm[i] /\ currentTerm[q] \in Nat /\ currentTerm[i] \in Nat
    BY <1>1 DEF Base, ElectionInv, VotesRemembered, TypeOK, ServerTypes
  <1>3. A1[q][t] = A[q][t]
    BY <1>1, <1>2 DEF LogStep, Grow
  <1>4. n <= Len(L[t])
    BY GhostFacts DEF Choosable, OwnEntry
  <1>5. Choosable(L, A, t, n)
    BY <1>4, ChoosableBack DEF LogStep, Base
  <1>6. Holds(L, i, t, n)
    BY <1>1, <1>3, <1>5 DEF Ballots
  <1>7. EndKept(i)
    BY DEF LogStep, Moves, CutTo, Candidate, Follower
  <1> QED
    BY <1>6, <1>7 DEF Holds, EndKept

LEMMA BallotsStep ==
  ASSUME Base, TypeOK', NEW L, NEW A, NEW A1, Ghosts(L, A), Ballots(L, A), LogStep(L, A, A1),
         SameRoles, FewerVotes
  PROVE  Ballots(L, A1)'
  <1>1. \A i, q \in Server : Ballot(L, A1, i, q)'
    BY BallotStays DEF SameRoles, FewerVotes, Candidate, Follower
  <1> QED
    BY <1>1 DEF Ballots, Ballot

LEMMA LeadersStep ==
  ASSUME TypeOK, TypeOK', NEW L, NEW A, NEW A1, Ghosts(L, A), LeadersFit(L, A),
         LogStep(L, A, A1), LeadersStand,
         \A i \in Server : state'[i] = Leader =>
           \A p \in Server \ {i} : matchIndex'[i][p] <= A1[p][currentTerm[i]]
  PROVE  LeadersFit(L, A1)'
  <1> SUFFICES ASSUME NEW i \in Server, state'[i] = Leader
               PROVE  LeaderFits(L, A1, i)'
    BY DEF LeadersFit
  <1>1. state[i] = Leader /\ currentTerm'[i] = currentTerm[i] /\ currentTerm[i] \in Nat
    BY DEF LeadersStand, TypeOK, ServerTypes
  <1>2. LeaderFits(L, A, i)
    BY <1>1 DEF LeadersFit
  <1>3. EndKept(i)
    BY DEF LogStep, Moves, CutTo, Leader, Follower
  <1>4. ElectedBy(i, currentTerm[i])'
    BY <1>1, <1>2 DEF LogStep, SameElected, LeaderFits
  <1>5. A1[i][currentTerm[i]] = LastIndex(i)
    <2>1. /\ A[i][currentTerm[i]] = LastIndex(i) /\ Len(L[currentTerm[i]]) = LastIndex(i)
      BY <1>2 DEF LeaderFits
    <2>2. /\ A1[i][currentTerm[i]] \in Nat /\ A[i][currentTerm[i]] \in Nat
          /\ A1[i][currentTerm[i]] >= A[i][currentTerm[i]]
          /\ A1[i][currentTerm[i]] # A[i][currentTerm[i]] =>
               A1[i][currentTerm[i]] <= Len(L[currentTerm[i]])
      BY <1>1, GhostFacts DEF LogStep, Grow, Acknowledges
    <2> QED
      BY <2>1, <2>2
  <1>6. Holds(L, i, currentTerm[i], LastIndex(i))'
    BY <1>1, <1>2, <1>3 DEF LeaderFits, Holds, EndKept
  <1>7. Len(L[currentTerm'[i]]) = LastIndex(i)' /\ A1[i][currentTerm'[i]] = LastIndex(i)'
    BY <1>1, <1>2, <1>3, <1>5 DEF LeaderFits, EndKept
  <1>8. ElectedBy(i, currentTerm[i])' /\ Holds(L, i, currentTerm[i], LastIndex(i))'
    BY <1>4, <1>6
  <1> QED
    BY <1>1, <1>7, <1>8 DEF LeaderFits

LEMMA CandidatesStep ==
  ASSUME TypeOK, CandidatesFit, SameElected, SameRoles
  PROVE  CandidatesFit'
  <1> SUFFICES ASSUME NEW i \in Server, state'[i] = Candidate
               PROVE  ~ElectedBy(i, currentTerm[i])'
    BY DEF CandidatesFit
  <1>1. state[i] = Candidate /\ currentTerm'[i] = currentTerm[i] /\ currentTerm[i] \in Nat
    BY DEF SameRoles, Candidate, Follower, TypeOK, ServerTypes
  <1>2. ~ElectedBy(i, currentTerm[i])
    BY <1>1 DEF CandidatesFit
  <1> QED
    BY <1>1, <1>2 DEF SameElected

\* What was in flight still fits.
LEMMA CallFitsStays ==
  ASSUME TypeOK, NEW L, NEW A, NEW L1, NEW A1, Ghosts(L, A), Grow(L, A, L1, A1),
         NEW m \in rpcs, CallFits(L, A, m),
         \A i \in Server, T \in Nat : ElectedBy(i, T) => ElectedBy(i, T)',
         m.type = "VoteCall" /\ state'[m.from] = Candidate /\ currentTerm'[m.from] = m.term =>
           state[m.from] = Candidate /\ currentTerm[m.from] = m.term /\ EndKept(m.from)
  PROVE  CallFits(L1, A1, m)'
  <1>0. m.from \in Server /\ m.to \in Server /\ m.term \in Nat
    BY RpcKinds DEF TypeOK
  <1>1. ASSUME m.type = "AppendCall"
        PROVE  AppendCallFits(L1, A1, m)'
    <2>1. AppendCallFits(L, A, m)
      BY <1>1 DEF CallFits
    <2>2. /\ m.prevLogIndex \in Nat /\ Len(m.entries) \in Nat /\ m.leaderCommit \in Nat
      BY <1>1, RpcKinds, LenProperties DEF TypeOK, AppendCalls
    <2> DEFINE F == L[m.term]
               G == L1[m.term]
    <2>3. /\ Len(F) \in Nat /\ Len(G) \in Nat /\ Len(F) <= Len(G)
          /\ \A x \in 1 .. Len(F) : G[x] = F[x]
      BY <1>0, GrowsLonger
    <2> HIDE DEF F, G
    <2>4. /\ m.prevLogIndex + Len(m.entries) <= Len(F)
          /\ m.prevLogTerm = TermOf(F, m.prevLogIndex)
          /\ \A k \in 1 .. Len(m.entries) : m.entries[k] = F[m.prevLogIndex + k]
      BY <2>1 DEF AppendCallFits, F
    <2>5. m.prevLogTerm = TermOf(G, m.prevLogIndex)
      <3>1. m.prevLogIndex = 0 \/ m.prevLogIndex \in 1 .. Len(F)
        BY <2>2, <2>3, <2>4
      <3> QED
        BY <2>3, <2>4, <3>1 DEF TermOf
    <2>6. ASSUME NEW k \in 1 .. Len(m.entries)
          PROVE  m.entries[k] = G[m.prevLogIndex + k]
      <3>1. m.prevLogIndex + k \in 1 .. Len(F)
        BY <2>2, <2>3, <2>4
      <3> QED
        BY <2>3, <2>4, <3>1
    <2>7. m.prevLogIndex + Len(m.entries) <= Len(G)
      BY <2>2, <2>3, <2>4
    <2>8. Sealed(L1, A1, m.term, m.term, m.leaderCommit)'
      BY <1>0, <2>1, <2>2, SealedGrows DEF AppendCallFits
    <2>9. ElectedBy(m.from, m.term)'
      BY <1>0, <2>1 DEF AppendCallFits
    <2> QED
      BY <2>1, <2>5, <2>6, <2>7, <2>8, <2>9 DEF AppendCallFits, G
  <1>2. ASSUME m.type = "SnapshotCall"
        PROVE  SnapshotCallFits(L1, A1, m)'
    <2>1. SnapshotCallFits(L, A, m)
      BY <1>2 DEF CallFits
    <2>2. m.lastIncludedIndex \in Nat
      BY <1>2, RpcKinds DEF TypeOK, SnapshotCalls
    <2>3. /\ Len(L[m.term]) \in Nat /\ Len(L1[m.term]) \in Nat
          /\ Len(L[m.term]) <= Len(L1[m.term])
          /\ \A x \in 1 .. Len(L[m.term]) : L1[m.term][x] = L[m.term][x]
      BY <1>0, GrowsLonger
    <2>4. /\ m.lastIncludedIndex >= 1 /\ m.lastIncludedIndex <= Len(L1[m.term])
          /\ m.lastIncludedTerm = L1[m.term][m.lastIncludedIndex].term
      BY <2>1, <2>2, <2>3 DEF SnapshotCallFits
    <2>5. Sealed(L1, A1, m.term, m.term, m.lastIncludedIndex)'
      BY <1>0, <2>1, <2>2, SealedGrows DEF SnapshotCallFits
    <2>6. ElectedBy(m.from, m.term)' /\ Len(m.data) > 0
      BY <1>0, <2>1 DEF SnapshotCallFits
    <2> QED
      BY <2>4, <2>5, <2>6 DEF SnapshotCallFits
  <1>3. ASSUME m.type = "VoteCall"
        PROVE  VoteCallFits(m)'
    <2>1. VoteCallFits(m)
      BY <1>3 DEF CallFits
    <2> QED
      BY <1>3, <2>1 DEF VoteCallFits, EndKept
  <1>4. ASSUME m.type \in {"AppendReply", "SnapshotReply"}
        PROVE  A[m.to][m.callTerm] >= m.match => A1[m.to][m.callTerm] >= m.match
    <2>1. m.callTerm \in Nat /\ m.match \in Nat
      BY <1>4, RpcKinds DEF TypeOK, AppendReplies, SnapshotReplies
    <2>2. /\ A[m.to][m.callTerm] \in Nat /\ A1[m.to][m.callTerm] \in Nat
          /\ A1[m.to][m.callTerm] >= A[m.to][m.callTerm]
      BY <1>0, <2>1, GhostFacts DEF Grow
    <2> QED
      BY <2>1, <2>2
  <1>5. m.type = "AppendReply" /\ m.success => A1[m.to][m.callTerm] >= m.match
    BY <1>4 DEF CallFits
  <1>6. m.type = "SnapshotReply" /\ m.term <= m.callTerm => A1[m.to][m.callTerm] >= m.match
    BY <1>4 DEF CallFits
  <1> QED
    BY <1>1, <1>2, <1>3, <1>5, <1>6 DEF CallFits

LEMMA OrphanFits ==
  ASSUME NEW L, NEW A, NEW i, NEW m \in rpcs, RpcTypes, m.type \in CallTypes, CallFits(L, A, m)'
  PROVE  CallFits(L, A, Orphan(i, m))'
  <1> DEFINE r == Orphan(i, m)
  <1>1. m \in VoteCalls \/ m \in AppendCalls \/ m \in SnapshotCalls
    BY RpcKinds DEF CallTypes
  <1>2. /\ r.type = m.type /\ r.from = m.from /\ r.to = m.to /\ r.term = m.term
        /\ m.type = "VoteCall" => /\ r.lastLogIndex = m.lastLogIndex
                                  /\ r.lastLogTerm = m.lastLogTerm
        /\ m.type = "AppendCall" => /\ r.prevLogIndex = m.prevLogIndex
                                    /\ r.prevLogTerm = m.prevLogTerm
                                    /\ r.entries = m.entries /\ r.leaderCommit = m.leaderCommit
        /\ m.type = "SnapshotCall" => /\ r.lastIncludedIndex = m.lastIncludedIndex
                                      /\ r.lastIncludedTerm = m.lastIncludedTerm
                                      /\ r.data = m.data
    BY <1>1 DEF Orphan, VoteCalls, AppendCalls, SnapshotCalls
  <1> HIDE DEF r
  <1>3. m.type = "VoteCall" => VoteCallFits(r)'
    BY <1>2 DEF CallFits, VoteCallFits
  <1>4. m.type = "AppendCall" => AppendCallFits(L, A, r)'
    BY <1>2 DEF CallFits, AppendCallFits
  <1>5. m.type = "SnapshotCall" => SnapshotCallFits(L, A, r)'
    BY <1>2 DEF CallFits, SnapshotCallFits
  <1>6. r.type # "AppendReply" /\ r.type # "SnapshotReply"
    BY <1>2 DEF CallTypes
  <1>7. CallFits(L, A, r)'
    BY <1>2, <1>3, <1>4, <1>5, <1>6 DEF CallFits
  <1> QED
    BY <1>7 DEF r

LEMMA LogFitsStays ==
  ASSUME TypeOK, TypeOK', NEW L, NEW A, NEW L1, NEW A1, Ghosts(L, A), Grow(L, A, L1, A1),
         NEW i \in Server, LogFits(L, i),
         log'[i] = log[i], lastIncludedIndex'[i] = lastIncludedIndex[i]
  PROVE  LogFits(L1, i)'
  <1> DEFINE base == lastIncludedIndex[i]
             F == L[LastTerm(i)]
             G == L1[LastTerm(i)]
  <1>1. /\ LastTerm(i) \in Nat /\ base \in Nat /\ Len(log[i]) \in Nat \ {0}
        /\ currentTerm[i] \in Nat /\ currentTerm'[i] \in Nat
    BY LastTermIs DEF TypeOK, ServerTypes
  <1>2. /\ Len(F) \in Nat /\ Len(G) \in Nat /\ Len(F) <= Len(G)
        /\ \A x \in 1 .. Len(F) : G[x] = F[x]
    BY <1>1, GrowsLonger
  <1>3. LastTerm(i)' = LastTerm(i)
    BY DEF LastTerm
  <1>4. /\ LastTerm(i) <= currentTerm[i] /\ base + Len(log[i]) - 1 <= Len(F)
        /\ log[i][1].term = TermOf(F, base)
        /\ \A k \in 2 .. Len(log[i]) : log[i][k] = F[base + k - 1]
    BY DEF LogFits, Fits
  <1> HIDE DEF F, G, base
  <1>5. LastTerm(i) <= currentTerm'[i]
    BY <1>1, <1>4 DEF Grow
  <1>6. log[i][1].term = TermOf(G, base)
    <2>1. base = 0 \/ base \in 1 .. Len(F)
      BY <1>1, <1>2, <1>4
    <2> QED
      BY <1>2, <1>4, <2>1 DEF TermOf
  <1>7. ASSUME NEW k \in 2 .. Len(log[i])
        PROVE  log[i][k] = G[base + k - 1]
    <2>1. base + k - 1 \in 1 .. Len(F)
      BY <1>1, <1>2, <1>4
    <2> QED
      BY <1>2, <1>4, <2>1
  <1>8. base + Len(log[i]) - 1 <= Len(G)
    BY <1>1, <1>2, <1>4
  <1> QED
    BY <1>3, <1>5, <1>6, <1>7, <1>8 DEF LogFits, Fits, G, base

LEMMA SealStays ==
  ASSUME TypeOK, TypeOK', NEW L, NEW A, NEW L1, NEW A1, Ghosts(L, A), Grow(L, A, L1, A1),
         NEW i \in Server, Seal(L, A, i), EndKept(i),
         lastIncludedIndex'[i] <= commitIndex'[i], commitIndex'[i] <= commitIndex[i]
  PROVE  Seal(L1, A1, i)'
  <1>1. /\ commitIndex[i] \in Nat /\ commitIndex'[i] \in Nat /\ LastIndex(i) \in Nat
        /\ currentTerm[i] \in Nat /\ currentTerm'[i] \in Nat /\ LastTerm(i) \in Nat
        /\ currentTerm[i] <= currentTerm'[i]
    BY LastTermIs DEF TypeOK, ServerTypes, CommitTypes, Grow
  <1>2. PICK T, x \in Nat : T = currentTerm'[i] /\ x = commitIndex'[i]
    BY <1>1
  <1>3. PICK u \in Nat : u = LastTerm(i) /\ u = LastTerm(i)'
    BY <1>1 DEF EndKept
  <1>4. Sealed(L, A, currentTerm[i], u, x)
    BY <1>1, <1>2, <1>3, SealedLess DEF Seal
  <1>5. Sealed(L1, A1, T, u, x)'
    BY <1>1, <1>2, <1>4, SealedGrows
  <1>6. commitIndex'[i] <= LastIndex(i)'
    BY <1>1 DEF Seal, EndKept
  <1> QED
    BY <1>2, <1>3, <1>5, <1>6 DEF Seal

LEMMA ChosensStay ==
  ASSUME NEW L, NEW A, NEW L1, NEW A1, Ghosts(L, A), Grow(L, A, L1, A1), Chosens(L, A),
         chosen' = chosen
  PROVE  Chosens(L1, A1)'
  BY ChosensGrow DEF Chosens

\* The parts that hold after every step in which nobody appends or is elected.
LEMMA StepWithoutLeader ==
  ASSUME Base, TypeOK', NEW L, NEW A, NEW A1, Inv(L, A), LogStep(L, A, A1), SameRoles, FewerVotes,
         \A i \in Server : state'[i] = Leader =>
           \A p \in Server \ {i} : matchIndex'[i][p] <= A1[p][currentTerm[i]],
         LogsFit(L)', Chosens(L, A1)', Seals(L, A1)', CallsFit(L, A1)', Ranges'
  PROVE  Inv(L, A1)'
  <1>1. Ghosts(L, A1)' /\ Coherent(L)'
    BY CoherentStays DEF LogStep, Grow, Ghosts, Inv
  <1>2. Acks(L, A1)' /\ AckKeeps(L, A1)' /\ Beyond(L, A1)'
    BY AcksStep, AckKeepsStep, BeyondStep DEF Inv, Base
  <1>3. LeadersFit(L, A1)' /\ CandidatesFit' /\ Ballots(L, A1)'
    BY RolesStand, LeadersStep, CandidatesStep, BallotsStep DEF Inv, Base, LogStep
  <1> QED
    BY <1>1, <1>2, <1>3 DEF Inv

-----------------------------------------------------------------------------
(* Quiet steps with the ghosts left as they are.                           *)

LEMMA QuietLogStep ==
  ASSUME Base, TypeOK', NEW L, NEW A, Ghosts(L, A), Quiet, chosen \subseteq chosen',
         \A i \in Server : Moves(L, i)
  PROVE  LogStep(L, A, A) /\ SameRoles /\ FewerVotes
  <1>1. SameRoles /\ FewerVotes /\ SameElected /\ \A i \in Server : currentTerm'[i] >= currentTerm[i]
    BY QuietRoles DEF Base
  <1>2. ASSUME NEW T \in Nat
        PROVE  Agree(L[T], L[T], Len(L[T]))
    BY GhostFacts DEF Agree
  <1>3. \A q \in Server, t \in Nat : A[q][t] >= A[q][t]
    BY GhostFacts
  <1>4. Grow(L, A, L, A)
    BY <1>1, <1>2, <1>3 DEF Grow
  <1>5. \A q \in Server, t \in Nat : Acknowledges(L, A, A, q, t)
    BY DEF Acknowledges
  <1> QED
    BY <1>1, <1>4, <1>5 DEF LogStep

LEMMA CallsStay ==
  ASSUME Base, TypeOK', NEW L, NEW A, NEW A1, Inv(L, A), LogStep(L, A, A1), SameRoles,
         \A m \in rpcs' : m \in rpcs \/ CallFits(L, A1, m)'
  PROVE  CallsFit(L, A1)'
  <1>1. ASSUME NEW m \in rpcs
        PROVE  CallFits(L, A1, m)'
    <2>1. CallFits(L, A, m) /\ m.from \in Server
      BY RpcKinds DEF Inv, CallsFit, Base, TypeOK
    <2>2. \A i \in Server, T \in Nat : ElectedBy(i, T) => ElectedBy(i, T)'
      BY DEF LogStep, SameElected
    <2>3. ASSUME state'[m.from] = Candidate
          PROVE  state[m.from] = Candidate /\ currentTerm'[m.from] = currentTerm[m.from]
                 /\ EndKept(m.from)
      BY <2>1, <2>3 DEF SameRoles, LogStep, Moves, CutTo, Candidate, Follower
    <2>4. Grow(L, A, L, A1) /\ Ghosts(L, A) /\ TypeOK
      BY DEF LogStep, Inv, Base
    <2> QED
      BY <2>1, <2>2, <2>3, <2>4, CallFitsStays
  <1> QED
    BY <1>1 DEF CallsFit

LEMMA EndStays ==
  ASSUME UNCHANGED <<log, lastIncludedIndex>>
  PROVE  \A i \in Server : EndKept(i)
  BY DEF EndKept, LastTerm, LastIndex

LEMMA AllEndsKept ==
  ASSUME NEW L, \A i \in Server : EndKept(i)
  PROVE  \A i \in Server : Moves(L, i)
  BY DEF Moves

LEMMA LogsStay ==
  ASSUME TypeOK, TypeOK', NEW L, NEW A, NEW L1, NEW A1, Ghosts(L, A), Grow(L, A, L1, A1),
         LogsFit(L), UNCHANGED <<log, lastIncludedIndex>>
  PROVE  LogsFit(L1)'
  <1> SUFFICES ASSUME NEW i \in Server PROVE LogFits(L1, i)'
    BY DEF LogsFit
  <1> QED
    BY LogFitsStays DEF LogsFit

LEMMA SealsStay ==
  ASSUME TypeOK, TypeOK', NEW L, NEW A, NEW L1, NEW A1, Ghosts(L, A), Grow(L, A, L1, A1),
         Seals(L, A), UNCHANGED <<log, lastIncludedIndex, commitIndex>>
  PROVE  Seals(L1, A1)'
  <1> SUFFICES ASSUME NEW i \in Server PROVE Seal(L1, A1, i)'
    BY DEF Seals
  <1>1. EndKept(i) /\ Seal(L, A, i)
    BY EndStays DEF Seals
  <1>2. commitIndex[i] \in Nat /\ lastIncludedIndex[i] \in Nat
    BY DEF TypeOK, CommitTypes, LogTypes
  <1>3. lastIncludedIndex'[i] <= commitIndex'[i] /\ commitIndex'[i] <= commitIndex[i]
    BY <1>1, <1>2 DEF Seal
  <1> QED
    BY <1>1, <1>3, SealStays

\* Nothing of the logs or of what is committed changes.
LEMMA StepInPlace ==
  ASSUME Base, TypeOK', NEW L, NEW A, Inv(L, A), Quiet,
         UNCHANGED <<log, lastIncludedIndex, commitIndex, chosen>>,
         \A i \in Server : state'[i] = Leader =>
           \A p \in Server \ {i} : matchIndex'[i][p] <= A[p][currentTerm[i]],
         \A m \in rpcs' : m \in rpcs \/ CallFits(L, A, m)', Ranges'
  PROVE  Inv(L, A)'
  <1>1. Ghosts(L, A) /\ \A i \in Server : Moves(L, i)
    BY EndStays, AllEndsKept DEF Inv
  <1>2. LogStep(L, A, A) /\ SameRoles /\ FewerVotes
    BY <1>1, QuietLogStep
  <1>3. Grow(L, A, L, A) /\ TypeOK
    BY <1>2 DEF LogStep, Base
  <1>4. LogsFit(L)' /\ Seals(L, A)' /\ Chosens(L, A)'
    BY <1>1, <1>3, LogsStay, SealsStay, ChosensStay DEF Inv
  <1>5. CallsFit(L, A)'
    BY <1>2, CallsStay
  <1> QED
    BY <1>2, <1>4, <1>5, StepWithoutLeader

LEMMA MatchesStand ==
  ASSUME NEW L, NEW A, LeadersFit(L, A), LeadersStand, UNCHANGED matchIndex
  PROVE  \A i \in Server : state'[i] = Leader =>
           \A p \in Server \ {i} : matchIndex'[i][p] <= A[p][currentTerm[i]]
  BY DEF LeadersFit, LeaderFits, LeadersStand

LEMMA MatchesStay ==
  ASSUME Base, NEW L, NEW A, LeadersFit(L, A), SameRoles, UNCHANGED matchIndex
  PROVE  \A i \in Server : state'[i] = Leader =>
           \A p \in Server \ {i} : matchIndex'[i][p] <= A[p][currentTerm[i]]
  BY MatchesStand, RolesStand

LEMMA SameSnapshots ==
  ASSUME DiskTypes, NEW i \in Server,
         \/ UNCHANGED persister
         \/ Persist(i, persister[i].snapshot)
         \/ \E called \in BOOLEAN : PersistIf(called, i)
  PROVE  \A j \in Server : persister'[j].snapshot = persister[j].snapshot
  <1>1. CASE UNCHANGED persister
    BY <1>1
  <1>2. CASE Persist(i, persister[i].snapshot)
    BY <1>2 DEF Persist, DiskTypes
  <1> QED
    BY <1>1, <1>2 DEF PersistIf

LEMMA RangesStand ==
  ASSUME Ranges, LeadersStand,
         UNCHANGED <<log, lastIncludedIndex, lastIncludedTerm, commitIndex, nextIndex,
                     lastApplied, readerAt, applier, sm>>,
         \A j \in Server : persister'[j].snapshot = persister[j].snapshot
  PROVE  Ranges'
  <1> SUFFICES ASSUME NEW i \in Server PROVE InRange(i)'
    BY DEF Ranges
  <1>1. InRange(i) /\ (state'[i] = Leader => state[i] = Leader)
    BY DEF Ranges, LeadersStand
  <1>2. LastIndex(i)' = LastIndex(i)
    BY DEF LastIndex
  <1> QED
    BY <1>1, <1>2 DEF InRange

LEMMA RangesStay ==
  ASSUME Ranges, SameRoles,
         UNCHANGED <<log, lastIncludedIndex, lastIncludedTerm, commitIndex, nextIndex,
                     lastApplied, readerAt, applier, sm>>,
         \A j \in Server : persister'[j].snapshot = persister[j].snapshot
  PROVE  Ranges'
  BY RolesStand, RangesStand

LEMMA LogAtStepDown ==
  ASSUME Base, TypeOK', NEW L, NEW A, Inv(L, A), NEW m \in rpcs, StepDown(m)
  PROVE  Inv(L, A)'
  <1>1. Quiet /\ SameRoles
    BY QuietHandlers, QuietRoles DEF Base
  <1>2. /\ UNCHANGED <<logVars, leaderVars, commitVars, applyVars>>
        /\ PersistIf(TRUE, m.from) /\ m.from \in Server /\ rpcs' = rpcs \ {m}
    BY RpcKinds DEF StepDown, Received, Base, TypeOK
  <1>3. \A j \in Server : persister'[j].snapshot = persister[j].snapshot
    BY <1>2, SameSnapshots DEF Base, TypeOK
  <1>4. Ranges'
    BY <1>1, <1>2, <1>3, RangesStay DEF Inv, logVars, leaderVars, commitVars, applyVars
  <1>5. \A i \in Server : state'[i] = Leader =>
           \A p \in Server \ {i} : matchIndex'[i][p] <= A[p][currentTerm[i]]
    BY <1>1, <1>2, MatchesStay DEF Inv, leaderVars
  <1> QED
    BY <1>1, <1>2, <1>4, <1>5, StepInPlace DEF logVars, commitVars

LEMMA Slice ==
  ASSUME NEW s \in Seq(Entry), NEW j \in Nat, NEW n \in Nat, 1 <= j, n <= Len(s), j <= n + 1
  PROVE  /\ SubSeq(s, j, n) \in Seq(Entry) /\ Len(SubSeq(s, j, n)) = n - j + 1
         /\ \A k \in 1 .. n - j + 1 : SubSeq(s, j, n)[k] = s[j + k - 1]
  <1>1. Len(s) \in Nat
    BY LenProperties
  <1>2. j \in Int /\ n \in Int
    OBVIOUS
  <1>3. \A k \in j .. n : s[k] \in Entry
    BY <1>1, <1>2, ElementOfSeq
  <1>4. Len(SubSeq(s, j, n)) = IF j <= n THEN n - j + 1 ELSE 0
    BY <1>2, <1>3, SubSeqProperties
  <1>5. Len(SubSeq(s, j, n)) = n - j + 1
    BY <1>2, <1>4
  <1>6. SubSeq(s, j, n) \in Seq(Entry) /\ \A k \in 1 .. n - j + 1 : SubSeq(s, j, n)[k] = s[j + k - 1]
    BY <1>2, <1>3, SubSeqProperties
  <1> QED
    BY <1>5, <1>6

\* A call built from the leader's log fits.
LEMMA AppendFits ==
  ASSUME ServerTypes, LeaderTypes, LogTypes, CommitTypes,
         NEW i \in Server, NEW p \in Reachable(i), NEW entries \in Logs,
         nextIndex[i][p] > lastIncludedIndex[i],
         nextIndex[i][p] <= lastIncludedIndex[i] + Len(entries),
         NEW L1, NEW A1, NEW T \in Nat, T = currentTerm[i], L1[T] \in Seq(Entry),
         Fits(L1[T], lastIncludedIndex[i], entries),
         lastIncludedIndex[i] + Len(entries) - 1 = Len(L1[T]),
         NEW c \in Nat, c = commitIndex[i], c <= Len(L1[T]),
         ElectedBy(i, T)', Sealed(L1, A1, T, T, c)',
         NEW m, m = AppendCall(i, p, entries)
  PROVE  CallFits(L1, A1, m)'
  <1> DEFINE base == lastIncludedIndex[i]
             F == L1[T]
             prev == nextIndex[i][p] - 1
             first == prev - base + 2
  <1>1. entries \in Seq(Entry) /\ Len(entries) \in Nat \ {0}
    BY EmptySeq, LenProperties DEF Logs
  <1>2a. Len(F) \in Nat
    BY LenProperties
  <1>2b. p \in Server
    BY SlotIsFree
  <1>2c. base \in Nat /\ nextIndex[i][p] \in Nat
    BY <1>2b DEF LogTypes, LeaderTypes
  <1>2. p \in Server /\ base \in Nat /\ nextIndex[i][p] \in Nat /\ Len(F) \in Nat
    BY <1>2a, <1>2b, <1>2c
  <1>3. /\ prev \in Nat /\ first \in Nat /\ 2 <= first /\ first <= Len(entries) + 1
        /\ base <= prev /\ prev + 1 <= base + Len(entries) /\ first = prev - base + 2
    <2>1. PICK next \in Nat : next = nextIndex[i][p]
      BY <1>2
    <2>2. PICK b \in Nat : b = lastIncludedIndex[i]
      BY <1>2
    <2>3. next > b /\ next <= b + Len(entries)
      BY <2>1, <2>2
    <2>4. /\ next - 1 \in Nat /\ next - 1 - b + 2 \in Nat /\ 2 <= next - 1 - b + 2
          /\ next - 1 - b + 2 <= Len(entries) + 1 /\ b <= next - 1
          /\ next - 1 + 1 <= b + Len(entries)
      BY <1>1, <2>3
    <2> QED
      BY <2>1, <2>2, <2>4
  <1>4. /\ m.type = "AppendCall" /\ m.from = i /\ m.term = T /\ m.prevLogIndex = prev
        /\ m.prevLogTerm = entries[prev - base + 1].term
        /\ m.entries = SubSeq(entries, first, Len(entries)) /\ m.leaderCommit = c
    BY DEF AppendCall
  <1> DEFINE rest == SubSeq(entries, first, Len(entries))
  <1>5. /\ Len(rest) = Len(entries) - first + 1
        /\ \A k \in 1 .. Len(entries) - first + 1 : rest[k] = entries[first + k - 1]
    <2> HIDE DEF first, prev, base
    <2> QED
      BY <1>1, <1>3, Slice, SMTT(20)
  <1>6. /\ entries[1].term = TermOf(F, base) /\ base + Len(entries) - 1 = Len(F)
        /\ \A k \in 2 .. Len(entries) : entries[k] = F[base + k - 1]
    BY DEF Fits
  <1> HIDE DEF base, F, prev, first, rest
  <1>7. prev + Len(rest) = Len(F)
    BY <1>1, <1>2, <1>3, <1>5, <1>6, SMTT(20)
  <1>8. ASSUME NEW k \in 1 .. Len(rest)
        PROVE  rest[k] = F[prev + k]
    <2>1. first + k - 1 \in 2 .. Len(entries) /\ k \in 1 .. Len(entries) - first + 1
      BY <1>1, <1>2, <1>3, <1>5
    <2>2. rest[k] = F[base + (first + k - 1) - 1]
      BY <1>5, <1>6, <2>1
    <2>3. base + (first + k - 1) - 1 = prev + k
      BY <1>1, <1>2, <1>3
    <2> QED
      BY <2>2, <2>3
  <1>9. entries[prev - base + 1].term = TermOf(F, prev)
    <2>1. CASE prev = base
      <3>1. prev - base + 1 = 1
        BY <1>2, <2>1
      <3> QED
        BY <1>6, <2>1, <3>1
    <2>2. CASE prev # base
      <3>1. prev - base + 1 \in 2 .. Len(entries) /\ base + (prev - base + 1) - 1 = prev /\ prev # 0
        BY <1>1, <1>2, <1>3, <2>2
      <3> QED
        BY <1>6, <3>1 DEF TermOf
    <2> QED
      BY <2>1, <2>2
  <1>10. /\ prev + Len(rest) <= Len(F) /\ c <= prev + Len(rest)
    BY <1>2, <1>7 DEF F
  <1>11. ElectedBy(m.from, m.term)' /\ Sealed(L1, A1, m.term, m.term, m.leaderCommit)'
    BY <1>4
  <1>12. AppendCallFits(L1, A1, m)'
    BY <1>4, <1>8, <1>9, <1>10, <1>11 DEF AppendCallFits, F, rest, prev, base
  <1> QED
    BY <1>4, <1>12 DEF CallFits

LEMMA SnapshotFits ==
  ASSUME LogTypes, NEW i \in Server, NEW p \in Server,
         lastIncludedIndex[i] > 0, InRange(i),
         NEW L1, NEW A1, NEW T \in Nat, T = currentTerm[i], L1[T] \in Seq(Entry),
         lastIncludedIndex[i] <= Len(L1[T]),
         log[i][1].term = TermOf(L1[T], lastIncludedIndex[i]),
         NEW c \in Nat, c = lastIncludedIndex[i],
         ElectedBy(i, T)', Sealed(L1, A1, T, T, c)',
         NEW m, m = SnapshotCall(i, p)
  PROVE  CallFits(L1, A1, m)'
  <1>1. /\ m.type = "SnapshotCall" /\ m.from = i /\ m.term = T /\ m.lastIncludedIndex = c
        /\ m.lastIncludedTerm = lastIncludedTerm[i] /\ m.data = persister[i].snapshot
    BY DEF SnapshotCall
  <1>2. /\ lastIncludedTerm[i] = log[i][1].term /\ Len(persister[i].snapshot) > 0
    BY DEF InRange
  <1>3. c >= 1 /\ c <= Len(L1[T]) /\ lastIncludedTerm[i] = L1[T][c].term
    BY <1>2, LenProperties DEF TermOf
  <1>4. ElectedBy(m.from, m.term)' /\ Sealed(L1, A1, m.term, m.term, m.lastIncludedIndex)'
    BY <1>1
  <1>5. SnapshotCallFits(L1, A1, m)'
    BY <1>1, <1>2, <1>3, <1>4 DEF SnapshotCallFits
  <1> QED
    BY <1>1, <1>5 DEF CallFits

\* Where a leader's log stands, before it appends.
LEMMA LeaderLog ==
  ASSUME Base, NEW L, NEW A, Inv(L, A), NEW i \in Server, NEW T \in Nat,
         T = currentTerm[i], state[i] = Leader
  PROVE  /\ Len(L[T]) = LastIndex(i) /\ Fits(L[T], lastIncludedIndex[i], log[i])
         /\ ElectedBy(i, T)
         /\ commitIndex[i] \in Nat /\ lastIncludedIndex[i] \in Nat /\ commitIndex[i] <= LastIndex(i)
         /\ lastIncludedIndex[i] <= commitIndex[i]
         /\ Sealed(L, A, T, T, commitIndex[i]) /\ Sealed(L, A, T, T, lastIncludedIndex[i])
  <1> DEFINE u == LastTerm(i)
             n == LastIndex(i)
             base == lastIncludedIndex[i]
             c == commitIndex[i]
  <1>1. /\ ElectedBy(i, T) /\ Len(L[T]) = n /\ Agree(L[u], L[T], n)
    BY DEF Inv, LeadersFit, LeaderFits, Holds
  <1>2. /\ u \in Nat /\ n \in Nat /\ base \in Nat /\ base <= n /\ c \in Nat
        /\ Len(log[i]) \in Nat \ {0} /\ n = base + Len(log[i]) - 1
    BY LastTermIs DEF Base, TypeOK, CommitTypes
  <1>3. /\ base <= c /\ c <= n /\ Sealed(L, A, T, u, c)
    BY DEF Inv, Seals, Seal
  <1>4. Fits(L[u], base, log[i])
    BY DEF Inv, LogsFit, LogFits
  <1>5. Ghosts(L, A) /\ Len(L[u]) \in Nat
    BY <1>2, GhostFacts DEF Inv
  <1> HIDE DEF u, n, base, c
  <1>6. Fits(L[T], base, log[i])
    <2>1. log[i][1].term = TermOf(L[T], base)
      BY <1>1, <1>2, <1>4, SMTT(20) DEF Fits, Agree, TermOf
    <2>2. ASSUME NEW k \in 2 .. Len(log[i])
          PROVE  log[i][k] = L[T][base + k - 1]
      <3>1. base + k - 1 \in 1 .. n
        BY <1>2
      <3> QED
        BY <1>1, <1>4, <3>1 DEF Fits, Agree
    <2> QED
      BY <1>1, <1>2, <2>1, <2>2 DEF Fits
  <1>7. Agree(L[T], L[u], c) /\ Agree(L[T], L[u], base)
    BY <1>1, <1>2, <1>3, <1>5, AgreeSym, AgreeLess
  <1>8. Sealed(L, A, T, u, base)
    BY <1>2, <1>3, <1>5, SealedLess
  <1>9. Sealed(L, A, T, T, c) /\ Sealed(L, A, T, T, base)
    BY <1>2, <1>3, <1>7, <1>8, SealedMoves
  <1> QED
    BY <1>1, <1>2, <1>3, <1>6, <1>9 DEF n, base, c

LEMMA BroadcastFits ==
  ASSUME Base, NEW L, NEW A, Inv(L, A), NEW i \in Server, state[i] = Leader,
         NEW L1, NEW A1, Grow(L, A, L1, A1), NEW entries \in Logs, NEW T \in Nat,
         T = currentTerm[i],
         Fits(L1[T], lastIncludedIndex[i], entries),
         lastIncludedIndex[i] + Len(entries) - 1 = Len(L1[T]),
         ElectedBy(i, T)', Broadcast(i, entries)
  PROVE  \A m \in rpcs' : m \in rpcs \/ CallFits(L1, A1, m)'
  <1> SUFFICES ASSUME NEW m \in rpcs', m \notin rpcs PROVE CallFits(L1, A1, m)'
    OBVIOUS
  <1>1. /\ Len(L[T]) = LastIndex(i) /\ Fits(L[T], lastIncludedIndex[i], log[i])
        /\ commitIndex[i] \in Nat /\ lastIncludedIndex[i] \in Nat /\ commitIndex[i] <= LastIndex(i)
        /\ lastIncludedIndex[i] <= commitIndex[i]
        /\ Sealed(L, A, T, T, commitIndex[i]) /\ Sealed(L, A, T, T, lastIncludedIndex[i])
    BY LeaderLog
  <1>2. PICK c, b \in Nat : c = commitIndex[i] /\ b = lastIncludedIndex[i]
    BY <1>1
  <1>3. Sealed(L1, A1, T, T, c)' /\ Sealed(L1, A1, T, T, b)'
    BY <1>1, <1>2, SealedGrows DEF Inv
  <1>4. /\ Len(L[T]) \in Nat /\ Len(L1[T]) \in Nat /\ Len(L[T]) <= Len(L1[T])
        /\ \A x \in 1 .. Len(L[T]) : L1[T][x] = L[T][x]
        /\ L1[T] \in Seq(Entry) /\ InRange(i)
    <2>1. Ghosts(L, A) /\ Ghosts(L1, A1) /\ InRange(i)
      BY DEF Inv, Grow, Ranges
    <2>2. /\ Len(L[T]) \in Nat /\ Len(L1[T]) \in Nat /\ Len(L[T]) <= Len(L1[T])
          /\ \A x \in 1 .. Len(L[T]) : L1[T][x] = L[T][x]
      BY <2>1, GrowsLonger
    <2>3. L1[T] \in Seq(Entry)
      BY <2>1, GhostFacts
    <2> QED
      BY <2>1, <2>2, <2>3
  <1>5. c <= Len(L1[T]) /\ b <= Len(L1[T]) /\ c <= Len(L[T]) /\ b <= Len(L[T])
    BY <1>1, <1>2, <1>4
  <1>6. log[i][1].term = TermOf(L1[T], b)
    <2>1. log[i][1].term = TermOf(L[T], b)
      BY <1>1, <1>2 DEF Fits
    <2>2. b = 0 \/ b \in 1 .. Len(L[T])
      BY <1>2, <1>4, <1>5
    <2> QED
      BY <1>4, <2>1, <2>2 DEF TermOf
  <1>7. PICK p \in Reachable(i) :
          m = IF nextIndex[i][p] <= lastIncludedIndex[i]
              THEN SnapshotCall(i, p) ELSE AppendCall(i, p, entries)
    BY DEF Broadcast, SendCalls
  <1>8. p \in Server /\ p # i
    BY SlotIsFree
  <1>9. /\ nextIndex[i][p] \in Nat /\ nextIndex[i][p] >= 1
        /\ nextIndex[i][p] <= lastIncludedIndex[i] + Len(entries)
    BY <1>4, <1>8 DEF InRange, Broadcast, Base, TypeOK, LeaderTypes
  <1>10. CASE nextIndex[i][p] <= lastIncludedIndex[i]
    <2>1. lastIncludedIndex[i] > 0 /\ m = SnapshotCall(i, p)
      BY <1>1, <1>7, <1>9, <1>10
    <2> QED
      BY <1>2, <1>3, <1>4, <1>5, <1>6, <1>8, <2>1, SnapshotFits DEF Base, TypeOK
  <1>11. CASE ~(nextIndex[i][p] <= lastIncludedIndex[i])
    <2>1. nextIndex[i][p] > lastIncludedIndex[i] /\ m = AppendCall(i, p, entries)
      BY <1>1, <1>7, <1>9, <1>11
    <2> QED
      BY <1>2, <1>3, <1>4, <1>5, <1>9, <2>1, AppendFits DEF Base, TypeOK
  <1> QED
    BY <1>10, <1>11

LEMMA LogAtHeartbeat ==
  ASSUME Base, TypeOK', NEW L, NEW A, Inv(L, A), NEW i \in Server, Heartbeat(i)
  PROVE  Inv(L, A)'
  <1>1. Quiet /\ SameRoles /\ SameElected /\ state[i] = Leader /\ Broadcast(i, log[i])
    BY QuietActions, QuietRoles DEF Base, Heartbeat
  <1>2. /\ UNCHANGED <<serverVars, logVars, leaderVars, commitVars, applyVars, persister>>
    BY DEF Heartbeat
  <1>3. PICK T \in Nat : T = currentTerm[i]
    BY DEF Base, TypeOK, ServerTypes
  <1>4. /\ Len(L[T]) = LastIndex(i) /\ Fits(L[T], lastIncludedIndex[i], log[i]) /\ ElectedBy(i, T)
    BY <1>1, <1>3, LeaderLog
  <1>5. ElectedBy(i, T)' /\ log[i] \in Logs /\ lastIncludedIndex[i] + Len(log[i]) - 1 = Len(L[T])
    BY <1>1, <1>4 DEF SameElected, Base, TypeOK, LogTypes, LastIndex
  <1>6. Grow(L, A, L, A)
    <2>1. \A j \in Server : Moves(L, j)
      BY <1>2, EndStays, AllEndsKept DEF logVars
    <2> QED
      BY <1>1, <1>2, <2>1, QuietLogStep DEF LogStep, Inv, commitVars
  <1>7. \A m \in rpcs' : m \in rpcs \/ CallFits(L, A, m)'
    BY <1>1, <1>3, <1>4, <1>5, <1>6, BroadcastFits
  <1>8. Ranges'
    BY <1>1, <1>2, RangesStay DEF Inv, logVars, leaderVars, commitVars, applyVars
  <1>9. \A j \in Server : state'[j] = Leader =>
           \A p \in Server \ {j} : matchIndex'[j][p] <= A[p][currentTerm[j]]
    BY <1>1, <1>2, MatchesStay DEF Inv, leaderVars
  <1> QED
    BY <1>1, <1>2, <1>7, <1>8, <1>9, StepInPlace DEF logVars, commitVars

LEMMA RefusalFits ==
  ASSUME NEW L, NEW A, NEW m, NEW term, NEW x, NEW r, r = AppendReply(m, term, FALSE, x)
  PROVE  CallFits(L, A, r)'
  <1>1. r.type = "AppendReply" /\ r.success = FALSE
    BY DEF AppendReply
  <1> QED
    BY <1>1 DEF CallFits

LEMMA LogAtRefusal ==
  ASSUME Base, TypeOK', NEW L, NEW A, Inv(L, A), NEW m \in rpcs, AppendEntries(m),
         RefuseStaleAppend(m) \/ RefuseMismatch(m)
  PROVE  Inv(L, A)'
  <1>1. Quiet /\ SameRoles
    BY QuietHandlers, QuietRoles DEF Base
  <1>2. UNCHANGED <<logVars, leaderVars, commitVars, applyVars>>
    BY DEF AppendEntries, RefuseStaleAppend, RefuseMismatch, commitVars
  <1>3. \E r : Return(m, r) /\ \E term, x : r = AppendReply(m, term, FALSE, x)
    BY DEF RefuseStaleAppend, RefuseMismatch
  <1>4. PICK r : Return(m, r) /\ \E term, x : r = AppendReply(m, term, FALSE, x)
    BY <1>3
  <1>5. CallFits(L, A, r)'
    BY <1>4, RefusalFits
  <1>6. \A d \in rpcs' : d \in rpcs \/ CallFits(L, A, d)'
    <2>1. \A d \in rpcs' : d \in rpcs \/ d = r
      BY <1>4 DEF Return
    <2> QED
      BY <1>5, <2>1
  <1>7. \A j \in Server : persister'[j].snapshot = persister[j].snapshot
    <2>1. m.to \in Server /\ m.term \in Nat /\ DiskTypes
      BY RpcKinds DEF Base, TypeOK
    <2>2. CASE RefuseStaleAppend(m)
      BY <2>2 DEF RefuseStaleAppend
    <2>3. CASE RefuseMismatch(m)
      <3>1. PersistIf(FollowTermPersists(m.to, m.term), m.to)
        BY <2>3 DEF RefuseMismatch
      <3> QED
        BY <2>1, <3>1, SameSnapshots DEF PersistIf
    <2> QED
      BY <2>2, <2>3
  <1>8. Ranges'
    BY <1>1, <1>2, <1>7, RangesStay DEF Inv, logVars, leaderVars, commitVars, applyVars
  <1>9. \A i \in Server : state'[i] = Leader =>
           \A p \in Server \ {i} : matchIndex'[i][p] <= A[p][currentTerm[i]]
    BY <1>1, <1>2, MatchesStay DEF Inv, leaderVars
  <1> QED
    BY <1>1, <1>2, <1>6, <1>8, <1>9, StepInPlace DEF logVars, commitVars

LEMMA LogAtApply ==
  ASSUME Base, TypeOK', NEW L, NEW A, Inv(L, A), NEW i \in Server, Apply(i)
  PROVE  Inv(L, A)'
  <1>1. Quiet /\ SameRoles
    BY QuietActions, QuietRoles DEF Base
  <1>2. UNCHANGED <<serverVars, logVars, leaderVars, commitVars, electionVars, persister, rpcs>>
    BY DEF Apply
  <1>3. \A j \in Server : InRange(j) /\ LastIndex(j)' = LastIndex(j)
    BY <1>2 DEF Inv, Ranges, LastIndex, logVars
  <1>4. /\ lastApplied[i] \in Nat /\ commitIndex[i] \in Nat /\ applier[i].index \in Nat
        /\ readerAt[i] \in Nat /\ sm[i] \in Seq(Command) /\ Len(sm[i]) \in Nat
        /\ applier[i].command \in Command \cup {None}
        /\ lastApplied \in [Server -> Nat] /\ applier \in [Server -> Messages]
        /\ sm \in [Server -> Seq(Command)] /\ readerAt \in [Server -> Nat]
        /\ lastIncludedIndex[i] \in Nat
    <2>1. /\ lastApplied \in [Server -> Nat] /\ applier \in [Server -> Messages]
          /\ sm \in [Server -> Seq(Command)] /\ readerAt \in [Server -> Nat]
          /\ commitIndex[i] \in Nat /\ lastIncludedIndex[i] \in Nat
      BY DEF Base, TypeOK, ApplyTypes, CommitTypes, LogTypes
    <2>2. applier[i] \in Messages /\ sm[i] \in Seq(Command)
      BY <2>1
    <2>3. Len(sm[i]) \in Nat
      BY <2>2, LenProperties
    <2> QED
      BY <2>1, <2>2, <2>3 DEF Messages
  <1> DEFINE Others == \A j \in Server \ {i} :
               /\ lastApplied'[j] = lastApplied[j] /\ applier'[j] = applier[j]
               /\ sm'[j] = sm[j] /\ readerAt'[j] = readerAt[j]
             Mine == /\ lastApplied'[i] >= lastApplied[i] /\ lastApplied'[i] <= commitIndex[i]
                     /\ readerAt'[i] <= lastApplied'[i] /\ applier'[i].index <= lastApplied'[i]
                     /\ readerAt'[i] > 0 => Len(sm'[i]) > 0
  <1>5. /\ lastApplied[i] <= commitIndex[i] /\ readerAt[i] <= lastApplied[i]
        /\ applier[i].index <= lastApplied[i] /\ (readerAt[i] > 0 => Len(sm[i]) > 0)
    BY <1>3 DEF InRange
  <1>6. ASSUME NEW pc \in ApplierStates, Goto(i, pc)
        PROVE  applier'[i].index = 0 /\ \A j \in Server \ {i} : applier'[j] = applier[j]
    BY <1>4, <1>6 DEF Goto, Idle
  <1>7. ASSUME NextCommand(i), UNCHANGED <<sm, readerAt>>
        PROVE  Others /\ Mine
    <2>1. CASE lastApplied[i] < commitIndex[i]
      <3> DEFINE x == lastApplied[i] + 1
      <3>1. /\ lastApplied' = [lastApplied EXCEPT ![i] = x]
            /\ \E c : applier' = [applier EXCEPT ![i] =
                         [Idle EXCEPT !.pc = "sendCommand", !.index = x, !.command = c]]
        BY <1>7, <2>1 DEF NextCommand
      <3>2. lastApplied'[i] = x /\ applier'[i].index = x
            /\ \A j \in Server \ {i} : lastApplied'[j] = lastApplied[j] /\ applier'[j] = applier[j]
        BY <1>4, <3>1 DEF Idle
      <3> QED
        BY <1>4, <1>5, <1>7, <2>1, <3>2
    <2>2. CASE ~(lastApplied[i] < commitIndex[i])
      <3>1. Goto(i, "top") /\ UNCHANGED lastApplied
        BY <1>7, <2>2 DEF NextCommand
      <3> QED
        BY <1>4, <1>5, <1>6, <1>7, <3>1 DEF ApplierStates
    <2> QED
      BY <2>1, <2>2
  <1>8. ASSUME ApplierTop(i)
        PROVE  Others /\ Mine
    <2>1. CASE Goto(i, "readSnapshot") /\ UNCHANGED lastApplied
      BY <1>4, <1>5, <1>6, <1>8, <2>1 DEF ApplierTop, ApplierStates
    <2>2. CASE NextCommand(i)
      BY <1>7, <1>8, <2>2 DEF ApplierTop
    <2>3. Others /\ Mine
      BY <1>8, <2>1, <2>2 DEF ApplierTop
    <2> QED
      BY <2>3
  <1>9. ASSUME ApplierReadSnapshot(i)
        PROVE  Others /\ Mine
    <2>1. /\ \E d : applier' = [applier EXCEPT ![i] = [Idle EXCEPT !.pc = "sendSnapshot", !.data = d]]
          /\ UNCHANGED <<lastApplied, sm, readerAt>>
      BY <1>9 DEF ApplierReadSnapshot
    <2>2. applier'[i].index = 0 /\ \A j \in Server \ {i} : applier'[j] = applier[j]
      BY <1>4, <2>1 DEF Idle
    <2>3. Others /\ Mine
      BY <1>4, <1>5, <2>1, <2>2
    <2> QED
      BY <2>3
  <1>10. ASSUME ApplierSentSnapshot(i) \/ ApplierSentCommand(i)
        PROVE  Others /\ Mine
    BY <1>7, <1>10 DEF ApplierSentSnapshot, ApplierSentCommand
  <1>11. ASSUME ReaderRestore(i)
        PROVE  Others /\ Mine
    <2>1. /\ \E d : sm' = [sm EXCEPT ![i] = d]
          /\ readerAt' = [readerAt EXCEPT ![i] = 0]
          /\ Goto(i, "sentSnapshot") /\ UNCHANGED lastApplied
      BY <1>11 DEF ReaderRestore
    <2>2. readerAt'[i] = 0 /\ \A j \in Server \ {i} : sm'[j] = sm[j] /\ readerAt'[j] = readerAt[j]
      BY <1>4, <2>1
    <2>3. Others /\ Mine
      BY <1>4, <1>5, <1>6, <2>1, <2>2 DEF ApplierStates
    <2> QED
      BY <2>3
  <1>12. ASSUME ReaderDoOp(i)
        PROVE  Others /\ Mine
    <2>1. Goto(i, "sentCommand") /\ UNCHANGED lastApplied
      BY <1>12 DEF ReaderDoOp
    <2>2. CASE applier[i].command # None
      <3>1. /\ sm' = [sm EXCEPT ![i] = Append(sm[i], applier[i].command)]
            /\ readerAt' = [readerAt EXCEPT ![i] = applier[i].index]
        BY <1>12, <2>2 DEF ReaderDoOp
      <3>2. Len(Append(sm[i], applier[i].command)) = Len(sm[i]) + 1
        BY <1>4, <2>2, AppendProperties
      <3>3. Len(sm'[i]) > 0 /\ readerAt'[i] = applier[i].index
            /\ \A j \in Server \ {i} : sm'[j] = sm[j] /\ readerAt'[j] = readerAt[j]
        BY <1>4, <3>1, <3>2
      <3>4. Others /\ Mine
        BY <1>4, <1>5, <1>6, <2>1, <3>3 DEF ApplierStates
      <3> QED
        BY <3>4
    <2>3. CASE ~(applier[i].command # None)
      <3>1. UNCHANGED <<sm, readerAt>>
        BY <1>12, <2>3 DEF ReaderDoOp
      <3>2. Others /\ Mine
        BY <1>4, <1>5, <1>6, <2>1, <3>1 DEF ApplierStates
      <3> QED
        BY <3>2
    <2> QED
      BY <2>2, <2>3
  <1>13. Others /\ Mine
    BY <1>8, <1>9, <1>10, <1>11, <1>12 DEF Apply
  <1>14. Ranges'
    <2> SUFFICES ASSUME NEW j \in Server PROVE InRange(j)'
      BY DEF Ranges
    <2>1. InRange(j) /\ LastIndex(j)' = LastIndex(j)
      BY <1>3
    <2>2. CASE j # i
      BY <1>2, <1>13, <2>1, <2>2 DEF InRange, serverVars, logVars, leaderVars, commitVars
    <2>3. CASE j = i
      <3>1. lastApplied'[i] \in Nat
        BY DEF TypeOK, ApplyTypes
      <3>2. lastIncludedIndex[i] <= lastApplied'[i]
        BY <1>4, <1>13, <2>1, <2>3, <3>1 DEF InRange
      <3> QED
        BY <1>2, <1>13, <2>1, <2>3, <3>2 DEF InRange, serverVars, logVars, leaderVars, commitVars
    <2> QED
      BY <2>2, <2>3
  <1>15. \A j \in Server : state'[j] = Leader =>
           \A p \in Server \ {j} : matchIndex'[j][p] <= A[p][currentTerm[j]]
    BY <1>1, <1>2, MatchesStay DEF Inv, leaderVars
  <1> QED
    BY <1>1, <1>2, <1>14, <1>15, StepInPlace DEF logVars, commitVars

\* Every log keeps its end, and nothing is committed.
LEMMA StepKeepingEnds ==
  ASSUME Base, TypeOK', NEW L, NEW A, Inv(L, A), Quiet,
         \A i \in Server : EndKept(i), chosen' = chosen,
         \A i \in Server : /\ lastIncludedIndex'[i] <= commitIndex'[i]
                           /\ commitIndex'[i] <= commitIndex[i],
         \A i \in Server : state'[i] = Leader =>
           \A p \in Server \ {i} : matchIndex'[i][p] <= A[p][currentTerm[i]],
         \A i \in Server : \/ LogFits(L, i)'
                           \/ log'[i] = log[i] /\ lastIncludedIndex'[i] = lastIncludedIndex[i],
         \A m \in rpcs' : m \in rpcs \/ CallFits(L, A, m)', Ranges'
  PROVE  Inv(L, A)'
  <1>1. Ghosts(L, A) /\ \A i \in Server : Moves(L, i)
    BY AllEndsKept DEF Inv
  <1>2. LogStep(L, A, A) /\ SameRoles /\ FewerVotes
    BY <1>1, QuietLogStep
  <1>3. Grow(L, A, L, A) /\ TypeOK
    BY <1>2 DEF LogStep, Base
  <1>4. Seals(L, A)'
    <2> SUFFICES ASSUME NEW i \in Server PROVE Seal(L, A, i)'
      BY DEF Seals
    <2> QED
      BY <1>1, <1>3, SealStays DEF Inv, Seals
  <1>5. LogsFit(L)'
    <2> SUFFICES ASSUME NEW i \in Server PROVE LogFits(L, i)'
      BY DEF LogsFit
    <2> QED
      BY <1>1, <1>3, LogFitsStays DEF Inv, LogsFit
  <1>6. CallsFit(L, A)' /\ Chosens(L, A)'
    BY <1>1, <1>2, <1>3, CallsStay, ChosensStay DEF Inv
  <1> QED
    BY <1>2, <1>4, <1>5, <1>6, StepWithoutLeader

LEMMA FitsSuffix ==
  ASSUME NEW F \in Seq(Entry), NEW base \in Nat, NEW s \in Seq(Entry), Len(s) # 0, Fits(F, base, s),
         NEW x \in Nat, base <= x, x <= base + Len(s) - 1,
         NEW j \in Nat, j = x - base + 1, NEW r, Len(r) = Len(s) - j + 1,
         \A k \in 1 .. Len(s) - j + 1 : r[k] = s[j + k - 1]
  PROVE  Fits(F, x, r)
  <1>1. Len(s) \in Nat /\ Len(F) \in Nat
    BY LenProperties
  <1>2. j \in Nat /\ 1 <= j /\ j <= Len(s) /\ j = x - base + 1
    BY <1>1
  <1>4. /\ Len(r) = Len(s) - j + 1 /\ \A k \in 1 .. Len(s) - j + 1 : r[k] = s[j + k - 1]
    OBVIOUS
  <1>5. /\ base + Len(s) - 1 <= Len(F) /\ s[1].term = TermOf(F, base)
        /\ \A k \in 2 .. Len(s) : s[k] = F[base + k - 1]
    BY DEF Fits
  <1>6. Len(r) = Len(s) - (x - base) /\ Len(r) \in Nat \ {0} /\ x + Len(r) - 1 <= Len(F)
    BY <1>1, <1>2, <1>4, <1>5
  <1>7. r[1] = s[j]
    <2>1. 1 \in 1 .. Len(s) - j + 1 /\ j + 1 - 1 = j
      BY <1>1, <1>2, <1>4
    <2> QED
      BY <1>4, <2>1
  <1>8. r[1].term = TermOf(F, x)
    <2>1. CASE x = base
      BY <1>2, <1>5, <1>7, <2>1
    <2>2. CASE x # base
      <3>1. j \in 2 .. Len(s) /\ base + j - 1 = x /\ x # 0
        BY <1>1, <1>2, <2>2
      <3> QED
        BY <1>5, <1>7, <3>1 DEF TermOf
    <2> QED
      BY <2>1, <2>2
  <1>9. ASSUME NEW k \in 2 .. Len(r)
        PROVE  r[k] = F[x + k - 1]
    <2>1. k \in 1 .. Len(s) - j + 1 /\ j + k - 1 \in 2 .. Len(s) /\ base + (j + k - 1) - 1 = x + k - 1
      <3>1. Len(r) = Len(s) - j + 1
        BY <1>4
      <3> QED
        BY <1>1, <1>2, <3>1
    <2>2. r[k] = s[j + k - 1]
      BY <1>4, <2>1
    <2>3. s[j + k - 1] = F[base + (j + k - 1) - 1]
      BY <1>5, <2>1
    <2> QED
      BY <2>1, <2>2, <2>3
  <1> QED
    BY <1>2, <1>6, <1>7, <1>8, <1>9 DEF Fits

\* t is s from position j on.
Suffix(t, s, j) == Len(t) = Len(s) - j + 1 /\ \A k \in 1 .. Len(s) - j + 1 : t[k] = s[j + k - 1]

LEMMA SuffixIs ==
  ASSUME NEW s \in Seq(Entry), NEW j \in Nat, 1 <= j, j <= Len(s)
  PROVE  Suffix(SubSeq(s, j, Len(s)), s, j)
  <1>1. Len(s) \in Nat /\ j <= Len(s) + 1
    BY LenProperties
  <1> QED
    BY <1>1, Slice DEF Suffix

LEMMA SuffixOf ==
  ASSUME NEW F \in Seq(Entry), NEW s \in Seq(Entry), NEW b \in Nat, NEW x \in Nat, Fits(F, b, s),
         Len(s) # 0, b <= x, x <= b + Len(s) - 1, NEW j \in Nat, j = x - b + 1,
         NEW t, Suffix(t, s, j)
  PROVE  /\ Fits(F, x, t) /\ Len(t) = Len(s) - (x - b) /\ Len(t) \in Nat \ {0}
         /\ t[Len(t)] = s[Len(s)] /\ t[1] = s[j]
  <1>2. Len(t) = Len(s) - j + 1 /\ \A k \in 1 .. Len(s) - j + 1 : t[k] = s[j + k - 1]
    BY DEF Suffix
  <1>3. Fits(F, x, t)
    BY <1>2, FitsSuffix
  <1>4. /\ 1 \in 1 .. Len(s) - j + 1 /\ Len(t) \in 1 .. Len(s) - j + 1
        /\ j + 1 - 1 = j /\ j + Len(t) - 1 = Len(s)
        /\ Len(t) = Len(s) - (x - b) /\ Len(t) \in Nat \ {0}
    <2>1. Len(s) \in Nat /\ Len(t) = Len(s) - j + 1
      BY <1>2, LenProperties
    <2> QED
      BY <2>1
  <1>5. t[1] = s[j] /\ t[Len(t)] = s[Len(s)]
    BY <1>2, <1>4
  <1> QED
    BY <1>3, <1>4, <1>5

LEMMA LogAtSnapshot ==
  ASSUME Base, TypeOK', NEW L, NEW A, Inv(L, A), NEW i \in Server, Snapshot(i)
  PROVE  Inv(L, A)'
  <1>1. Quiet /\ SameRoles
    BY QuietActions, QuietRoles DEF Base
  <1>2. /\ UNCHANGED <<serverVars, leaderVars, commitVars, electionVars, rpcs,
                       lastApplied, snapshotPending, applier, sm>>
        /\ Persist(i, sm[i])
    BY DEF Snapshot
  <1>3. PICK x \in Nat : x = readerAt[i]
    BY DEF Base, TypeOK, ApplyTypes
  <1> DEFINE base == lastIncludedIndex[i]
             r == SubSeq(log[i], x - base + 1, Len(log[i]))
  <1>4. /\ x > base /\ x <= LastIndex(i)
        /\ lastIncludedTerm' = [lastIncludedTerm EXCEPT ![i] = TermAt(i, x)]
        /\ log' = [log EXCEPT ![i] = r]
        /\ lastIncludedIndex' = [lastIncludedIndex EXCEPT ![i] = x]
        /\ readerAt' = [readerAt EXCEPT ![i] = 0]
    BY <1>3 DEF Snapshot
  <1>5. /\ LastTerm(i) \in Nat /\ base \in Nat /\ Len(log[i]) \in Nat \ {0} /\ log[i] \in Seq(Entry)
        /\ LastIndex(i) = base + Len(log[i]) - 1
    BY LastTermIs, LogFacts DEF Base, TypeOK
  <1>6. /\ L[LastTerm(i)] \in Seq(Entry) /\ Fits(L[LastTerm(i)], base, log[i])
        /\ LastTerm(i) <= currentTerm[i]
    BY <1>5, GhostFacts DEF Inv, LogsFit, LogFits
  <1>7. /\ Fits(L[LastTerm(i)], x, r) /\ Len(r) = Len(log[i]) - (x - base) /\ Len(r) \in Nat \ {0}
        /\ r[Len(r)] = log[i][Len(log[i])] /\ r[1] = log[i][x - base + 1]
    <2>1. base <= x /\ x <= base + Len(log[i]) - 1 /\ Len(log[i]) # 0
      BY <1>4, <1>5
    <2>2. r = SubSeq(log[i], x - base + 1, Len(log[i]))
      OBVIOUS
    <2>3. PICK F, s \in Seq(Entry) : F = L[LastTerm(i)] /\ s = log[i]
      BY <1>5, <1>6
    <2>4. PICK b, j \in Nat : b = base /\ j = x - base + 1
      BY <1>5, <2>1
    <2>5. PICK t : t = r
      OBVIOUS
    <2> HIDE DEF base, r
    <2>6. Fits(F, b, s) /\ Len(s) # 0 /\ b <= x /\ x <= b + Len(s) - 1 /\ j = x - b + 1
      BY <1>5, <1>6, <2>1, <2>3, <2>4
    <2>7. Suffix(t, s, j)
      <3>1. t = SubSeq(s, j, Len(s))
        BY <2>2, <2>3, <2>4, <2>5
      <3>2. 1 <= j /\ j <= Len(s)
        BY <2>6, LenProperties
      <3> QED
        BY <3>1, <3>2, SuffixIs
    <2>8. /\ Fits(F, x, t) /\ Len(t) = Len(s) - (x - b) /\ Len(t) \in Nat \ {0}
          /\ t[Len(t)] = s[Len(s)] /\ t[1] = s[j]
      BY <2>6, <2>7, SuffixOf
    <2> QED
      BY <2>3, <2>4, <2>5, <2>8
  <1>8. /\ log'[i] = r /\ lastIncludedIndex'[i] = x /\ lastIncludedTerm'[i] = TermAt(i, x)
        /\ readerAt'[i] = 0
        /\ \A j \in Server \ {i} : /\ log'[j] = log[j] /\ lastIncludedIndex'[j] = lastIncludedIndex[j]
                                   /\ lastIncludedTerm'[j] = lastIncludedTerm[j]
                                   /\ readerAt'[j] = readerAt[j]
    BY <1>4 DEF Base, TypeOK, LogTypes, ApplyTypes
  <1>9. /\ persister'[i].snapshot = sm[i]
        /\ \A j \in Server \ {i} : persister'[j].snapshot = persister[j].snapshot
    BY <1>2 DEF Persist, Base, TypeOK, DiskTypes
  <1>10. lastIncludedTerm'[i] = log'[i][1].term
    BY <1>7, <1>8 DEF TermAt
  <1> HIDE DEF r, base
  <1>11. LastTerm(i)' = LastTerm(i) /\ LastIndex(i)' = LastIndex(i)
    <2>1. LastTerm(i)' = LastTerm(i)
      BY <1>7, <1>8 DEF LastTerm
    <2>2. LastIndex(i)' = x + Len(r) - 1
      BY <1>8 DEF LastIndex
    <2> QED
      BY <1>5, <1>7, <2>1, <2>2
  <1>12. ASSUME NEW j \in Server
         PROVE  EndKept(j)
    BY <1>8, <1>11 DEF EndKept, LastTerm, LastIndex
  <1>13. LogFits(L, i)'
    BY <1>2, <1>6, <1>7, <1>8, <1>11 DEF LogFits, serverVars
  <1>14. InRange(i) /\ sm[i] \in Seq(Command) /\ Len(sm[i]) \in Nat
    BY LenProperties DEF Inv, Ranges, Base, TypeOK, ApplyTypes
  <1>15. x <= lastApplied[i] /\ Len(sm[i]) > 0 /\ x <= commitIndex[i]
    <2>1. lastApplied[i] \in Nat /\ commitIndex[i] \in Nat
      BY DEF Base, TypeOK, ApplyTypes, CommitTypes
    <2> QED
      BY <1>3, <1>4, <1>5, <1>14, <2>1 DEF InRange
  <1>16. InRange(i)'
    <2>1. lastApplied'[i] \in Nat
      BY DEF TypeOK, ApplyTypes
    <2> QED
      BY <1>2, <1>8, <1>9, <1>10, <1>11, <1>14, <1>15, <2>1
         DEF InRange, serverVars, leaderVars, commitVars
  <1>17. ASSUME NEW j \in Server \ {i}
         PROVE  InRange(j)'
    <2>1. InRange(j) /\ LastIndex(j)' = LastIndex(j)
      BY <1>12 DEF Inv, Ranges, EndKept
    <2> QED
      BY <1>2, <1>8, <1>9, <2>1 DEF InRange, serverVars, leaderVars, commitVars
  <1>18. Ranges'
    BY <1>16, <1>17 DEF Ranges
  <1>19. \A j \in Server : lastIncludedIndex'[j] <= commitIndex'[j] /\ commitIndex'[j] <= commitIndex[j]
    <2> SUFFICES ASSUME NEW j \in Server
                 PROVE  lastIncludedIndex'[j] <= commitIndex'[j] /\ commitIndex'[j] <= commitIndex[j]
      OBVIOUS
    <2>1. commitIndex'[j] = commitIndex[j] /\ commitIndex[j] \in Nat
      BY <1>2 DEF commitVars, Base, TypeOK, CommitTypes
    <2>2. Seal(L, A, j)
      BY DEF Inv, Seals
    <2> QED
      BY <1>8, <1>15, <2>1, <2>2 DEF Seal
  <1>20. \A j \in Server : state'[j] = Leader =>
           \A p \in Server \ {j} : matchIndex'[j][p] <= A[p][currentTerm[j]]
    BY <1>1, <1>2, MatchesStay DEF Inv, leaderVars
  <1>21. \A j \in Server : \/ LogFits(L, j)'
                           \/ log'[j] = log[j] /\ lastIncludedIndex'[j] = lastIncludedIndex[j]
    BY <1>8, <1>13
  <1>22. chosen' = chosen /\ \A m \in rpcs' : m \in rpcs \/ CallFits(L, A, m)'
    BY <1>2 DEF commitVars
  <1> QED
    BY <1>1, <1>12, <1>18, <1>19, <1>20, <1>21, <1>22, StepKeepingEnds

LEMMA LogAtRestart ==
  ASSUME Base, TypeOK', NEW L, NEW A, Inv(L, A), NEW i \in Server, Restart(i)
  PROVE  Inv(L, A)'
  <1>1. Quiet /\ SameRoles /\ \A j \in Server : Kept(j)
    BY QuietActions, QuietRoles, DiskAtRestart DEF Base
  <1> DEFINE disk == persister[i]
             restored == IF Len(disk.snapshot) > 0 THEN disk.lastIncludedIndex ELSE 0
  <1>2. /\ nextIndex' = [nextIndex EXCEPT ![i] = [p \in Server |-> 1]]
        /\ matchIndex' = [matchIndex EXCEPT ![i] = [p \in Server |-> 0]]
        /\ commitIndex' = [commitIndex EXCEPT ![i] = restored]
        /\ lastApplied' = [lastApplied EXCEPT ![i] = restored]
        /\ applier' = [applier EXCEPT ![i] = Idle]
        /\ sm' = [sm EXCEPT ![i] = <<>>]
        /\ readerAt' = [readerAt EXCEPT ![i] = 0]
        /\ state' = [state EXCEPT ![i] = Follower]
        /\ rpcs' = {Orphan(i, m) : m \in {r \in rpcs : r.from = i => r.type \in CallTypes}}
        /\ persister' = persister /\ chosen' = chosen
    BY DEF Restart
  <1>3. disk.lastIncludedIndex = lastIncludedIndex[i]
    <2>1. disk = Persisted(i, disk.snapshot)
      BY DEF Base, DiskIsCurrent
    <2> HIDE DEF disk
    <2> QED
      BY <2>1 DEF Persisted
  <1>4. InRange(i) /\ lastIncludedIndex[i] \in Nat /\ Len(disk.snapshot) \in Nat
    <2>1. disk.snapshot \in Seq(Command)
      BY DEF Base, TypeOK, DiskTypes, Disk
    <2> QED
      BY <2>1, LenProperties DEF Inv, Ranges, Base, TypeOK, LogTypes
  <1>5. restored = lastIncludedIndex[i]
    BY <1>3, <1>4 DEF InRange
  <1> HIDE DEF disk, restored
  <1>6. /\ commitIndex'[i] = lastIncludedIndex[i] /\ lastApplied'[i] = lastIncludedIndex[i]
        /\ applier'[i].index = 0 /\ readerAt'[i] = 0 /\ state'[i] = Follower
        /\ \A p \in Server : nextIndex'[i][p] = 1
        /\ \A j \in Server \ {i} :
             /\ commitIndex'[j] = commitIndex[j] /\ lastApplied'[j] = lastApplied[j]
             /\ applier'[j] = applier[j] /\ readerAt'[j] = readerAt[j] /\ state'[j] = state[j]
             /\ nextIndex'[j] = nextIndex[j] /\ matchIndex'[j] = matchIndex[j] /\ sm'[j] = sm[j]
    BY <1>2, <1>5 DEF Idle, Base, TypeOK, ServerTypes, LeaderTypes, CommitTypes, ApplyTypes
  <1>7. ASSUME NEW j \in Server
        PROVE  /\ log'[j] = log[j] /\ lastIncludedIndex'[j] = lastIncludedIndex[j]
               /\ lastIncludedTerm'[j] = lastIncludedTerm[j]
               /\ EndKept(j) /\ LastIndex(j)' = LastIndex(j)
    BY <1>1 DEF Kept, EndKept, LastTerm, LastIndex
  <1>8. Ranges'
    <2> SUFFICES ASSUME NEW j \in Server PROVE InRange(j)'
      BY DEF Ranges
    <2>1. InRange(j)
      BY DEF Inv, Ranges
    <2>2. CASE j = i
      BY <1>2, <1>4, <1>6, <1>7, <2>1, <2>2 DEF InRange, Leader, Follower
    <2>3. CASE j # i
      BY <1>2, <1>6, <1>7, <2>1, <2>3 DEF InRange
    <2> QED
      BY <2>2, <2>3
  <1>9. \A j \in Server : lastIncludedIndex'[j] <= commitIndex'[j] /\ commitIndex'[j] <= commitIndex[j]
    <2> SUFFICES ASSUME NEW j \in Server
                 PROVE  lastIncludedIndex'[j] <= commitIndex'[j] /\ commitIndex'[j] <= commitIndex[j]
      OBVIOUS
    <2>1. commitIndex[j] \in Nat /\ lastIncludedIndex[j] \in Nat
      BY DEF Base, TypeOK, CommitTypes, LogTypes
    <2>2. Seal(L, A, j)
      BY DEF Inv, Seals
    <2> QED
      BY <1>6, <1>7, <2>1, <2>2 DEF Seal
  <1>10. ASSUME NEW j \in Server, state'[j] = Leader, NEW p \in Server \ {j}
         PROVE  matchIndex'[j][p] <= A[p][currentTerm[j]]
    <2>1. j # i /\ state[j] = Leader
      BY <1>6, <1>10 DEF Leader, Follower
    <2> QED
      BY <1>6, <2>1 DEF Inv, LeadersFit, LeaderFits
  <1>11. LogStep(L, A, A)
    BY <1>1, <1>2, <1>7, AllEndsKept, QuietLogStep DEF Inv
  <1>12. ASSUME NEW m \in rpcs'
         PROVE  m \in rpcs \/ CallFits(L, A, m)'
    <2>1. PICK r \in rpcs : m = Orphan(i, r) /\ (r.from = i => r.type \in CallTypes)
      BY <1>2
    <2>2. CASE r.from = i
      <3>1. CallFits(L, A, r)'
        <4>1. CallFits(L, A, r) /\ r.from \in Server
          BY RpcKinds DEF Inv, CallsFit, Base, TypeOK
        <4>2. state'[r.from] # Candidate
          BY <1>6, <2>2 DEF Follower, Candidate
        <4>3. \A j \in Server, T \in Nat : ElectedBy(j, T) => ElectedBy(j, T)'
          BY <1>11 DEF LogStep, SameElected
        <4> QED
          BY <1>11, <4>1, <4>2, <4>3, CallFitsStays DEF LogStep, Inv, Base
      <3> QED
        BY <2>1, <2>2, <3>1, OrphanFits DEF Base, TypeOK
    <2>3. CASE r.from # i
      BY <2>1, <2>3 DEF Orphan
    <2> QED
      BY <2>2, <2>3
  <1> QED
    BY <1>1, <1>2, <1>7, <1>8, <1>9, <1>10, <1>12, StepKeepingEnds

\* The median of the match indexes is one that half the servers have reached.
LEMMA MedianHalf ==
  ASSUME NEW match \in [Server -> Nat], NEW n \in Nat, Median(match, n)
  PROVE  \E Q \in SUBSET Server : Half(Q) /\ \A q \in Q : match[q] >= n
  <1> DEFINE Q == {q \in Server : match[q] >= n}
             R == {p \in Server : match[p] < n}
  <1>1. IsFiniteSet(Server) /\ Q \subseteq Server /\ R \subseteq Server
    BY ServerAssumption
  <1>2. IsFiniteSet(Q) /\ IsFiniteSet(R)
    BY <1>1, FS_Subset
  <1>3. /\ Cardinality(Q) \in Nat /\ Cardinality(R) \in Nat /\ Cardinality(Server) \in Nat
    BY <1>1, <1>2, FS_CardinalityType
  <1>4. Q \cup R = Server /\ Q \cap R = {}
    <2>1. \A q \in Server : match[q] \in Nat
      OBVIOUS
    <2> QED
      BY <2>1
  <1>5. Cardinality(R) <= Cardinality(Server) \div 2
    BY DEF Median
  <1> HIDE DEF Q, R
  <1>6. Cardinality(Server) = Cardinality(Q) + Cardinality(R) - Cardinality(Q \cap R)
    BY <1>2, <1>4, FS_Union
  <1>7. Cardinality(Q \cap R) = 0
    BY <1>4, FS_EmptySet
  <1>8. 2 * Cardinality(Q) >= Cardinality(Server)
    BY <1>3, <1>5, <1>6, <1>7
  <1>9. Half(Q)
    BY <1>1, <1>8 DEF Half
  <1> QED
    BY <1>1, <1>9 DEF Q

\* What updateCommitIndex adds to the history when it commits up to n.
Adds(i, n) ==
  chosen' = chosen \cup
    {[index |-> x, entry |-> log[i][x - lastIncludedIndex[i] + 1]] :
       x \in {y \in lastIncludedIndex[i] + 1 .. n : y > commitIndex[i]}}
Gains(F, n) == \A c \in chosen' : c \in chosen \/ (c.index \in 1 .. n /\ c.entry = F[c.index])
Reached(i, n) == Median([matchIndex'[i] EXCEPT ![i] = LastIndex(i)], n)

\* What a leader commits is committed in its term.
LEMMA Commits ==
  ASSUME Base, TypeOK', NEW L, NEW A, Inv(L, A), NEW i \in Server, state[i] = Leader,
         NEW T \in Nat, T = currentTerm[i],
         \A p \in Server \ {i} : matchIndex'[i][p] <= A[p][T],
         NEW n \in Nat, n > commitIndex[i], HasIndex(i, n), TermAt(i, n) = T,
         Reached(i, n), Adds(i, n)
  PROVE  /\ Committed(L, A, T, n)' /\ n <= LastIndex(i) /\ n <= Len(L[T])
         /\ Gains(L[T], n)
  <1> DEFINE base == lastIncludedIndex[i]
             c0 == commitIndex[i]
             F == L[T]
  <1>1. /\ Len(F) = LastIndex(i) /\ Fits(F, base, log[i])
        /\ c0 \in Nat /\ base \in Nat /\ c0 <= LastIndex(i) /\ base <= c0
        /\ Sealed(L, A, T, T, c0)
    BY LeaderLog
  <1>2. LastIndex(i) \in Nat /\ Len(log[i]) \in Nat \ {0} /\ LastIndex(i) = base + Len(log[i]) - 1
    BY LastTermIs DEF Base
  <1>3. /\ n > c0 /\ n <= LastIndex(i) /\ n - base + 1 \in 2 .. Len(log[i]) /\ n >= 1
    <2>1. n > c0 /\ n <= LastIndex(i)
      BY <1>1, <1>2 DEF HasIndex
    <2> HIDE DEF base, c0
    <2> QED
      BY <1>1, <1>2, <2>1
  <1>4. ASSUME NEW x \in Nat, x > c0, x <= n
        PROVE  log[i][x - base + 1] = F[x]
    <2>1. x - base + 1 \in 2 .. Len(log[i]) /\ base + (x - base + 1) - 1 = x
      <3>1. PICK b, l, li \in Nat : b = base /\ l = Len(log[i]) /\ li = LastIndex(i)
        BY <1>1, <1>2
      <3>2. li = b + l - 1 /\ x > b /\ x <= li
        <4>1. c0 \in Nat /\ b <= c0 /\ n <= li
          BY <1>1, <1>3, <3>1
        <4> QED
          BY <1>2, <1>4, <3>1, <4>1
      <3>3. x - b + 1 \in 2 .. l /\ b + (x - b + 1) - 1 = x
        BY <3>2
      <3> QED
        BY <3>1, <3>3
    <2>2. log[i][x - base + 1] = F[base + (x - base + 1) - 1]
      BY <1>1, <2>1 DEF Fits
    <2> QED
      BY <2>1, <2>2
  <1>5. OwnEntry(L, T, n)
    <2>1. TermAt(i, n) = F[n].term
      BY <1>3, <1>4 DEF TermAt
    <2>2. n \in 1 .. Len(F)
      BY <1>1, <1>2, <1>3
    <2> QED
      BY <2>1, <2>2 DEF OwnEntry
  <1>6. \E Q \in SUBSET Server : Half(Q) /\ \A q \in Q : A[q][T] >= n
    <2> DEFINE match == [matchIndex'[i] EXCEPT ![i] = LastIndex(i)]
    <2>1. match \in [Server -> Nat]
      BY <1>2 DEF TypeOK, LeaderTypes
    <2>2. \A p \in Server : match[p] <= A[p][T]
      <3>1. matchIndex'[i] \in [Server -> Nat] /\ A[i][T] = LastIndex(i)
        BY DEF TypeOK, LeaderTypes, Inv, LeadersFit, LeaderFits
      <3> QED
        BY <1>2, <3>1
    <2>3. Median(match, n)
      BY DEF Reached
    <2> HIDE DEF match
    <2>4. PICK Q \in SUBSET Server : Half(Q) /\ \A q \in Q : match[q] >= n
      BY <2>1, <2>3, MedianHalf
    <2>5. ASSUME NEW q \in Q
          PROVE  A[q][T] >= n
      <3>1. q \in Server /\ match[q] \in Nat /\ A[q][T] \in Nat
        BY <2>1, GhostFacts DEF Inv
      <3>2. match[q] <= A[q][T] /\ match[q] >= n
        BY <2>2, <2>4, <3>1
      <3> QED
        BY <3>1, <3>2
    <2> QED
      BY <2>4, <2>5
  <1> HIDE DEF base, c0, F
  <1>7. ASSUME NEW y \in 1 .. n
        PROVE  [index |-> y, entry |-> F[y]] \in chosen'
    <2>1. CASE y > c0
      <3>1. y \in {z \in base + 1 .. n : z > c0} /\ y \in Nat /\ y <= n
        BY <1>1, <2>1
      <3>2. log[i][y - base + 1] = F[y]
        BY <1>4, <2>1, <3>1
      <3> QED
        BY <3>1, <3>2 DEF base, c0, Adds
    <2>2. CASE ~(y > c0)
      <3>1. y <= c0 /\ c0 # 0 /\ y \in Nat
        BY <1>1, <2>2
      <3>2. PICK t, k \in Nat : /\ k >= c0 /\ Committed(L, A, t, k) /\ Agree(L[T], L[t], c0)
        BY <1>1, <3>1 DEF Sealed
      <3>3. y \in 1 .. c0 /\ y \in 1 .. k
        BY <1>1, <3>1, <3>2
      <3>4. [index |-> y, entry |-> L[t][y]] \in chosen /\ L[T][y] = L[t][y]
        BY <3>2, <3>3 DEF Committed, Agree
      <3> QED
        BY <3>4 DEF F, Adds
    <2> QED
      BY <2>1, <2>2
  <1>8. Committed(L, A, T, n)'
    BY <1>5, <1>6, <1>7 DEF Committed, OwnEntry, Half, F
  <1>9. ASSUME NEW c \in chosen', c \notin chosen
        PROVE  c.index \in 1 .. n /\ c.entry = L[T][c.index]
    <2>1. PICK x \in {y \in base + 1 .. n : y > c0} :
            c = [index |-> x, entry |-> log[i][x - base + 1]]
      BY <1>9 DEF base, c0, Adds
    <2>2. x \in Nat /\ x > c0 /\ x <= n /\ x \in 1 .. n
      BY <1>1, <2>1
    <2>3. log[i][x - base + 1] = F[x]
      BY <1>4, <2>2
    <2> QED
      BY <2>1, <2>2, <2>3 DEF F
  <1>10. n <= Len(L[T])
    BY <1>1, <1>3 DEF F
  <1> QED
    BY <1>3, <1>8, <1>9, <1>10 DEF Gains

LEMMA LeaderReply ==
  ASSUME Base, TypeOK', NEW L, NEW A, Inv(L, A), Quiet, NEW i \in Server, state[i] = Leader,
         UNCHANGED <<serverVars, logVars, electionVars, applyVars, persister>>, rpcs' \subseteq rpcs,
         \A p \in Server \ {i} : matchIndex'[i][p] <= A[p][currentTerm[i]],
         \A p \in Server : nextIndex'[i][p] >= 1,
         \A p \in Server \ {i} : nextIndex'[i][p] <= LastIndex(i) + 1,
         \A j \in Server \ {i} : matchIndex'[j] = matchIndex[j] /\ nextIndex'[j] = nextIndex[j],
         UpdateCommitIndex(i) \/ UNCHANGED commitVars
  PROVE  Inv(L, A)'
  <1>1. /\ Ghosts(L, A) /\ \A j \in Server : EndKept(j)
        /\ \A j \in Server : Moves(L, j)
        /\ \A j \in Server : LastIndex(j)' = LastIndex(j) /\ LastTerm(j)' = LastTerm(j)
    BY EndStays, AllEndsKept DEF logVars, Inv, EndKept
  <1>2. PICK T \in Nat : T = currentTerm[i]
    BY DEF Base, TypeOK, ServerTypes
  <1>3. \A j \in Server : state'[j] = Leader =>
           \A p \in Server \ {j} : matchIndex'[j][p] <= A[p][currentTerm[j]]
    BY DEF Inv, LeadersFit, LeaderFits, serverVars
  <1>4. ASSUME \A j \in Server : commitIndex'[j] >= commitIndex[j]
        PROVE  Ranges'
    <2> SUFFICES ASSUME NEW j \in Server PROVE InRange(j)'
      BY DEF Ranges
    <2>1. InRange(j) /\ LastIndex(j)' = LastIndex(j)
      BY <1>1 DEF Inv, Ranges
    <2>2. /\ commitIndex[j] \in Nat /\ commitIndex'[j] \in Nat /\ lastApplied[j] \in Nat
          /\ commitIndex'[j] >= commitIndex[j]
      BY <1>4 DEF Base, TypeOK, CommitTypes, ApplyTypes
    <2>3. lastApplied[j] <= commitIndex'[j]
      BY <2>1, <2>2 DEF InRange
    <2>4. CASE j = i
      BY <2>1, <2>3, <2>4 DEF InRange, serverVars, logVars, applyVars
    <2>5. CASE j # i
      BY <2>1, <2>3, <2>5 DEF InRange, serverVars, logVars, applyVars
    <2> QED
      BY <2>4, <2>5
  <1>5. CASE UNCHANGED commitVars
    <2>1. Ranges'
      <3>1. \A j \in Server : commitIndex'[j] >= commitIndex[j]
        BY <1>5 DEF commitVars, Base, TypeOK, CommitTypes
      <3> QED
        BY <1>4, <3>1
    <2> QED
      BY <1>3, <1>5, <2>1, StepInPlace DEF logVars, commitVars
  <1>6. CASE UpdateCommitIndex(i) /\ ~UNCHANGED commitVars
    <2>1. PICK n \in {[matchIndex'[i] EXCEPT ![i] = LastIndex(i)][p] : p \in Server} :
            /\ Reached(i, n) /\ Adds(i, n)
            /\ n > commitIndex[i] /\ HasIndex(i, n) /\ TermAt(i, n) = currentTerm[i]
            /\ commitIndex' = [commitIndex EXCEPT ![i] = n]
      BY <1>6 DEF UpdateCommitIndex, Committable, Reached, Adds
    <2>2. n \in Nat
      BY <2>1, TermAtType DEF Base, TypeOK
    <2>3. /\ Committed(L, A, T, n)' /\ n <= LastIndex(i) /\ n <= Len(L[T])
          /\ Gains(L[T], n)
      <3>1. /\ \A p \in Server \ {i} : matchIndex'[i][p] <= A[p][T]
            /\ TermAt(i, n) = T /\ n \in Nat /\ T \in Nat /\ T = currentTerm[i]
        BY <1>2, <2>1, <2>2
      <3> QED
        BY <2>1, <3>1, Commits
    <2>4. /\ commitIndex'[i] = n /\ n > commitIndex[i] /\ commitIndex[i] \in Nat
          /\ \A j \in Server \ {i} : commitIndex'[j] = commitIndex[j]
      BY <2>1 DEF Base, TypeOK, CommitTypes
    <2>5. LogStep(L, A, A) /\ SameRoles /\ FewerVotes
      BY <1>1, <2>1, QuietLogStep DEF Adds
    <2>6. Grow(L, A, L, A) /\ TypeOK
      BY <2>5 DEF LogStep, Base
    <2>7. LogsFit(L)'
      BY <1>1, <2>6, LogsStay DEF Inv, logVars
    <2>8. Chosens(L, A)'
      <3> SUFFICES ASSUME NEW c \in chosen'
                   PROVE  \E t, k \in Nat : /\ Committed(L, A, t, k)' /\ c.index \in 1 .. k
                                            /\ c.entry = L[t][c.index]
        BY DEF Chosens
      <3>1. CASE c \in chosen
        BY <1>1, <2>6, <3>1, ChosensGrow DEF Inv
      <3>2. CASE c \notin chosen
        BY <2>2, <2>3, <3>2 DEF Gains
      <3> QED
        BY <3>1, <3>2
    <2>9. Seals(L, A)'
      <3> SUFFICES ASSUME NEW j \in Server PROVE Seal(L, A, j)'
        BY DEF Seals
      <3>1. Seal(L, A, j) /\ EndKept(j) /\ lastIncludedIndex'[j] = lastIncludedIndex[j]
            /\ lastIncludedIndex[j] \in Nat
        BY <1>1 DEF Inv, Seals, logVars, Base, TypeOK, LogTypes
      <3>2. CASE j # i
        <4>1. commitIndex'[j] = commitIndex[j] /\ commitIndex[j] \in Nat
          BY <2>4, <3>2 DEF Base, TypeOK, CommitTypes
        <4> QED
          BY <1>1, <2>6, <3>1, <4>1, SealStays DEF Seal
      <3>3. CASE j = i
        <4>1. PICK u \in Nat : u = LastTerm(i) /\ u = LastTerm(i)'
          BY <1>1, LastTermIs DEF Base
        <4>2. Agree(L[u], L[T], n)
          <5>1. Agree(L[u], L[T], LastIndex(i))
            BY <1>2, <4>1 DEF Inv, LeadersFit, LeaderFits, Holds
          <5>2. LastIndex(i) \in Nat
            BY LastTermIs DEF Base
          <5> QED
            BY <2>2, <2>3, <5>1, <5>2 DEF Agree
        <4>3. Sealed(L, A, T, u, n)'
          <5>1. T <= T /\ n >= n
            BY <2>2
          <5> QED
            BY <2>2, <2>3, <4>2, <5>1 DEF Sealed
        <4>4. currentTerm'[i] = T
          BY <1>2 DEF serverVars
        <4>5. lastIncludedIndex'[i] <= n /\ n <= LastIndex(i)'
          BY <1>1, <2>2, <2>3, <2>4, <3>1, <3>3 DEF Seal
        <4> QED
          BY <2>4, <3>3, <4>1, <4>3, <4>4, <4>5 DEF Seal
      <3> QED
        BY <3>2, <3>3
    <2>10. Ranges'
      <3>1. \A j \in Server : commitIndex'[j] >= commitIndex[j]
        BY <2>2, <2>4 DEF Base, TypeOK, CommitTypes
      <3> QED
        BY <1>4, <3>1
    <2>11. CallsFit(L, A)'
      BY <2>5, CallsStay
    <2> QED
      BY <1>3, <2>5, <2>7, <2>8, <2>9, <2>10, <2>11, StepWithoutLeader
  <1> QED
    BY <1>5, <1>6

\* A reply moves what the leader knows of one follower, within its own log.
LEMMA ReplyMoves ==
  ASSUME Base, TypeOK', NEW L, NEW A, Inv(L, A), Quiet, NEW i \in Server, NEW p \in Server,
         p # i, state[i] = Leader, NEW a \in Nat, NEW b \in Nat,
         UNCHANGED <<serverVars, logVars, electionVars, applyVars, persister>>, rpcs' \subseteq rpcs,
         matchIndex' = [matchIndex EXCEPT ![i][p] = a], nextIndex' = [nextIndex EXCEPT ![i][p] = b],
         a <= A[p][currentTerm[i]], b >= 1, b <= LastIndex(i) + 1,
         UpdateCommitIndex(i) \/ UNCHANGED commitVars
  PROVE  Inv(L, A)'
  <1>1. /\ matchIndex \in [Server -> [Server -> Nat]] /\ nextIndex \in [Server -> [Server -> Nat]]
    BY DEF Base, TypeOK, LeaderTypes
  <1>2. /\ matchIndex'[i][p] = a /\ nextIndex'[i][p] = b
        /\ \A q \in Server \ {p} : matchIndex'[i][q] = matchIndex[i][q] /\ nextIndex'[i][q] = nextIndex[i][q]
        /\ \A j \in Server \ {i} : matchIndex'[j] = matchIndex[j] /\ nextIndex'[j] = nextIndex[j]
    BY <1>1
  <1>3. /\ \A q \in Server \ {i} : matchIndex[i][q] <= A[q][currentTerm[i]]
        /\ \A q \in Server : nextIndex[i][q] >= 1
        /\ \A q \in Server \ {i} : nextIndex[i][q] <= LastIndex(i) + 1
    BY DEF Inv, LeadersFit, LeaderFits, Ranges, InRange
  <1>4. \A q \in Server \ {i} : matchIndex'[i][q] <= A[q][currentTerm[i]]
    BY <1>2, <1>3
  <1>5. /\ \A q \in Server : nextIndex'[i][q] >= 1
        /\ \A q \in Server \ {i} : nextIndex'[i][q] <= LastIndex(i) + 1
    BY <1>2, <1>3
  <1> QED
    BY <1>2, <1>4, <1>5, LeaderReply

\* A reply that no longer concerns its caller changes nothing.
LEMMA ReplyDropped ==
  ASSUME Base, TypeOK', NEW L, NEW A, Inv(L, A), Quiet, rpcs' \subseteq rpcs,
         UNCHANGED <<serverVars, logVars, leaderVars, commitVars, electionVars, applyVars, persister>>
  PROVE  Inv(L, A)'
  <1>1. SameRoles
    BY QuietRoles DEF Base
  <1>2. Ranges'
    BY <1>1, RangesStay DEF Inv, logVars, leaderVars, commitVars, applyVars
  <1>3. \A i \in Server : state'[i] = Leader =>
           \A p \in Server \ {i} : matchIndex'[i][p] <= A[p][currentTerm[i]]
    BY <1>1, MatchesStay DEF Inv, leaderVars
  <1> QED
    BY <1>1, <1>2, <1>3, StepInPlace DEF logVars, commitVars

\* What a follower has acknowledged is in the leader's log.
LEMMA AckInLog ==
  ASSUME Base, NEW L, NEW A, Inv(L, A), NEW i \in Server, NEW p \in Server, state[i] = Leader
  PROVE  A[p][currentTerm[i]] \in Nat /\ A[p][currentTerm[i]] <= LastIndex(i) /\ LastIndex(i) \in Nat
  <1>1. PICK T \in Nat : T = currentTerm[i]
    BY DEF Base, TypeOK, ServerTypes
  <1>2. Len(L[T]) = LastIndex(i)
    BY <1>1, LeaderLog
  <1>3. A[p][T] \in Nat /\ A[p][T] <= Len(L[T])
    BY <1>1, GhostFacts DEF Inv, Acks
  <1> QED
    BY <1>1, <1>2, <1>3, LastTermIs DEF Base

LEMMA LogAtAppendReply ==
  ASSUME Base, TypeOK', NEW L, NEW A, Inv(L, A), NEW m \in rpcs, HandleAppendReply(m)
  PROVE  Inv(L, A)'
  <1> DEFINE i == m.from
             p == m.to
  <1>1. /\ i \in Server /\ p \in Server /\ i # p /\ m \in AppendReplies /\ m.type = "AppendReply"
    BY RpcKinds DEF HandleAppendReply, Base, TypeOK
  <1>2. /\ m.callTerm \in Nat /\ m.match \in Nat /\ m.conflictIndex \in Nat
        /\ matchIndex[i][p] \in Nat /\ nextIndex[i][p] \in Nat
    BY <1>1 DEF AppendReplies, Base, TypeOK, LeaderTypes
  <1>3. Quiet /\ rpcs' \subseteq rpcs
        /\ UNCHANGED <<serverVars, logVars, electionVars, applyVars, persister>>
    BY QuietHandlers DEF HandleAppendReply, Received, Base
  <1>4. ASSUME StillLeading(i, m)
        PROVE  /\ state[i] = Leader /\ currentTerm[i] = m.callTerm
               /\ A[p][m.callTerm] \in Nat /\ A[p][m.callTerm] <= LastIndex(i) /\ LastIndex(i) \in Nat
               /\ matchIndex[i][p] <= A[p][m.callTerm]
               /\ nextIndex[i][p] >= 1 /\ nextIndex[i][p] <= LastIndex(i) + 1
    <2>1. state[i] = Leader /\ currentTerm[i] = m.callTerm
      BY <1>4 DEF StillLeading
    <2>2. matchIndex[i][p] <= A[p][currentTerm[i]]
      BY <1>1, <2>1 DEF Inv, LeadersFit, LeaderFits
    <2>3. nextIndex[i][p] >= 1 /\ nextIndex[i][p] <= LastIndex(i) + 1
      BY <1>1, <2>1 DEF Inv, Ranges, InRange
    <2> QED
      BY <1>1, <2>1, <2>2, <2>3, AckInLog
  <1>5. ASSUME StillLeading(i, m), m.success,
               matchIndex' = [matchIndex EXCEPT ![i][p] = IF m.match > @ THEN m.match ELSE @],
               nextIndex' = [nextIndex EXCEPT ![i][p] = IF m.match + 1 > @ THEN m.match + 1 ELSE @],
               UpdateCommitIndex(i)
        PROVE  Inv(L, A)'
    <2>1. A[p][m.callTerm] >= m.match
      BY <1>1, <1>5 DEF Inv, CallsFit, CallFits
    <2>2. PICK a \in Nat : a = IF m.match > matchIndex[i][p] THEN m.match ELSE matchIndex[i][p]
      BY <1>2
    <2>3. PICK b \in Nat : b = IF m.match + 1 > nextIndex[i][p] THEN m.match + 1 ELSE nextIndex[i][p]
      BY <1>2
    <2>4. /\ matchIndex' = [matchIndex EXCEPT ![i][p] = a]
          /\ nextIndex' = [nextIndex EXCEPT ![i][p] = b]
      BY <1>5, <2>2, <2>3
    <2>5. a <= A[p][currentTerm[i]]
      BY <1>2, <1>4, <1>5, <2>1, <2>2
    <2>6. b >= 1 /\ b <= LastIndex(i) + 1
      BY <1>2, <1>4, <1>5, <2>1, <2>3
    <2> QED
      BY <1>1, <1>3, <1>4, <1>5, <2>4, <2>5, <2>6, ReplyMoves
  <1>6. ASSUME StillLeading(i, m),
               nextIndex' = [nextIndex EXCEPT ![i][p] =
                               IF m.conflictIndex > 0 /\ m.conflictIndex < @
                               THEN m.conflictIndex ELSE @],
               UNCHANGED <<matchIndex, commitVars>>
        PROVE  Inv(L, A)'
    <2>1. PICK a \in Nat : a = matchIndex[i][p]
      BY <1>2
    <2>2. PICK b \in Nat : b = IF m.conflictIndex > 0 /\ m.conflictIndex < nextIndex[i][p]
                               THEN m.conflictIndex ELSE nextIndex[i][p]
      BY <1>2
    <2>3. nextIndex' = [nextIndex EXCEPT ![i][p] = b]
      BY <1>6, <2>2
    <2>4. matchIndex' = [matchIndex EXCEPT ![i][p] = a]
      BY <1>1, <1>6, <2>1 DEF Base, TypeOK, LeaderTypes
    <2>5. a <= A[p][currentTerm[i]] /\ b >= 1 /\ b <= LastIndex(i) + 1
      BY <1>2, <1>4, <1>6, <2>1, <2>2
    <2> QED
      BY <1>1, <1>3, <1>4, <1>6, <2>3, <2>4, <2>5, ReplyMoves
  <1>7. ASSUME UNCHANGED <<leaderVars, commitVars>>
        PROVE  Inv(L, A)'
    BY <1>3, <1>7, ReplyDropped
  <1> QED
    BY <1>5, <1>6, <1>7 DEF HandleAppendReply

LEMMA LogAtSnapshotReply ==
  ASSUME Base, TypeOK', NEW L, NEW A, Inv(L, A), NEW m \in rpcs, HandleSnapshotReply(m)
  PROVE  Inv(L, A)'
  <1> DEFINE i == m.from
             p == m.to
             advances == m.match > matchIndex[i][p]
  <1>1. /\ i \in Server /\ p \in Server /\ i # p /\ m \in SnapshotReplies
        /\ m.type = "SnapshotReply" /\ m.term <= currentTerm[i]
    BY RpcKinds DEF HandleSnapshotReply, Base, TypeOK
  <1>2. /\ m.callTerm \in Nat /\ m.match \in Nat
        /\ matchIndex[i][p] \in Nat /\ nextIndex[i][p] \in Nat
    BY <1>1 DEF SnapshotReplies, Base, TypeOK, LeaderTypes
  <1>3. Quiet /\ rpcs' \subseteq rpcs
        /\ UNCHANGED <<serverVars, logVars, electionVars, applyVars, persister>>
    BY QuietHandlers DEF HandleSnapshotReply, Received, Base
  <1>5. CASE StillLeading(i, m)
    <2>0. /\ matchIndex' = [matchIndex EXCEPT ![i][p] = IF advances THEN m.match ELSE @]
          /\ nextIndex' = [nextIndex EXCEPT ![i][p] = IF advances THEN m.match + 1 ELSE @]
          /\ UpdateCommitIndex(i)
      BY <1>5 DEF HandleSnapshotReply
    <2>1. state[i] = Leader /\ currentTerm[i] = m.callTerm
      BY <1>5 DEF StillLeading
    <2>2. A[p][m.callTerm] >= m.match
      BY <1>1, <2>1 DEF Inv, CallsFit, CallFits
    <2>3. matchIndex[i][p] <= A[p][currentTerm[i]]
      BY <1>1, <2>1 DEF Inv, LeadersFit, LeaderFits
    <2>4. nextIndex[i][p] >= 1 /\ nextIndex[i][p] <= LastIndex(i) + 1
      BY <1>1, <2>1 DEF Inv, Ranges, InRange
    <2>5. A[p][m.callTerm] \in Nat /\ A[p][m.callTerm] <= LastIndex(i) /\ LastIndex(i) \in Nat
      BY <1>1, <2>1, AckInLog
    <2>6. PICK a \in Nat : a = IF advances THEN m.match ELSE matchIndex[i][p]
      BY <1>2
    <2>7. PICK b \in Nat : b = IF advances THEN m.match + 1 ELSE nextIndex[i][p]
      BY <1>2
    <2>8. /\ matchIndex' = [matchIndex EXCEPT ![i][p] = a]
          /\ nextIndex' = [nextIndex EXCEPT ![i][p] = b]
      BY <2>0, <2>6, <2>7
    <2>9. a <= A[p][currentTerm[i]]
      BY <1>2, <2>1, <2>2, <2>3, <2>6
    <2>10. b >= 1 /\ b <= LastIndex(i) + 1
      BY <1>2, <2>2, <2>4, <2>5, <2>7
    <2> QED
      BY <1>1, <1>3, <2>0, <2>1, <2>8, <2>9, <2>10, ReplyMoves
  <1>6. CASE ~StillLeading(i, m)
    BY <1>3, <1>6, ReplyDropped DEF HandleSnapshotReply
  <1> QED
    BY <1>5, <1>6

\* A with q's acknowledgement of index e to the leader of term t.
Acked(A, q, t, e) ==
  [p \in Server |-> [u \in Nat |-> IF p = q /\ u = t /\ e > A[p][u] THEN e ELSE A[p][u]]]

\* A follower that hears from the leader of term T is a follower in term T.
LEMMA Following ==
  ASSUME Base, NEW L, NEW A, Inv(L, A), NEW m \in rpcs, ElectedBy(m.from, m.term), ~Stale(m),
         FollowTerm(m.to, m.term)
  PROVE  /\ currentTerm'[m.to] = m.term /\ state'[m.to] = Follower
         /\ currentTerm[m.to] <= m.term
  <1>1. /\ m.to \in Server /\ m.from \in Server /\ m.from # m.to /\ m.term \in Nat
        /\ currentTerm[m.to] \in Nat /\ state[m.to] \in {Follower, Candidate, Leader}
    BY RpcKinds DEF Base, TypeOK, ServerTypes
  <1>2. currentTerm[m.to] <= m.term
    BY <1>1 DEF Stale
  <1>3. ~(state[m.to] = Leader /\ currentTerm[m.to] = m.term)
    <2> SUFFICES ASSUME state[m.to] = Leader, currentTerm[m.to] = m.term PROVE FALSE
      OBVIOUS
    <2>1. ElectedBy(m.to, m.term)
      BY <1>1 DEF Inv, LeadersFit, LeaderFits
    <2> QED
      BY <1>1, <2>1, ElectedOnce
  <1>4. CASE m.term > currentTerm[m.to]
    BY <1>1, <1>2, <1>4 DEF FollowTerm, AdoptTerm, Base, TypeOK, ServerTypes
  <1>5. CASE ~(m.term > currentTerm[m.to])
    BY <1>1, <1>2, <1>3, <1>5 DEF FollowTerm, Base, TypeOK, ServerTypes
  <1> QED
    BY <1>2, <1>4, <1>5

\* What a follower has committed survives what the leader of term T makes of
\* its log, and so does what that leader says it has committed.
LEMMA CommitSurvives ==
  ASSUME Base, TypeOK', NEW L, NEW A, Inv(L, A), NEW i \in Server, NEW T \in Nat, Elected(T),
         currentTerm[i] <= T,
         EndKept(i) \/ \E e \in Nat : CutTo(L, i, T, e)
  PROVE  commitIndex[i] <= LastIndex(i)' /\ Sealed(L, A, T, LastTerm(i)', commitIndex[i])
  <1>1. PICK c, u, v, n, n1, S \in Nat : /\ c = commitIndex[i] /\ u = LastTerm(i) /\ v = LastTerm(i)'
                                 /\ n = LastIndex(i) /\ n1 = LastIndex(i)' /\ S = currentTerm[i]
    BY LastTermIs, NextLog DEF Base, TypeOK, CommitTypes
  <1>2. c <= n /\ Sealed(L, A, S, u, c) /\ S <= T
    BY <1>1 DEF Inv, Seals, Seal
  <1>3. Agree(L[u], L[T], c)
    BY <1>2, SealedIn DEF Inv
  <1>4. CASE EndKept(i)
    <2>1. u = v /\ n = n1
      BY <1>1, <1>4 DEF EndKept
    <2>2. Sealed(L, A, T, u, c)
      <3>1. Len(L[u]) \in Nat /\ Agree(L[u], L[u], c)
        BY <1>3, GhostFacts DEF Agree, Inv
      <3> QED
        BY <1>2, <3>1, SealedMoves
    <2> QED
      BY <1>1, <1>2, <2>1, <2>2
  <1>5. ASSUME NEW e \in Nat, CutTo(L, i, T, e)
        PROVE  c <= n1 /\ Sealed(L, A, T, v, c)
    <2>1. n1 = e /\ Agree(L[v], L[T], e)
      BY <1>1, <1>5 DEF CutTo
    <2>2. c <= e
      BY <1>1, <1>2, <1>3, <1>5 DEF CutTo
    <2>3. Agree(L[v], L[T], c)
      <3>1. Len(L[v]) \in Nat /\ Len(L[T]) \in Nat
        BY GhostFacts DEF Inv
      <3> QED
        BY <2>1, <2>2, <3>1, AgreeLess
    <2>4. Agree(L[v], L[u], c)
      BY <1>3, <2>3, AgreeSym, AgreeTrans
    <2> QED
      BY <1>2, <2>1, <2>2, <2>4, SealedMoves
  <1> QED
    BY <1>1, <1>4, <1>5

\* A follower takes its log from the leader of term T up to index e, and
\* acknowledges it.
LEMMA FollowerStep ==
  ASSUME Base, TypeOK', NEW L, NEW A, Inv(L, A), Quiet, NEW i \in Server, NEW T \in Nat, NEW e \in Nat,
         Elected(T), currentTerm[i] <= T, currentTerm'[i] = T, state'[i] = Follower,
         e <= Len(L[T]), Holds(L, i, T, e)', LogFits(L, i)',
         EndKept(i) \/ CutTo(L, i, T, e),
         NEW x \in Nat, x <= e, Sealed(L, A, T, T, x),
         commitIndex'[i] = commitIndex[i] \/ commitIndex'[i] = x,
         lastIncludedIndex'[i] <= commitIndex'[i],
         \A j \in Server \ {i} : /\ log'[j] = log[j] /\ lastIncludedIndex'[j] = lastIncludedIndex[j]
                                 /\ commitIndex'[j] = commitIndex[j],
         UNCHANGED <<leaderVars, chosen>>, Ranges',
         \A r \in rpcs' : r \in rpcs \/ CallFits(L, Acked(A, i, T, e), r)'
  PROVE  Inv(L, Acked(A, i, T, e))'
  <1> DEFINE A1 == Acked(A, i, T, e)
  <1>0. A1 = Acked(A, i, T, e)
    OBVIOUS
  <1> HIDE DEF A1
  <1>1. /\ Ghosts(L, A) /\ Ghosts(L, A1)
        /\ \A q \in Server, t \in Nat :
              A1[q][t] >= A[q][t] /\ (A1[q][t] # A[q][t] => q = i /\ t = T /\ A1[q][t] = e)
    <2>1. Ghosts(L, A) /\ L \in [Nat -> Seq(Entry)] /\ A \in [Server -> [Nat -> Nat]]
      BY DEF Ghosts, Inv
    <2>2. ASSUME NEW q \in Server, NEW t \in Nat
          PROVE  /\ A1[q][t] \in Nat /\ A1[q][t] >= A[q][t]
                 /\ A1[q][t] # A[q][t] => q = i /\ t = T /\ A1[q][t] = e
      <3>1. A[q][t] \in Nat
        BY <2>1
      <3>2. A1[q][t] = IF q = i /\ t = T /\ e > A[q][t] THEN e ELSE A[q][t]
        BY <1>0 DEF Acked
      <3> QED
        BY <3>1, <3>2
    <2>3. A1 \in [Server -> [Nat -> Nat]]
      BY <1>0, <2>1 DEF Acked
    <2> QED
      BY <2>1, <2>2, <2>3 DEF Ghosts
  <1>2. \A j \in Server \ {i} : EndKept(j)
    BY DEF EndKept, LastTerm, LastIndex
  <1>3. \A j \in Server : Moves(L, j)
    BY <1>2 DEF Moves
  <1>4. LogStep(L, A, A) /\ SameRoles /\ FewerVotes
    BY <1>1, <1>3, QuietLogStep
  <1>5. Grow(L, A, L, A1)
    BY <1>1, <1>4 DEF LogStep, Grow
  <1>6. ASSUME NEW q \in Server, NEW t \in Nat PROVE Acknowledges(L, A, A1, q, t)
    <2> SUFFICES ASSUME A1[q][t] # A[q][t]
                 PROVE  currentTerm'[q] = t /\ A1[q][t] <= Len(L[t]) /\ Holds(L, q, t, A1[q][t])'
      BY DEF Acknowledges
    <2>1. q = i /\ t = T /\ A1[q][t] = e
      BY <1>1
    <2> QED
      BY <2>1
  <1>7. LogStep(L, A, A1)
    BY <1>3, <1>4, <1>5, <1>6 DEF LogStep
  <1>8. \A j \in Server : state'[j] = Leader =>
           \A p \in Server \ {j} : matchIndex'[j][p] <= A1[p][currentTerm[j]]
    <2> SUFFICES ASSUME NEW j \in Server, state'[j] = Leader, NEW p \in Server \ {j}
                 PROVE  matchIndex'[j][p] <= A1[p][currentTerm[j]]
      OBVIOUS
    <2>1. matchIndex'[j][p] <= A[p][currentTerm[j]]
      BY <1>4, MatchesStay DEF Inv, leaderVars
    <2>2. matchIndex'[j][p] \in Nat /\ currentTerm[j] \in Nat
      BY DEF Base, TypeOK, ServerTypes, LeaderTypes
    <2>3. PICK t, y \in Nat : t = currentTerm[j] /\ y = matchIndex'[j][p]
      BY <2>2
    <2>4. A[p][t] \in Nat /\ A1[p][t] \in Nat /\ A1[p][t] >= A[p][t]
      BY <1>1, GhostFacts
    <2> QED
      BY <2>1, <2>3, <2>4
  <1>9. TypeOK
    BY DEF Base
  <1>10. LogsFit(L)'
    <2> SUFFICES ASSUME NEW j \in Server, j # i PROVE LogFits(L, j)'
      BY DEF LogsFit
    <2> QED
      BY <1>1, <1>5, <1>9, LogFitsStays DEF LogsFit, Inv
  <1>11. Chosens(L, A1)'
    BY <1>1, <1>5, ChosensStay DEF Inv
  <1>12. Seals(L, A1)'
    <2> SUFFICES ASSUME NEW j \in Server PROVE Seal(L, A1, j)'
      BY DEF Seals
    <2>1. CASE j # i
      <3>1. Seal(L, A, j) /\ EndKept(j) /\ commitIndex[j] \in Nat
        BY <1>2, <2>1 DEF Inv, Seals, Base, TypeOK, CommitTypes
      <3>2. lastIncludedIndex'[j] <= commitIndex'[j] /\ commitIndex'[j] <= commitIndex[j]
        BY <2>1, <3>1 DEF Seal
      <3> QED
        BY <1>1, <1>5, <1>9, <3>1, <3>2, SealStays
    <2>2. CASE j = i
      <3>1. PICK u, c, n \in Nat : u = LastTerm(i)' /\ c = commitIndex'[i] /\ n = LastIndex(i)'
        BY NextLog DEF TypeOK, CommitTypes
      <3>2. c <= n /\ Sealed(L, A, T, u, c)
        <4>1. CASE commitIndex'[i] = commitIndex[i]
          BY <3>1, <4>1, CommitSurvives
        <4>2. CASE commitIndex'[i] = x
          <5>1. e <= n /\ Agree(L[u], L[T], e)
            BY <3>1 DEF Holds
          <5>2. Agree(L[u], L[T], x)
            <6>1. Len(L[u]) \in Nat /\ Len(L[T]) \in Nat
              BY <1>1, GhostFacts
            <6> QED
              BY <5>1, <6>1, AgreeLess
          <5>3. Sealed(L, A, T, u, x)
            BY <5>2, SealedMoves
          <5> QED
            BY <3>1, <4>2, <5>1, <5>3
        <4> QED
          BY <4>1, <4>2
      <3>3. Sealed(L, A1, T, u, c)'
        BY <1>1, <1>5, <3>2, SealedGrows
      <3> QED
        BY <2>2, <3>1, <3>2, <3>3 DEF Seal
    <2> QED
      BY <2>1, <2>2
  <1>13. CallsFit(L, A1)'
    BY <1>4, <1>7, CallsStay DEF A1
  <1>14. Inv(L, A1)'
    BY <1>4, <1>7, <1>8, <1>10, <1>11, <1>12, <1>13, StepWithoutLeader
  <1> QED
    BY <1>14 DEF A1

LEMMA FitsAgree ==
  ASSUME NEW F, NEW G, NEW base \in Nat, NEW s, Len(s) \in Nat \ {0}, Len(F) \in Nat, Len(G) \in Nat,
         Fits(F, base, s), Agree(G, F, base + Len(s) - 1)
  PROVE  Fits(G, base, s)
  <1> DEFINE n == base + Len(s) - 1
  <1>1. n \in Nat /\ n <= Len(F) /\ n <= Len(G) /\ \A y \in 1 .. n : G[y] = F[y]
    BY DEF Agree
  <1>2. TermOf(F, base) = TermOf(G, base)
    <2>1. base = 0 \/ base \in 1 .. n
      BY <1>1
    <2> QED
      BY <1>1, <2>1 DEF TermOf
  <1>3. ASSUME NEW k \in 2 .. Len(s)
        PROVE  s[k] = G[base + k - 1]
    <2>1. base + k - 1 \in 1 .. n
      OBVIOUS
    <2>2. s[k] = F[base + k - 1]
      BY DEF Fits
    <2> HIDE DEF n
    <2> QED
      BY <1>1, <2>1, <2>2
  <1>4. base + Len(s) - 1 <= Len(G)
    BY <1>1
  <1> QED
    BY <1>2, <1>3, <1>4 DEF Fits

\* The log that AppendEntries writes: what it held up to the first entry that
\* differs, and the leader's entries from there on.
Spliced(r, s, es, c, k, le) ==
  /\ Len(r) = c + (le - k)
  /\ \A y \in 1 .. c + (le - k) : r[y] = IF y <= c THEN s[y] ELSE es[k + (y - c)]
Supplies(F, es, prev, le) == \A j \in 1 .. le : es[j] = F[prev + j]

LEMMA Merged ==
  ASSUME NEW s \in Seq(Entry), NEW entries \in Seq(Entry), NEW c \in Nat, NEW k \in Nat,
         NEW ls \in Nat, ls = Len(s), NEW le \in Nat, le = Len(entries),
         c >= 1, c <= ls, k < le
  PROVE  Spliced(SubSeq(s, 1, c) \o SubSeq(entries, k + 1, le), s, entries, c, k, le)
  <1>1. PICK a : a = SubSeq(s, 1, c)
    OBVIOUS
  <1>2. PICK b : b = SubSeq(entries, k + 1, le)
    OBVIOUS
  <1>3. a \in Seq(Entry) /\ Len(a) = c - 1 + 1 /\ \A y \in 1 .. c - 1 + 1 : a[y] = s[1 + y - 1]
    <2>1. 1 \in Nat /\ 1 <= 1 /\ c <= Len(s) /\ 1 <= c + 1
      OBVIOUS
    <2> QED
      BY <1>1, <2>1, Slice
  <1>4. /\ b \in Seq(Entry) /\ Len(b) = le - (k + 1) + 1
        /\ \A y \in 1 .. le - (k + 1) + 1 : b[y] = entries[(k + 1) + y - 1]
    <2>1. k + 1 \in Nat /\ 1 <= k + 1 /\ le <= Len(entries) /\ k + 1 <= le + 1
      OBVIOUS
    <2> QED
      BY <1>2, <2>1, Slice
  <1>5. PICK r : r = a \o b
    OBVIOUS
  <1>6. Len(r) = Len(a) + Len(b) /\ \A y \in 1 .. Len(a) + Len(b) :
          r[y] = IF y <= Len(a) THEN a[y] ELSE b[y - Len(a)]
    <2>1. a \in Seq(Entry) /\ b \in Seq(Entry)
      BY <1>3, <1>4
    <2>2. /\ Len(a \o b) = Len(a) + Len(b)
          /\ \A y \in 1 .. Len(a) + Len(b) :
               (a \o b)[y] = IF y <= Len(a) THEN a[y] ELSE b[y - Len(a)]
      BY <2>1, ConcatProperties
    <2> QED
      BY <1>5, <2>2
  <1>7. Len(a) = c /\ Len(b) = le - k
    BY <1>3, <1>4
  <1>8. ASSUME NEW y \in 1 .. c + (le - k)
        PROVE  r[y] = IF y <= c THEN s[y] ELSE entries[k + (y - c)]
    <2>1. CASE y <= c
      <3>1. r[y] = a[y]
        BY <1>6, <1>7, <2>1
      <3>2. y \in 1 .. c - 1 + 1 /\ 1 + y - 1 = y
        BY <2>1
      <3> QED
        BY <1>3, <2>1, <3>1, <3>2
    <2>2. CASE ~(y <= c)
      <3>1. r[y] = b[y - c]
        BY <1>6, <1>7, <2>2
      <3>2. y - c \in 1 .. le - (k + 1) + 1 /\ (k + 1) + (y - c) - 1 = k + (y - c)
        BY <2>2
      <3>3. b[y - c] = entries[(k + 1) + (y - c) - 1]
        BY <1>4, <3>2
      <3> QED
        BY <2>2, <3>1, <3>2, <3>3
    <2> QED
      BY <2>1, <2>2
  <1> QED
    <2>1. Spliced(r, s, entries, c, k, le)
      BY <1>6, <1>7, <1>8 DEF Spliced
    <2> QED
      BY <1>1, <1>2, <1>5, <2>1

LEMMA MergeFits ==
  ASSUME NEW F, NEW G, NEW base \in Nat, NEW s, NEW prev \in Nat, NEW k \in Nat, NEW c \in Nat,
         Len(s) \in Nat, NEW le \in Nat, Len(F) \in Nat, prev + le <= Len(F),
         Fits(G, base, s), base <= prev, c = prev + k - base + 1, c <= Len(s), k < le,
         NEW x \in Nat, x = prev + k, Agree(G, F, x), NEW entries, Supplies(F, entries, prev, le),
         NEW r, Spliced(r, s, entries, c, k, le)
  PROVE  Fits(F, base, r) /\ r[Len(r)] = F[prev + le]
  <1>0. /\ Len(r) = c + (le - k)
        /\ \A y \in 1 .. c + (le - k) : r[y] = IF y <= c THEN s[y] ELSE entries[k + (y - c)]
        /\ \A j \in 1 .. le : entries[j] = F[prev + j]
    BY DEF Spliced, Supplies
  <1>1. /\ Len(r) \in Nat /\ base + Len(r) - 1 = prev + le /\ Len(r) \in 2 .. Len(r)
        /\ c >= 1 /\ 1 <= Len(r)
    BY <1>0
  <1>2. ASSUME NEW y \in 2 .. Len(r)
        PROVE  r[y] = F[base + y - 1]
    <2>1. CASE y <= c
      <3>1. r[y] = s[y] /\ y \in 2 .. Len(s)
        <4>1. y \in 1 .. c + (le - k)
          BY <1>0
        <4>2. y \in 2 .. Len(s)
          BY <2>1
        <4> QED
          BY <1>0, <2>1, <4>1, <4>2
      <3>2. s[y] = G[base + y - 1]
        BY <3>1 DEF Fits
      <3>3. base + y - 1 \in 1 .. x
        BY <2>1
      <3> QED
        BY <3>1, <3>2, <3>3 DEF Agree
    <2>2. CASE ~(y <= c)
      <3>1. r[y] = entries[k + (y - c)]
        <4>1. y \in 1 .. c + (le - k)
          BY <1>0
        <4> QED
          BY <1>0, <2>2, <4>1
      <3>2. k + (y - c) \in 1 .. le /\ prev + (k + (y - c)) = base + y - 1
        BY <1>0, <2>2
      <3> QED
        BY <1>0, <3>1, <3>2
    <2> QED
      BY <2>1, <2>2
  <1>3. r[1].term = TermOf(F, base)
    <2>1. r[1] = s[1]
      <3>1. 1 \in 1 .. c + (le - k) /\ 1 <= c
        OBVIOUS
      <3> QED
        BY <1>0, <3>1
    <2>2. base = 0 \/ base \in 1 .. x
      OBVIOUS
    <2>3. TermOf(G, base) = TermOf(F, base)
      BY <2>2 DEF TermOf, Agree
    <2> QED
      BY <2>1, <2>3 DEF Fits
  <1>4. base + Len(r) - 1 <= Len(F)
    BY <1>1
  <1>5. r[Len(r)] = F[prev + le]
    BY <1>1, <1>2
  <1> QED
    BY <1>2, <1>3, <1>4, <1>5 DEF Fits

\* An index at which a log has the term of leader T's log: they agree up to it.
LEMMA MatchAgrees ==
  ASSUME TypeOK, NEW L, NEW A, Ghosts(L, A), Coherent(L), NEW i \in Server, LogFits(L, i),
         NEW T \in Nat, NEW x, HasIndex(i, x), x <= Len(L[T]), TermAt(i, x) = TermOf(L[T], x)
  PROVE  Agree(L[LastTerm(i)], L[T], x)
  <1>1. PICK u \in Nat : u = LastTerm(i)
    BY LastTermIs
  <1>2. x \in Nat /\ x <= Len(L[u]) /\ TermOf(L[u], x) = TermOf(L[T], x)
    BY <1>1, LogReads
  <1>3. Len(L[u]) \in Nat /\ Len(L[T]) \in Nat
    BY GhostFacts
  <1>4. CASE x = 0
    BY <1>1, <1>3, <1>4, AgreeNone
  <1>5. CASE x # 0
    <2>1. x \in 1 .. Len(L[u]) /\ x \in 1 .. Len(L[T]) /\ L[u][x].term = L[T][x].term
      BY <1>2, <1>3, <1>5 DEF TermOf
    <2> QED
      BY <1>1, <2>1, TermsMeet
  <1> QED
    BY <1>4, <1>5

\* What AppendEntries does to the log of a follower whose entry before the
\* call's matches.
Merges(m, k) ==
  log' = [log EXCEPT ![m.to] =
    IF Truncates(m, k)
    THEN SubSeq(log[m.to], 1, m.prevLogIndex + k - lastIncludedIndex[m.to] + 1)
           \o SubSeq(m.entries, k + 1, Len(m.entries))
    ELSE log[m.to]]

LEMMA AcceptFacts ==
  ASSUME NEW m, AcceptAppend(m)
  PROVE  /\ ~Stale(m) /\ Matches(m.to, m) /\ FollowTerm(m.to, m.term)
         /\ UNCHANGED <<lastIncludedIndex, lastIncludedTerm>>
         /\ Return(m, AppendReply(m, currentTerm[m.to], TRUE, 0))
         /\ \E k \in 0 .. Len(m.entries) : \E last :
              /\ Held(m.to, m, k) /\ Merges(m, k)
              /\ last = lastIncludedIndex[m.to] + Len(IF Truncates(m, k)
                   THEN SubSeq(log[m.to], 1, m.prevLogIndex + k - lastIncludedIndex[m.to] + 1)
                          \o SubSeq(m.entries, k + 1, Len(m.entries))
                   ELSE log[m.to]) - 1
              /\ commitIndex' = [commitIndex EXCEPT ![m.to] = FollowCommit(m.to, m.leaderCommit, last)]
              /\ PersistIf(Truncates(m, k) \/ FollowTermPersists(m.to, m.term), m.to)
  BY DEF AcceptAppend, Merges

\* The held entries agree with the leader's.
LEMMA HeldAgrees ==
  ASSUME TypeOK, NEW L, NEW A, Inv(L, A), NEW m \in rpcs, m.type = "AppendCall",
         Matches(m.to, m), NEW k \in 0 .. Len(m.entries), Held(m.to, m, k)
  PROVE  /\ m.prevLogIndex + k <= LastIndex(m.to) /\ lastIncludedIndex[m.to] <= m.prevLogIndex
         /\ Agree(L[LastTerm(m.to)], L[m.term], m.prevLogIndex + k)
  <1> DEFINE i == m.to
             prev == m.prevLogIndex
  <1>1. /\ i \in Server /\ m.term \in Nat /\ prev \in Nat /\ m.entries \in Seq(Entry)
        /\ Len(m.entries) \in Nat
    <2>1. m \in AppendCalls /\ i \in Server /\ m.term \in Nat
      BY RpcKinds DEF TypeOK
    <2> QED
      BY <2>1, LenProperties DEF AppendCalls
  <1>2. /\ prev + Len(m.entries) <= Len(L[m.term]) /\ m.prevLogTerm = TermOf(L[m.term], prev)
        /\ \A j \in 1 .. Len(m.entries) : m.entries[j] = L[m.term][prev + j]
    BY DEF Inv, CallsFit, CallFits, AppendCallFits
  <1>3. /\ Ghosts(L, A) /\ Coherent(L) /\ LogFits(L, i)
        /\ lastIncludedIndex[i] \in Nat /\ LastIndex(i) \in Nat /\ Len(L[m.term]) \in Nat
    BY <1>1, LastTermIs, GhostFacts DEF Inv, LogsFit
  <1>4. HasIndex(i, prev) /\ TermAt(i, prev) = TermOf(L[m.term], prev)
    BY <1>2 DEF Matches
  <1>5. lastIncludedIndex[i] <= prev /\ prev <= LastIndex(i)
    BY <1>4 DEF HasIndex
  <1>6. CASE k = 0
    <2>1. Agree(L[LastTerm(i)], L[m.term], prev)
      BY <1>1, <1>2, <1>3, <1>4, MatchAgrees, SMTT(20)
    <2>2. prev + k = prev
      BY <1>1, <1>6
    <2> QED
      BY <1>5, <2>1, <2>2
  <1>7. CASE k # 0
    <2>1. PICK x \in Nat : x = prev + k
      BY <1>1
    <2>2. k \in 1 .. k /\ k \in 1 .. Len(m.entries) /\ x >= 1
      BY <1>1, <1>7, <2>1
    <2>3. x <= LastIndex(i) /\ TermAt(i, x) = m.entries[k].term
      BY <2>1, <2>2 DEF Held
    <2>4. m.entries[k] = L[m.term][x] /\ x <= Len(L[m.term])
      BY <1>1, <1>2, <1>3, <2>1, <2>2
    <2>5. HasIndex(i, x)
      BY <1>1, <1>3, <1>5, <2>1, <2>3 DEF HasIndex
    <2>6. TermAt(i, x) = TermOf(L[m.term], x)
      BY <2>2, <2>3, <2>4 DEF TermOf
    <2>7. Agree(L[LastTerm(i)], L[m.term], x)
      BY <1>1, <1>3, <2>4, <2>5, <2>6, MatchAgrees
    <2> QED
      BY <1>5, <2>1, <2>3, <2>7
  <1> QED
    BY <1>6, <1>7

\* Nothing to add: the follower's log already reads like the leader's.
LEMMA NothingToAdd ==
  ASSUME Base, TypeOK', NEW L, NEW A, Inv(L, A), NEW i \in Server, NEW T \in Nat, NEW e \in Nat,
         log'[i] = log[i], lastIncludedIndex'[i] = lastIncludedIndex[i],
         currentTerm[i] <= T, currentTerm'[i] = T,
         e <= LastIndex(i), Agree(L[LastTerm(i)], L[T], e)
  PROVE  EndKept(i) /\ Holds(L, i, T, e)' /\ LogFits(L, i)'
  <1>1. EndKept(i)
    BY DEF EndKept, LastTerm, LastIndex
  <1>2. Holds(L, i, T, e)'
    BY <1>1 DEF EndKept, Holds
  <1>3. PICK u \in Nat : u = LastTerm(i) /\ u = LastTerm(i)'
    BY <1>1, LastTermIs DEF EndKept, Base
  <1>4. u <= T
    <2>1. u <= currentTerm[i] /\ currentTerm[i] \in Nat
      BY <1>3 DEF Inv, LogsFit, LogFits, Base, TypeOK, ServerTypes
    <2> QED
      BY <2>1
  <1>5. Fits(L[u], lastIncludedIndex[i], log[i])
    BY <1>3 DEF Inv, LogsFit, LogFits
  <1>6. LogFits(L, i)'
    BY <1>3, <1>4, <1>5 DEF LogFits, Fits
  <1> QED
    BY <1>1, <1>2, <1>6

\* A log that reads like leader T's up to its own end.
LEMMA CutFits ==
  ASSUME TypeOK', NEW L, NEW A, Inv(L, A), NEW i \in Server, NEW T \in Nat, NEW e \in Nat,
         currentTerm'[i] = T, e \in 1 .. Len(L[T]), LastIndex(i)' = e, LastTerm(i)' = L[T][e].term,
         Fits(L[T], lastIncludedIndex[i], log[i])'
  PROVE  Holds(L, i, T, e)' /\ LogFits(L, i)'
  <1>1. PICK v, b \in Nat : v = LastTerm(i)' /\ b = lastIncludedIndex'[i]
    BY NextLog
  <1>2. PICK s : s = log'[i]
    OBVIOUS
  <1>3. Len(s) \in Nat \ {0} /\ e = b + Len(s) - 1
    BY <1>1, <1>2, NextLog
  <1>4. Agree(L[v], L[T], e) /\ v <= T
    BY <1>1, AgreeSym DEF Inv, Coherent
  <1>5. Len(L[v]) \in Nat /\ Len(L[T]) \in Nat
    BY GhostFacts DEF Inv
  <1>6. Fits(L[T], b, s)
    BY <1>1, <1>2 DEF Fits
  <1>7. Fits(L[v], b, s)
    BY <1>3, <1>4, <1>5, <1>6, FitsAgree
  <1>8. Holds(L, i, T, e)'
    BY <1>1, <1>4 DEF Holds
  <1>9. LogFits(L, i)'
    BY <1>1, <1>2, <1>4, <1>7 DEF LogFits, Fits
  <1> QED
    BY <1>8, <1>9

\* An index where the logs differ is past what they share.
LEMMA DifferenceIsPast ==
  ASSUME Base, NEW L, NEW A, Inv(L, A), NEW i \in Server, NEW T \in Nat, NEW x \in Nat,
         lastIncludedIndex[i] < x, x <= Len(L[T]),
         ~(x <= LastIndex(i) /\ TermAt(i, x) = L[T][x].term),
         NEW n \in Nat, n <= LastIndex(i), Agree(L[LastTerm(i)], L[T], n)
  PROVE  n < x
  <1> SUFFICES ASSUME x <= n PROVE FALSE
    OBVIOUS
  <1>1. PICK u \in Nat : u = LastTerm(i)
    BY LastTermIs DEF Base
  <1>2. LastIndex(i) \in Nat /\ lastIncludedIndex[i] \in Nat /\ TypeOK
    BY LastTermIs DEF Base
  <1>3. x <= LastIndex(i) /\ HasIndex(i, x) /\ x # 0
    BY <1>2 DEF HasIndex
  <1>4. TermAt(i, x) = TermOf(L[u], x)
    BY <1>1, <1>2, <1>3, LogReads DEF Inv, LogsFit
  <1>5. L[u][x] = L[T][x]
    BY <1>1, <1>3 DEF Agree
  <1> QED
    BY <1>3, <1>4, <1>5 DEF TermOf

LEMMA MergeCuts ==
  ASSUME Base, TypeOK', NEW L, NEW A, Inv(L, A), NEW m \in rpcs, m.type = "AppendCall",
         ~Stale(m), Matches(m.to, m), NEW k \in 0 .. Len(m.entries), Held(m.to, m, k),
         Truncates(m, k), Merges(m, k), UNCHANGED lastIncludedIndex,
         currentTerm'[m.to] = m.term, state'[m.to] = Follower
  PROVE  /\ CutTo(L, m.to, m.term, m.prevLogIndex + Len(m.entries))
         /\ Holds(L, m.to, m.term, m.prevLogIndex + Len(m.entries))'
         /\ LogFits(L, m.to)' /\ log'[m.to][1] = log[m.to][1]
  <1>1. PICK i \in Server, T, prev \in Nat : i = m.to /\ T = m.term /\ prev = m.prevLogIndex
    <2>1. m \in AppendCalls /\ m.to \in Server /\ m.term \in Nat
      BY RpcKinds DEF Base, TypeOK
    <2> QED
      BY <2>1 DEF AppendCalls
  <1>2. PICK es : es = m.entries
    OBVIOUS
  <1>3. PICK le \in Nat : le = Len(es)
    <2>1. m \in AppendCalls
      BY RpcKinds DEF Base, TypeOK
    <2> QED
      BY <1>2, <2>1, LenProperties DEF AppendCalls
  <1>4. es \in Seq(Entry)
    <2>1. m \in AppendCalls
      BY RpcKinds DEF Base, TypeOK
    <2> QED
      BY <1>2, <2>1 DEF AppendCalls
  <1>5. /\ prev + le <= Len(L[T]) /\ \A j \in 1 .. le : es[j] = L[T][prev + j]
        /\ ElectedBy(m.from, T) /\ m.from \in Server
    BY <1>1, <1>2, <1>3, RpcKinds DEF Inv, CallsFit, CallFits, AppendCallFits, Base, TypeOK
  <1>6. PICK s, u, base, li : /\ s = log[i] /\ u = LastTerm(i) /\ base = lastIncludedIndex[i]
                              /\ li = LastIndex(i)
    OBVIOUS
  <1>7. PICK ls \in Nat : ls = Len(s) /\ ls # 0
    BY <1>6, LastTermIs DEF Base
  <1>8. /\ u \in Nat /\ base \in Nat /\ li \in Nat /\ li = base + ls - 1
    BY <1>6, <1>7, LastTermIs DEF Base
  <1>9. s \in Seq(Entry)
    BY <1>6 DEF Base, TypeOK, LogTypes, Logs
  <1>10. Fits(L[u], base, s)
    BY <1>6 DEF Inv, LogsFit, LogFits
  <1>11. /\ Len(L[u]) \in Nat /\ Len(L[T]) \in Nat
    BY <1>8, GhostFacts DEF Inv
  <1>12. prev + k <= li /\ base <= prev /\ Agree(L[u], L[T], prev + k)
    BY <1>1, <1>6, HeldAgrees DEF Base
  <1>13. k < le /\ k \in Nat
    BY <1>2, <1>3 DEF Truncates
  <1>14. PICK c \in Nat : c = prev + k - base + 1 /\ c >= 1 /\ c <= ls
    BY <1>7, <1>8, <1>12, <1>13
  <1>15. PICK r : r = SubSeq(s, 1, c) \o SubSeq(es, k + 1, le)
    OBVIOUS
  <1>16. Spliced(r, s, es, c, k, le)
    BY <1>3, <1>4, <1>7, <1>9, <1>13, <1>14, <1>15, Merged
  <1>17. Fits(L[T], base, r) /\ r[Len(r)] = L[T][prev + le]
    <2>1. PICK x \in Nat : x = prev + k
      BY <1>13
    <2>2. Agree(L[u], L[T], x) /\ Supplies(L[T], es, prev, le)
      BY <1>5, <1>12, <2>1 DEF Supplies
    <2>3. PICK F, G : F = L[T] /\ G = L[u]
      OBVIOUS
    <2>4. /\ Len(s) \in Nat /\ Len(F) \in Nat /\ prev + le <= Len(F) /\ Fits(G, base, s)
          /\ base <= prev /\ c = prev + k - base + 1 /\ c <= Len(s) /\ k < le
          /\ base \in Nat /\ k \in Nat /\ prev \in Nat /\ c \in Nat /\ le \in Nat
          /\ Agree(G, F, x) /\ Supplies(F, es, prev, le)
      BY <1>5, <1>7, <1>8, <1>10, <1>11, <1>12, <1>13, <1>14, <2>2, <2>3
    <2>5. Fits(F, base, r) /\ r[Len(r)] = F[prev + le]
      BY <1>16, <2>1, <2>4, MergeFits
    <2> QED
      BY <2>3, <2>5
  <1>18. log'[i] = r
    <2>1. log' = [log EXCEPT ![i] = r]
      BY <1>1, <1>2, <1>3, <1>6, <1>14, <1>15 DEF Merges
    <2> QED
      BY <2>1 DEF Base, TypeOK, LogTypes
  <1>19. lastIncludedIndex'[i] = base
    BY <1>6
  <1>20. PICK e \in Nat : e = prev + le
    OBVIOUS
  <1>21. e >= 1 /\ e <= Len(L[T]) /\ base + Len(r) - 1 = e
    BY <1>5, <1>8, <1>13, <1>14, <1>16, <1>20 DEF Spliced
  <1>22. LastIndex(i)' = e
    BY <1>18, <1>19, <1>21 DEF LastIndex
  <1>23. LastTerm(i)' = L[T][e].term
    BY <1>17, <1>18, <1>20 DEF LastTerm
  <1>24. Fits(L[T], lastIncludedIndex[i], log[i])'
    BY <1>17, <1>18, <1>19 DEF Fits
  <1>25. e \in 1 .. Len(L[T])
    BY <1>11, <1>21
  <1>26. Holds(L, i, T, e)' /\ LogFits(L, i)'
    BY <1>1, <1>22, <1>23, <1>24, <1>25, CutFits
  <1>27. ASSUME NEW n \in Nat, n <= LastIndex(i), Agree(L[LastTerm(i)], L[T], n)
         PROVE  n <= e
    <2>1. PICK x \in Nat : x = prev + (k + 1)
      BY <1>13
    <2>2. base < x /\ x <= e
      BY <1>8, <1>12, <1>13, <1>20, <2>1
    <2>3. x <= Len(L[T])
      BY <1>11, <1>20, <1>21, <2>2
    <2>4. es[k + 1] = L[T][x]
      <3>1. k + 1 \in 1 .. le
        BY <1>13
      <3> QED
        BY <1>5, <2>1, <3>1
    <2>5. ~(x <= LastIndex(i) /\ TermAt(i, x) = es[k + 1].term)
      BY <1>1, <1>2, <1>3, <1>13, <2>1 DEF Held
    <2>6. n < x
      BY <1>6, <1>27, <2>2, <2>3, <2>4, <2>5, DifferenceIsPast
    <2> QED
      BY <2>2, <2>6
  <1>28. CutTo(L, i, T, e)
    <2>1. currentTerm[i] <= T
      BY <1>1, LastTermIs DEF Stale, Base
    <2>2. Elected(T)
      BY <1>5 DEF Elected
    <2>3. Agree(L[LastTerm(i)'], L[T], e)
      BY <1>26 DEF Holds
    <2> QED
      BY <1>1, <1>22, <1>27, <2>1, <2>2, <2>3 DEF CutTo
  <1>29. log'[i][1] = log[i][1]
    <2>1. 1 \in 1 .. c + (le - k) /\ 1 <= c
      BY <1>13, <1>14
    <2> QED
      BY <1>6, <1>16, <1>18, <2>1 DEF Spliced
  <1> QED
    BY <1>1, <1>2, <1>3, <1>20, <1>26, <1>28, <1>29

\* What the follower answers.
LEMMA AckFits ==
  ASSUME NEW L, NEW A1, NEW m, NEW term,
         A1[m.to][m.term] >= m.prevLogIndex + Len(m.entries),
         NEW r, r = AppendReply(m, term, TRUE, 0)
  PROVE  CallFits(L, A1, r)'
  BY DEF AppendReply, CallFits

LEMMA Commit ==
  ASSUME NEW i \in Server, NEW lc \in Nat, NEW last \in Nat, commitIndex[i] \in Nat,
         commitIndex[i] <= last, lc <= last
  PROVE  /\ FollowCommit(i, lc, last) \in {commitIndex[i], lc}
         /\ FollowCommit(i, lc, last) >= commitIndex[i]
  BY DEF FollowCommit

\* The log after AppendEntries has accepted a call, in both cases.
LEMMA Accepted ==
  ASSUME Base, TypeOK', NEW L, NEW A, Inv(L, A), NEW m \in rpcs, m.type = "AppendCall",
         AcceptAppend(m),
         NEW i \in Server, i = m.to, NEW T \in Nat, T = m.term, NEW e \in Nat,
         e = m.prevLogIndex + Len(m.entries)
  PROVE  /\ currentTerm[i] <= T /\ currentTerm'[i] = T /\ state'[i] = Follower
         /\ EndKept(i) \/ CutTo(L, i, T, e)
         /\ Holds(L, i, T, e)' /\ LogFits(L, i)' /\ log'[i][1] = log[i][1]
         /\ \A j \in Server \ {i} : log'[j] = log[j]
         /\ UNCHANGED <<lastIncludedIndex, lastIncludedTerm>>
  <1>1. /\ ~Stale(m) /\ Matches(i, m) /\ FollowTerm(i, m.term)
        /\ UNCHANGED <<lastIncludedIndex, lastIncludedTerm>>
    BY AcceptFacts
  <1>2. ElectedBy(m.from, m.term)
    BY DEF Inv, CallsFit, CallFits, AppendCallFits
  <1>3. currentTerm[i] <= T /\ currentTerm'[i] = T /\ state'[i] = Follower
    BY <1>1, <1>2, Following
  <1>4. PICK k \in 0 .. Len(m.entries) : Held(i, m, k) /\ Merges(m, k)
    BY AcceptFacts
  <1>5. \A j \in Server \ {i} : log'[j] = log[j]
    BY <1>4 DEF Merges, Base, TypeOK, LogTypes
  <1>6. CASE Truncates(m, k)
    <2>1. /\ CutTo(L, m.to, m.term, m.prevLogIndex + Len(m.entries))
          /\ Holds(L, m.to, m.term, m.prevLogIndex + Len(m.entries))'
          /\ LogFits(L, m.to)' /\ log'[m.to][1] = log[m.to][1]
      BY <1>1, <1>3, <1>4, <1>6, MergeCuts
    <2> QED
      BY <1>1, <1>3, <1>5, <2>1
  <1>7. CASE ~Truncates(m, k)
    <2>1. /\ log'[i] = log[i] /\ lastIncludedIndex'[i] = lastIncludedIndex[i]
      BY <1>1, <1>4, <1>7 DEF Merges, Base, TypeOK, LogTypes
    <2>2. m.prevLogIndex + k = e
      <3>1. m \in AppendCalls
        BY RpcKinds DEF Base, TypeOK
      <3>2. Len(m.entries) \in Nat
        BY <3>1, LenProperties DEF AppendCalls
      <3>3. k = Len(m.entries)
        BY <1>7, <3>2 DEF Truncates
      <3> QED
        BY <3>3
    <2>3. e <= LastIndex(i) /\ Agree(L[LastTerm(i)], L[T], e)
      BY <1>1, <1>4, <2>2, HeldAgrees DEF Base
    <2>4. EndKept(i) /\ Holds(L, i, T, e)' /\ LogFits(L, i)'
      BY <1>3, <2>1, <2>3, NothingToAdd
    <2> QED
      BY <1>1, <1>3, <1>5, <2>1, <2>4
  <1> QED
    BY <1>6, <1>7

\* commitIndex follows leaderCommit and never goes down.
LEMMA AcceptedCommit ==
  ASSUME Base, TypeOK', NEW L, NEW A, Inv(L, A), NEW m \in rpcs, m.type = "AppendCall",
         AcceptAppend(m),
         NEW i \in Server, i = m.to, NEW T \in Nat, T = m.term, NEW e \in Nat,
         e = m.prevLogIndex + Len(m.entries)
  PROVE  /\ commitIndex'[i] \in {commitIndex[i], m.leaderCommit}
         /\ commitIndex'[i] >= commitIndex[i]
         /\ \A j \in Server \ {i} : commitIndex'[j] = commitIndex[j]
  <1>1. PICK k \in 0 .. Len(m.entries) : \E last :
          /\ Merges(m, k)
          /\ last = lastIncludedIndex[m.to] + Len(IF Truncates(m, k)
               THEN SubSeq(log[m.to], 1, m.prevLogIndex + k - lastIncludedIndex[m.to] + 1)
                      \o SubSeq(m.entries, k + 1, Len(m.entries))
               ELSE log[m.to]) - 1
          /\ commitIndex' = [commitIndex EXCEPT ![m.to] = FollowCommit(m.to, m.leaderCommit, last)]
    BY AcceptFacts
  <1>2. PICK last :
          /\ Merges(m, k)
          /\ last = lastIncludedIndex[m.to] + Len(IF Truncates(m, k)
               THEN SubSeq(log[m.to], 1, m.prevLogIndex + k - lastIncludedIndex[m.to] + 1)
                      \o SubSeq(m.entries, k + 1, Len(m.entries))
               ELSE log[m.to]) - 1
          /\ commitIndex' = [commitIndex EXCEPT ![m.to] = FollowCommit(m.to, m.leaderCommit, last)]
    BY <1>1
  <1>3. /\ currentTerm[i] <= T /\ (EndKept(i) \/ CutTo(L, i, T, e))
        /\ Holds(L, i, T, e)' /\ lastIncludedIndex'[i] = lastIncludedIndex[i]
    BY Accepted
  <1>4. last = LastIndex(i)'
    <2>1. log'[i] = IF Truncates(m, k)
               THEN SubSeq(log[m.to], 1, m.prevLogIndex + k - lastIncludedIndex[m.to] + 1)
                      \o SubSeq(m.entries, k + 1, Len(m.entries))
               ELSE log[m.to]
      BY <1>2 DEF Merges, Base, TypeOK, LogTypes
    <2> QED
      BY <1>2, <1>3, <2>1 DEF LastIndex
  <1>5. /\ m.leaderCommit <= e /\ m.leaderCommit \in Nat /\ ElectedBy(m.from, T) /\ m.from \in Server
    <2>1. m \in AppendCalls /\ m.from \in Server
      BY RpcKinds DEF Base, TypeOK
    <2>2. m.leaderCommit <= e /\ ElectedBy(m.from, T)
      BY DEF Inv, CallsFit, CallFits, AppendCallFits
    <2> QED
      BY <2>1, <2>2 DEF AppendCalls
  <1>6. last \in Nat /\ e <= last
    BY <1>3, <1>4, NextLog DEF Holds
  <1>7. Elected(T)
    BY <1>5 DEF Elected
  <1>8. commitIndex[i] <= last /\ commitIndex[i] \in Nat
    BY <1>3, <1>4, <1>7, CommitSurvives DEF Base, TypeOK, CommitTypes
  <1>9. m.leaderCommit <= last
    BY <1>5, <1>6
  <1>10. /\ FollowCommit(i, m.leaderCommit, last) \in {commitIndex[i], m.leaderCommit}
         /\ FollowCommit(i, m.leaderCommit, last) >= commitIndex[i]
    BY <1>5, <1>6, <1>8, <1>9, Commit
  <1>11. /\ commitIndex'[i] = FollowCommit(i, m.leaderCommit, last)
         /\ \A j \in Server \ {i} : commitIndex'[j] = commitIndex[j]
    BY <1>2 DEF Base, TypeOK, CommitTypes
  <1> QED
    BY <1>10, <1>11

LEMMA LogAtAccept ==
  ASSUME Base, TypeOK', NEW L, NEW A, Inv(L, A), NEW m \in rpcs, AppendEntries(m), AcceptAppend(m)
  PROVE  \E A1 : Inv(L, A1)'
  <1>1. /\ m.type = "AppendCall" /\ UNCHANGED <<leaderVars, chosen, electionVars, applyVars>>
        /\ Quiet
    BY QuietHandlers DEF AppendEntries, Base
  <1>2. m \in AppendCalls /\ m.from \in Server
    BY <1>1, RpcKinds DEF Base, TypeOK
  <1>3. PICK i \in Server, T, e, lc \in Nat : /\ i = m.to /\ T = m.term /\ lc = m.leaderCommit
                                          /\ e = m.prevLogIndex + Len(m.entries)
    <2>1. m.to \in Server /\ m.term \in Nat /\ m.prevLogIndex \in Nat /\ m.leaderCommit \in Nat
          /\ m.entries \in Seq(Entry)
      BY <1>2, RpcKinds DEF AppendCalls, Base, TypeOK
    <2>2. Len(m.entries) \in Nat
      BY <2>1, LenProperties
    <2> QED
      BY <2>1, <2>2
  <1>4. /\ currentTerm[i] <= T /\ currentTerm'[i] = T /\ state'[i] = Follower
        /\ EndKept(i) \/ CutTo(L, i, T, e)
        /\ Holds(L, i, T, e)' /\ LogFits(L, i)' /\ log'[i][1] = log[i][1]
        /\ \A j \in Server \ {i} : log'[j] = log[j]
        /\ UNCHANGED <<lastIncludedIndex, lastIncludedTerm>>
    BY <1>1, <1>3, Accepted
  <1>5. /\ commitIndex'[i] \in {commitIndex[i], lc}
        /\ commitIndex'[i] >= commitIndex[i]
        /\ \A j \in Server \ {i} : commitIndex'[j] = commitIndex[j]
    BY <1>1, <1>3, AcceptedCommit
  <1>6. /\ Elected(T) /\ e <= Len(L[T]) /\ lc <= e /\ Sealed(L, A, T, T, lc)
    BY <1>1, <1>2, <1>3 DEF Inv, CallsFit, CallFits, AppendCallFits, Elected
  <1>7. PICK A1 : A1 = Acked(A, i, T, e)
    OBVIOUS
  <1>8. \A r \in rpcs' : r \in rpcs \/ CallFits(L, A1, r)'
    <2>1. A1[i][T] >= e
      <3>1. A \in [Server -> [Nat -> Nat]]
        BY DEF Inv, Ghosts
      <3>2. A[i][T] \in Nat
        BY <3>1
      <3>3. A1[i][T] = IF e > A[i][T] THEN e ELSE A[i][T]
        BY <1>7 DEF Acked
      <3> QED
        BY <3>2, <3>3
    <2>2. PICK r : r = AppendReply(m, currentTerm[i], TRUE, 0)
      OBVIOUS
    <2>3. CallFits(L, A1, r)'
      BY <1>3, <2>1, <2>2, AckFits
    <2>4. \A q \in rpcs' : q \in rpcs \/ q = r
      <3>1. Return(m, AppendReply(m, currentTerm[m.to], TRUE, 0))
        BY AcceptFacts
      <3>2. Return(m, r)
        BY <1>3, <2>2, <3>1
      <3> QED
        BY <3>2 DEF Return
    <2> QED
      BY <2>3, <2>4
  <1>9. \A j \in Server : persister'[j].snapshot = persister[j].snapshot
    <2>1. PICK called : PersistIf(called, i)
      BY <1>3, AcceptFacts
    <2> QED
      BY <2>1 DEF PersistIf, Persist, Base, TypeOK, DiskTypes
  <1>10. Ranges'
    <2> SUFFICES ASSUME NEW j \in Server PROVE InRange(j)'
      BY DEF Ranges
    <2>1. SameRoles
      BY <1>1, QuietRoles DEF Base
    <2>2. /\ InRange(j) /\ commitIndex[j] \in Nat /\ commitIndex'[j] \in Nat /\ lastApplied[j] \in Nat
      BY DEF Inv, Ranges, Base, TypeOK, CommitTypes, ApplyTypes
    <2>3. CASE j = i
      <3>1. lastApplied[j] <= commitIndex'[j] /\ state'[j] # Leader
        BY <1>4, <1>5, <2>2, <2>3 DEF InRange, Leader, Follower
      <3> QED
        BY <1>1, <1>4, <1>9, <2>2, <2>3, <3>1 DEF InRange, leaderVars, applyVars
    <2>4. CASE j # i
      <3>1. LastIndex(j)' = LastIndex(j) /\ (state'[j] = Leader => state[j] = Leader)
        BY <1>4, <2>1, <2>4 DEF LastIndex, SameRoles, Leader, Follower
      <3> QED
        BY <1>1, <1>4, <1>5, <1>9, <2>2, <2>4, <3>1 DEF InRange, leaderVars, applyVars
    <2> QED
      BY <2>3, <2>4
  <1>11. lastIncludedIndex'[i] <= commitIndex'[i]
    <2>1. lastIncludedIndex[i] <= commitIndex[i] /\ commitIndex'[i] \in Nat /\ commitIndex[i] \in Nat
          /\ lastIncludedIndex[i] \in Nat
      BY DEF Inv, Seals, Seal, Base, TypeOK, CommitTypes, LogTypes
    <2> QED
      BY <1>4, <1>5, <2>1
  <1>12. Inv(L, Acked(A, i, T, e))'
    <2>1. commitIndex'[i] = commitIndex[i] \/ commitIndex'[i] = lc
      BY <1>5
    <2>2. \A r \in rpcs' : r \in rpcs \/ CallFits(L, Acked(A, i, T, e), r)'
      BY <1>7, <1>8
    <2>3. \A j \in Server \ {i} : /\ log'[j] = log[j] /\ lastIncludedIndex'[j] = lastIncludedIndex[j]
                                  /\ commitIndex'[j] = commitIndex[j]
      BY <1>4, <1>5
    <2> QED
      BY <1>1, <1>4, <1>6, <1>10, <1>11, <2>1, <2>2, <2>3, FollowerStep
  <1> QED
    BY <1>12

LEMMA SnapshotCallFacts ==
  ASSUME Base, NEW L, NEW A, Inv(L, A), NEW m \in rpcs, m.type = "SnapshotCall"
  PROVE  /\ m \in SnapshotCalls /\ m.to \in Server /\ m.from \in Server /\ m.term \in Nat
         /\ m.lastIncludedIndex \in Nat /\ m.lastIncludedTerm \in Nat
         /\ ElectedBy(m.from, m.term) /\ Elected(m.term)
         /\ m.lastIncludedIndex \in 1 .. Len(L[m.term])
         /\ m.lastIncludedTerm = L[m.term][m.lastIncludedIndex].term
         /\ Sealed(L, A, m.term, m.term, m.lastIncludedIndex) /\ Len(m.data) > 0
  <1>1. /\ m \in SnapshotCalls /\ m.to \in Server /\ m.from \in Server /\ m.term \in Nat
    BY RpcKinds DEF Base, TypeOK
  <1>2. SnapshotCallFits(L, A, m)
    BY DEF Inv, CallsFit, CallFits
  <1>3. Len(L[m.term]) \in Nat
    BY <1>1, GhostFacts DEF Inv
  <1> QED
    BY <1>1, <1>2, <1>3 DEF SnapshotCalls, SnapshotCallFits, Elected

\* What the follower answers: an acknowledgement, or a later term.
LEMMA SnapshotAckFits ==
  ASSUME NEW L, NEW A1, NEW m, NEW term,
         A1[m.to][m.term] >= m.lastIncludedIndex \/ ~(term <= m.term),
         NEW r, r = SnapshotReply(m, term)
  PROVE  CallFits(L, A1, r)'
  BY DEF SnapshotReply, CallFits

LEMMA LogAtStaleSnapshot ==
  ASSUME Base, TypeOK', NEW L, NEW A, Inv(L, A), NEW m \in rpcs, InstallSnapShot(m), Stale(m),
         IgnoreSnapshot(m)
  PROVE  Inv(L, A)'
  <1>1. Quiet /\ SameRoles
    BY QuietHandlers, QuietRoles DEF Base
  <1>2. /\ m.type = "SnapshotCall" /\ Return(m, SnapshotReply(m, currentTerm[m.to]))
        /\ UNCHANGED <<leaderVars, chosen, electionVars, applier, sm, readerAt>>
        /\ UNCHANGED <<logVars, commitIndex, lastApplied, snapshotPending, persister>>
    BY DEF InstallSnapShot, IgnoreSnapshot
  <1>3. m.to \in Server /\ m.term \in Nat /\ currentTerm[m.to] \in Nat
    BY RpcKinds DEF Base, TypeOK, ServerTypes
  <1>4. ~(currentTerm[m.to] <= m.term)
    BY <1>3 DEF Stale
  <1>5. \A r \in rpcs' : r \in rpcs \/ CallFits(L, A, r)'
    <2>1. PICK t, r : t = currentTerm[m.to] /\ r = SnapshotReply(m, t)
      OBVIOUS
    <2>2. CallFits(L, A, r)'
      BY <1>4, <2>1, SnapshotAckFits
    <2> QED
      BY <1>2, <2>1, <2>2 DEF Return
  <1>6. Ranges'
    BY <1>1, <1>2, RangesStay DEF Inv, logVars, leaderVars
  <1>7. \A j \in Server : state'[j] = Leader =>
           \A p \in Server \ {j} : matchIndex'[j][p] <= A[p][currentTerm[j]]
    BY <1>1, <1>2, MatchesStay DEF Inv, leaderVars
  <1> QED
    BY <1>1, <1>2, <1>5, <1>6, <1>7, StepInPlace DEF logVars

\* The reply of a follower that has acknowledged the snapshot.
LEMMA SnapshotAnswers ==
  ASSUME Base, NEW L, NEW A, Inv(L, A), NEW m \in rpcs, InstallSnapShot(m),
         NEW i \in Server, i = m.to, NEW T \in Nat, T = m.term, NEW x \in Nat,
         x = m.lastIncludedIndex
  PROVE  \A r \in rpcs' : r \in rpcs \/ CallFits(L, Acked(A, i, T, x), r)'
  <1>1. PICK A1 : A1 = Acked(A, i, T, x)
    OBVIOUS
  <1>2. A1[i][T] >= x
    <2>1. A \in [Server -> [Nat -> Nat]]
      BY DEF Inv, Ghosts
    <2>2. A[i][T] \in Nat
      BY <2>1
    <2>3. A1[i][T] = IF x > A[i][T] THEN x ELSE A[i][T]
      BY <1>1 DEF Acked
    <2> QED
      BY <2>2, <2>3
  <1>3. PICK t, r : t = currentTerm[m.to] /\ r = SnapshotReply(m, t)
    OBVIOUS
  <1>4. CallFits(L, A1, r)'
    BY <1>2, <1>3, SnapshotAckFits
  <1>5. \A q \in rpcs' : q \in rpcs \/ q = r
    <2>1. Return(m, SnapshotReply(m, currentTerm[m.to]))
      BY DEF InstallSnapShot
    <2> QED
      BY <1>3, <2>1 DEF Return
  <1> QED
    BY <1>1, <1>4, <1>5

\* A snapshot that brings nothing new is acknowledged all the same: what the
\* follower's own snapshot stands for is committed.
LEMMA LogAtOldSnapshot ==
  ASSUME Base, TypeOK', NEW L, NEW A, Inv(L, A), NEW m \in rpcs, InstallSnapShot(m), ~Stale(m),
         IgnoreSnapshot(m)
  PROVE  \E A1 : Inv(L, A1)'
  <1>1. Quiet /\ SameRoles /\ m.type = "SnapshotCall"
    BY QuietHandlers, QuietRoles DEF Base, InstallSnapShot
  <1>2. /\ UNCHANGED <<leaderVars, chosen, electionVars, applier, sm, readerAt>>
        /\ UNCHANGED <<logVars, commitIndex, lastApplied, snapshotPending>>
        /\ m.lastIncludedIndex <= lastIncludedIndex[m.to]
        /\ FollowTerm(m.to, m.term) /\ PersistIf(FollowTermPersists(m.to, m.term), m.to)
    BY DEF InstallSnapShot, IgnoreSnapshot
  <1>3. PICK i \in Server, T, x \in Nat : i = m.to /\ T = m.term /\ x = m.lastIncludedIndex
    BY <1>1, SnapshotCallFacts
  <1>4. /\ ElectedBy(m.from, m.term) /\ Elected(T) /\ x \in 1 .. Len(L[T])
        /\ Sealed(L, A, T, T, x)
    BY <1>1, <1>3, SnapshotCallFacts
  <1>5. currentTerm'[i] = T /\ state'[i] = Follower /\ currentTerm[i] <= T
    BY <1>2, <1>3, <1>4, Following
  <1>6. PICK u, c, b, n, S \in Nat : /\ u = LastTerm(i) /\ c = commitIndex[i] /\ b = lastIncludedIndex[i]
                                     /\ n = LastIndex(i) /\ S = currentTerm[i]
    BY LastTermIs DEF Base, TypeOK, CommitTypes
  <1>7. b <= c /\ c <= n /\ Sealed(L, A, S, u, c)
    BY <1>6 DEF Inv, Seals, Seal
  <1>8. Agree(L[u], L[T], c)
    BY <1>4, <1>5, <1>6, <1>7, SealedIn DEF Inv
  <1>9. x <= c /\ x <= n
    BY <1>2, <1>3, <1>6, <1>7
  <1>10. Agree(L[u], L[T], x)
    <2>1. Len(L[u]) \in Nat /\ Len(L[T]) \in Nat
      BY GhostFacts DEF Inv
    <2> QED
      BY <1>8, <1>9, <2>1, AgreeLess
  <1>11. EndKept(i) /\ Holds(L, i, T, x)' /\ LogFits(L, i)'
    BY <1>2, <1>5, <1>6, <1>9, <1>10, NothingToAdd DEF logVars
  <1>12. \A r \in rpcs' : r \in rpcs \/ CallFits(L, Acked(A, i, T, x), r)'
    BY <1>3, SnapshotAnswers
  <1>13. \A j \in Server : persister'[j].snapshot = persister[j].snapshot
    BY <1>2, <1>3 DEF PersistIf, Persist, Base, TypeOK, DiskTypes
  <1>14. Ranges'
    BY <1>1, <1>2, <1>13, RangesStay DEF Inv, logVars, leaderVars
  <1>15. lastIncludedIndex'[i] <= commitIndex'[i] /\ commitIndex'[i] = commitIndex[i]
    BY <1>2, <1>6, <1>7 DEF logVars
  <1>16. x <= Len(L[T]) /\ x <= x
    BY <1>4
  <1>17. \A j \in Server \ {i} : /\ log'[j] = log[j] /\ lastIncludedIndex'[j] = lastIncludedIndex[j]
                                 /\ commitIndex'[j] = commitIndex[j]
    BY <1>2 DEF logVars
  <1>18. Inv(L, Acked(A, i, T, x))'
    BY <1>1, <1>2, <1>4, <1>5, <1>11, <1>12, <1>14, <1>15, <1>16, <1>17, FollowerStep
  <1> QED
    BY <1>18

\* The follower's log under an accepted snapshot.
LEMMA SnapshotLog ==
  ASSUME Base, TypeOK', NEW L, NEW A, Inv(L, A), NEW i \in Server, NEW T \in Nat, NEW x \in Nat,
         NEW term, x \in 1 .. Len(L[T]), term = L[T][x].term, Elected(T),
         lastIncludedIndex[i] < x, log'[i] = Retained(i, x, term), lastIncludedIndex'[i] = x,
         currentTerm[i] <= T, currentTerm'[i] = T, state'[i] = Follower
  PROVE  /\ EndKept(i) \/ CutTo(L, i, T, x)
         /\ Holds(L, i, T, x)' /\ LogFits(L, i)' /\ log'[i][1].term = term
  <1>1. PICK s, u, b, n, ls : /\ s = log[i] /\ u = LastTerm(i) /\ b = lastIncludedIndex[i]
                              /\ n = LastIndex(i) /\ ls = Len(log[i])
    OBVIOUS
  <1>2. /\ u \in Nat /\ b \in Nat /\ n \in Nat /\ ls \in Nat \ {0} /\ n = b + ls - 1
    BY <1>1, LastTermIs DEF Base
  <1>3. s \in Seq(Entry) /\ Len(s) = ls
    BY <1>1 DEF Base, TypeOK, LogTypes, Logs
  <1>4. PICK F, G \in Seq(Entry) : F = L[T] /\ G = L[u]
    BY <1>2, GhostFacts DEF Inv
  <1>5. Fits(G, b, s) /\ u <= currentTerm[i]
    BY <1>1, <1>4 DEF Inv, LogsFit, LogFits
  <1>6. CASE x <= LastIndex(i) /\ TermAt(i, x) = term
    <2>0. b < x /\ x <= n
      BY <1>1, <1>6
    <2>1. PICK j \in Nat : j = x - b + 1 /\ 1 <= j /\ j <= ls /\ b <= x /\ x <= b + ls - 1
      <3>1. x - b + 1 \in Nat /\ 1 <= x - b + 1 /\ x - b + 1 <= ls /\ b <= x /\ x <= b + ls - 1
        BY <1>2, <2>0
      <3> QED
        BY <3>1
    <2>2. PICK t : t = SubSeq(s, j, ls)
      OBVIOUS
    <2>3. log'[i] = t
      BY <1>1, <1>6, <2>1, <2>2 DEF Retained
    <2>4. Suffix(t, s, j)
      BY <1>3, <2>1, <2>2, SuffixIs
    <2>5. /\ Fits(G, x, t) /\ Len(t) = ls - (x - b) /\ Len(t) \in Nat \ {0}
          /\ t[Len(t)] = s[ls] /\ t[1] = s[j]
      <3>1. /\ Fits(G, b, s) /\ Len(s) # 0 /\ b <= x /\ x <= b + Len(s) - 1 /\ j = x - b + 1
            /\ s \in Seq(Entry) /\ b \in Nat
        BY <1>2, <1>3, <1>5, <2>1
      <3>2. /\ Fits(G, x, t) /\ Len(t) = Len(s) - (x - b) /\ Len(t) \in Nat \ {0}
            /\ t[Len(t)] = s[Len(s)] /\ t[1] = s[j]
        BY <2>4, <3>1, SuffixOf
      <3> QED
        BY <1>3, <3>2
    <2>6. LastTerm(i)' = u
      BY <1>1, <1>3, <2>3, <2>5 DEF LastTerm
    <2>7. LastIndex(i)' = n
      <3>1. LastIndex(i)' = x + Len(t) - 1
        BY <2>3 DEF LastIndex
      <3> QED
        BY <1>2, <2>5, <3>1
    <2>8. EndKept(i)
      BY <1>1, <2>6, <2>7 DEF EndKept
    <2>9. Agree(L[u], L[T], x)
      <3>1. HasIndex(i, x) /\ x <= Len(L[T]) /\ TermAt(i, x) = TermOf(L[T], x)
        <4>1. HasIndex(i, x)
          BY <1>1, <1>2, <1>6 DEF HasIndex
        <4> QED
          BY <1>6, <4>1 DEF TermOf
      <3> QED
        BY <1>1, <3>1, MatchAgrees DEF Base, Inv, LogsFit
    <2>10. Holds(L, i, T, x)'
      BY <1>1, <1>6, <2>6, <2>7, <2>9 DEF Holds
    <2>11. LogFits(L, i)'
      <3>1. u <= T
        BY <1>2, <1>5, LastTermIs DEF Base
      <3>2. Fits(L[u], x, t)
        BY <1>4, <2>5
      <3> QED
        BY <2>3, <2>6, <3>1, <3>2 DEF LogFits
    <2>12. log'[i][1].term = term
      BY <1>1, <1>6, <2>1, <2>3, <2>5 DEF TermAt
    <2> QED
      BY <2>8, <2>10, <2>11, <2>12
  <1>7. CASE ~(x <= LastIndex(i) /\ TermAt(i, x) = term)
    <2>1. PICK t : t = <<Sentinel(term)>>
      OBVIOUS
    <2>2. log'[i] = t /\ Len(t) = 1 /\ t[1] = Sentinel(term) /\ t[1].term = term
      BY <1>7, <2>1 DEF Retained, Sentinel
    <2>3. LastIndex(i)' = x /\ LastTerm(i)' = L[T][x].term
      BY <2>2 DEF LastIndex, LastTerm
    <2>4. Fits(L[T], x, t)
      <3>1. x + Len(t) - 1 <= Len(L[T]) /\ t[1].term = TermOf(L[T], x)
        BY <2>2 DEF TermOf
      <3>2. \A k \in 2 .. Len(t) : FALSE
        BY <2>2
      <3> QED
        BY <3>1, <3>2 DEF Fits
    <2>5. Fits(L[T], lastIncludedIndex[i], log[i])'
      BY <2>2, <2>4 DEF Fits
    <2>6. Holds(L, i, T, x)' /\ LogFits(L, i)'
      BY <2>3, <2>5, CutFits
    <2>7. ASSUME NEW k \in Nat, k <= LastIndex(i), Agree(L[LastTerm(i)], L[T], k)
          PROVE  k <= x
      <3>1. x <= Len(L[T])
        OBVIOUS
      <3>2. k < x
        BY <1>7, <2>7, <3>1, DifferenceIsPast
      <3> QED
        BY <3>2
    <2>8. CutTo(L, i, T, x)
      BY <2>3, <2>6, <2>7 DEF CutTo, Holds
    <2> QED
      BY <2>2, <2>6, <2>8
  <1> QED
    BY <1>6, <1>7

LEMMA LogAtNewSnapshot ==
  ASSUME Base, TypeOK', NEW L, NEW A, Inv(L, A), NEW m \in rpcs, InstallSnapShot(m),
         AcceptSnapshot(m)
  PROVE  \E A1 : Inv(L, A1)'
  <1>1. Quiet /\ SameRoles /\ m.type = "SnapshotCall"
        /\ UNCHANGED <<leaderVars, chosen, electionVars, applier, sm, readerAt>>
    BY QuietHandlers, QuietRoles DEF Base, InstallSnapShot
  <1>2. PICK i \in Server, T, x \in Nat : i = m.to /\ T = m.term /\ x = m.lastIncludedIndex
    BY <1>1, SnapshotCallFacts
  <1>3. PICK term : term = m.lastIncludedTerm
    OBVIOUS
  <1>4. /\ ~Stale(m) /\ x > lastIncludedIndex[i] /\ FollowTerm(m.to, m.term)
        /\ log' = [log EXCEPT ![i] = Retained(i, x, term)]
        /\ lastIncludedIndex' = [lastIncludedIndex EXCEPT ![i] = x]
        /\ lastIncludedTerm' = [lastIncludedTerm EXCEPT ![i] = term]
        /\ commitIndex' = Raised(commitIndex, i, x)
        /\ lastApplied' = Raised(lastApplied, i, x)
        /\ Persist(i, m.data)
    BY <1>2, <1>3 DEF AcceptSnapshot
  <1>5. /\ ElectedBy(m.from, m.term) /\ Elected(T) /\ x \in 1 .. Len(L[T])
        /\ Sealed(L, A, T, T, x) /\ term = L[T][x].term /\ Len(m.data) > 0
    BY <1>1, <1>2, <1>3, SnapshotCallFacts
  <1>6. currentTerm'[i] = T /\ state'[i] = Follower /\ currentTerm[i] <= T
    BY <1>2, <1>4, <1>5, Following
  <1>7. /\ log'[i] = Retained(i, x, term) /\ lastIncludedIndex'[i] = x /\ lastIncludedTerm'[i] = term
        /\ \A j \in Server \ {i} : /\ log'[j] = log[j] /\ lastIncludedIndex'[j] = lastIncludedIndex[j]
                                   /\ lastIncludedTerm'[j] = lastIncludedTerm[j]
    BY <1>4 DEF Base, TypeOK, LogTypes
  <1>8. /\ commitIndex[i] \in Nat /\ lastApplied[i] \in Nat /\ lastIncludedIndex[i] \in Nat
        /\ commitIndex'[i] = (IF commitIndex[i] < x THEN x ELSE commitIndex[i])
        /\ lastApplied'[i] = (IF lastApplied[i] < x THEN x ELSE lastApplied[i])
        /\ \A j \in Server \ {i} : /\ commitIndex'[j] = commitIndex[j]
                                   /\ lastApplied'[j] = lastApplied[j]
    BY <1>4 DEF Raised, Base, TypeOK, LogTypes, CommitTypes, ApplyTypes
  <1>9. /\ persister'[i].snapshot = m.data
        /\ \A j \in Server \ {i} : persister'[j].snapshot = persister[j].snapshot
    BY <1>4 DEF Persist, Base, TypeOK, DiskTypes
  <1>10. lastIncludedIndex[i] < x
    BY <1>4, <1>8
  <1>11. /\ EndKept(i) \/ CutTo(L, i, T, x)
         /\ Holds(L, i, T, x)' /\ LogFits(L, i)' /\ log'[i][1].term = term
    BY <1>5, <1>6, <1>7, <1>10, SnapshotLog
  <1>12. Ranges'
    <2> SUFFICES ASSUME NEW j \in Server PROVE InRange(j)'
      BY DEF Ranges
    <2>1. InRange(j)
      BY DEF Inv, Ranges
    <2>2. CASE j = i
      <3>1. /\ x <= lastApplied'[i] /\ lastApplied'[i] <= commitIndex'[i]
            /\ lastApplied[i] <= lastApplied'[i]
        BY <1>8, <2>1, <2>2 DEF InRange
      <3>2. readerAt[i] \in Nat /\ applier[i].index \in Nat /\ lastApplied'[i] \in Nat
        BY DEF Base, TypeOK, ApplyTypes, Messages
      <3>3. readerAt'[i] <= lastApplied'[i] /\ applier'[i].index <= lastApplied'[i]
        BY <1>1, <1>8, <2>1, <2>2, <3>1, <3>2 DEF InRange
      <3>4. state'[i] # Leader
        BY <1>6 DEF Leader, Follower
      <3> QED
        BY <1>1, <1>5, <1>7, <1>9, <1>11, <2>1, <2>2, <3>1, <3>3, <3>4 DEF InRange, leaderVars
    <2>3. CASE j # i
      <3>1. LastIndex(j)' = LastIndex(j) /\ (state'[j] = Leader => state[j] = Leader)
        BY <1>1, <1>7, <2>3 DEF LastIndex, SameRoles, Leader, Follower
      <3> QED
        BY <1>1, <1>7, <1>8, <1>9, <2>1, <2>3, <3>1 DEF InRange, leaderVars
    <2> QED
      BY <2>2, <2>3
  <1>13. \A r \in rpcs' : r \in rpcs \/ CallFits(L, Acked(A, i, T, x), r)'
    BY <1>2, SnapshotAnswers
  <1>14. /\ lastIncludedIndex'[i] <= commitIndex'[i]
         /\ commitIndex'[i] = commitIndex[i] \/ commitIndex'[i] = x
    BY <1>7, <1>8
  <1>15. x <= Len(L[T]) /\ x <= x
    BY <1>5
  <1>16. \A j \in Server \ {i} : /\ log'[j] = log[j] /\ lastIncludedIndex'[j] = lastIncludedIndex[j]
                                 /\ commitIndex'[j] = commitIndex[j]
    BY <1>7, <1>8
  <1>17. Inv(L, Acked(A, i, T, x))'
    BY <1>1, <1>5, <1>6, <1>11, <1>12, <1>13, <1>14, <1>15, <1>16, FollowerStep
  <1> QED
    BY <1>17

LEMMA LogAtInstallSnapShot ==
  ASSUME Base, TypeOK', NEW L, NEW A, Inv(L, A), NEW m \in rpcs, InstallSnapShot(m)
  PROVE  \E A1 : Inv(L, A1)'
  <1>1. CASE AcceptSnapshot(m)
    BY <1>1, LogAtNewSnapshot
  <1>2. CASE IgnoreSnapshot(m) /\ Stale(m)
    BY <1>2, LogAtStaleSnapshot
  <1>3. CASE IgnoreSnapshot(m) /\ ~Stale(m)
    BY <1>3, LogAtOldSnapshot
  <1> QED
    BY <1>1, <1>2, <1>3 DEF InstallSnapShot

-----------------------------------------------------------------------------
(* Elections until one is won.                                             *)

PollKeeps == UNCHANGED <<logVars, commitVars, applyVars>>

LEMMA PollLogStep ==
  ASSUME TypeOK, NEW L, NEW A, Ghosts(L, A), PollKeeps, SameElected,
         \A q \in Server : currentTerm'[q] >= currentTerm[q]
  PROVE  LogStep(L, A, A) /\ \A i \in Server : EndKept(i)
  <1>1. \A i \in Server : EndKept(i)
    BY EndStays DEF PollKeeps, logVars
  <1>2. ASSUME NEW T \in Nat
        PROVE  Agree(L[T], L[T], Len(L[T]))
    BY GhostFacts DEF Agree
  <1>3. \A q \in Server, t \in Nat : A[q][t] >= A[q][t]
    BY GhostFacts
  <1>4. chosen \subseteq chosen'
    BY DEF PollKeeps, commitVars
  <1>5. Grow(L, A, L, A)
    BY <1>2, <1>3, <1>4 DEF Grow
  <1>6. \A q \in Server, t \in Nat : Acknowledges(L, A, A, q, t)
    BY DEF Acknowledges
  <1> QED
    BY <1>1, <1>5, <1>6, AllEndsKept DEF LogStep

\* The parts that a step of an election leaves as they are.
LEMMA PollStep ==
  ASSUME Base, TypeOK', NEW L, NEW A, Inv(L, A), PollKeeps, UNCHANGED leaderVars,
         LogStep(L, A, A), LeadersStand, \A i, q \in Server : Ballot(L, A, i, q)',
         CandidatesFit', CallsFit(L, A)',
         \A j \in Server : persister'[j].snapshot = persister[j].snapshot
  PROVE  Inv(L, A)'
  <1>1. Ghosts(L, A) /\ Grow(L, A, L, A) /\ TypeOK
    BY DEF Inv, LogStep, Base
  <1>2. Coherent(L)'
    BY <1>1, CoherentStays DEF LogStep, Inv
  <1>3. Acks(L, A)' /\ AckKeeps(L, A)' /\ Beyond(L, A)'
    BY <1>1, AcksStep, AckKeepsStep, BeyondStep DEF Inv
  <1>4. \A i \in Server : state'[i] = Leader =>
           \A p \in Server \ {i} : matchIndex'[i][p] <= A[p][currentTerm[i]]
    BY MatchesStand DEF Inv, leaderVars
  <1>5. LeadersFit(L, A)'
    BY <1>1, <1>4, LeadersStep DEF Inv
  <1>6. LogsFit(L)' /\ Seals(L, A)' /\ Chosens(L, A)'
    BY <1>1, LogsStay, SealsStay, ChosensStay DEF Inv, PollKeeps, logVars, commitVars
  <1>7. Ranges'
    BY RangesStand DEF Inv, PollKeeps, logVars, commitVars, applyVars, leaderVars
  <1>8. Ballots(L, A)'
    BY DEF Ballots, Ballot
  <1> QED
    BY <1>1, <1>2, <1>3, <1>5, <1>6, <1>7, <1>8 DEF Inv, Ghosts

LEMMA LogAtTimeout ==
  ASSUME Base, TypeOK', NEW L, NEW A, Inv(L, A), NEW i \in Server, Timeout(i)
  PROVE  Inv(L, A)'
  <1>1. /\ PollKeeps /\ UNCHANGED leaderVars /\ tally' = tally /\ rpcs' = rpcs
        /\ Persist(i, persister[i].snapshot) /\ state[i] # Leader
        /\ currentTerm' = [currentTerm EXCEPT ![i] = @ + 1]
        /\ state' = [state EXCEPT ![i] = Candidate]
    BY DEF Timeout, PollKeeps
  <1>2. /\ \A q \in Server : currentTerm[q] \in Nat /\ currentTerm'[q] >= currentTerm[q]
        /\ currentTerm'[i] = currentTerm[i] + 1 /\ state'[i] = Candidate
        /\ \A q \in Server \ {i} : currentTerm'[q] = currentTerm[q] /\ state'[q] = state[q]
    BY <1>1 DEF Base, TypeOK, ServerTypes
  <1>3. /\ SameElected /\ LogStep(L, A, A) /\ \A j \in Server : EndKept(j)
    BY <1>1, <1>2, SameTallies, PollLogStep DEF Inv, Base
  <1>4. LeadersStand
    BY <1>2 DEF LeadersStand, Candidate, Leader
  <1>5. ASSUME NEW j \in Server, NEW q \in Server
        PROVE  Ballot(L, A, j, q)'
    <2>1. CASE j # i
      <3>1. currentTerm'[j] \in TermsVoted(q, j)' => currentTerm'[j] \in TermsVoted(q, j)
        BY <2>1, TimeoutAsks DEF Base
      <3> QED
        BY <1>2, <1>3, <2>1, <3>1, BallotStays DEF Inv
    <2>2. CASE j = i
      <3> SUFFICES ASSUME currentTerm'[i] \in TermsVoted(q, i)', NEW t \in Nat, NEW n \in Nat,
                          t < currentTerm'[i], n <= A[q][t], Choosable(L, A, t, n)'
                   PROVE  Holds(L, i, t, n)'
        BY <2>2 DEF Ballot
      <3>1. currentTerm'[i] \notin TermsVoted(q, i)
        BY <1>2 DEF Base, AskedInv, TermsReached
      <3>2. q = i
        BY <3>1, TimeoutAsks DEF Base
      <3>3. n <= Len(L[t])
        BY GhostFacts DEF Choosable, OwnEntry, Inv
      <3>4. Choosable(L, A, t, n)
        BY <1>3, <3>3, ChoosableBack DEF LogStep, Base, Inv
      <3>5. Holds(L, i, t, n)
        BY <3>2, <3>4 DEF Inv, AckKeeps
      <3> QED
        BY <1>3, <3>5 DEF Holds, EndKept
    <2> QED
      BY <2>1, <2>2
  <1>6. CandidatesFit'
    <2> SUFFICES ASSUME NEW j \in Server, state'[j] = Candidate
                 PROVE  ~ElectedBy(j, currentTerm[j])'
      BY DEF CandidatesFit
    <2>1. CASE j # i
      <3>1. ~ElectedBy(j, currentTerm[j])
        BY <1>2, <2>1 DEF Inv, CandidatesFit
      <3> QED
        BY <1>1, <1>2, <2>1, <3>1 DEF ElectedBy, Majority
    <2>2. CASE j = i
      <3>1. ASSUME NEW e \in 1 .. MaxTerm, tally[i][e].term = currentTerm'[i],
                   tally[i][e].votes # {}
            PROVE  FALSE
        BY <1>2, <3>1, TallyReached DEF Base, AskedInv
      <3> QED
        BY <1>1, <2>2, <3>1 DEF ElectedBy
    <2> QED
      BY <2>1, <2>2
  <1>7. CallsFit(L, A)'
    <2> SUFFICES ASSUME NEW m \in rpcs PROVE CallFits(L, A, m)'
      BY <1>1 DEF CallsFit
    <2>1. CallFits(L, A, m) /\ m.from \in Server /\ m.term \in Nat
      BY RpcKinds DEF Inv, CallsFit, Base, TypeOK
    <2>2. ASSUME m.type = "VoteCall", state'[m.from] = Candidate, currentTerm'[m.from] = m.term
          PROVE  state[m.from] = Candidate /\ currentTerm[m.from] = m.term /\ EndKept(m.from)
      <3>1. m.term <= currentTerm[m.from]
        BY <2>2 DEF Base, AskedInv, VotesAsked
      <3> QED
        BY <1>2, <1>3, <2>1, <2>2, <3>1
    <2>3. \A j \in Server, T \in Nat : ElectedBy(j, T) => ElectedBy(j, T)'
      BY <1>3 DEF SameElected
    <2> QED
      BY <1>3, <2>1, <2>2, <2>3, CallFitsStays DEF LogStep, Inv, Base
  <1>8. \A j \in Server : persister'[j].snapshot = persister[j].snapshot
    BY <1>1, SameSnapshots DEF Base, TypeOK
  <1> QED
    BY <1>1, <1>3, <1>4, <1>5, <1>6, <1>7, <1>8, PollStep

LEMMA LogAtCallElection ==
  ASSUME Base, TypeOK', NEW L, NEW A, Inv(L, A), NEW i \in Server, NEW e \in electionCalls[i],
         CallElection(i, e)
  PROVE  Inv(L, A)'
  <1>1. /\ PollKeeps /\ UNCHANGED <<leaderVars, persister, state, currentTerm>>
        /\ SendCalls({VoteCall(i, p, e) : p \in Reachable(i)})
    BY DEF CallElection, PollKeeps, serverVars
  <1>2. /\ e \in 1 .. MaxTerm /\ tally'[i][e].votes = {} /\ tally[i][e].votes = {}
        /\ \A f \in 1 .. MaxTerm \ {e} : tally'[i][f] = tally[i][f]
        /\ \A j \in Server \ {i} : tally'[j] = tally[j]
        /\ FewerVotes
    BY CallElectionFacts DEF Base, FewerVotes
  <1>3. SameElected
    <2> SUFFICES ASSUME NEW j \in Server, NEW T \in Nat
                 PROVE  ElectedBy(j, T)' <=> ElectedBy(j, T)
      BY DEF SameElected
    <2>1. CASE j # i
      BY <1>2, <2>1 DEF ElectedBy, Majority
    <2>2. CASE j = i
      BY <1>2, <2>2 DEF ElectedBy, Majority
    <2> QED
      BY <2>1, <2>2
  <1>4. /\ SameRoles /\ LeadersStand /\ LogStep(L, A, A) /\ \A j \in Server : EndKept(j)
    <2>1. \A q \in Server : currentTerm'[q] >= currentTerm[q]
      BY <1>1 DEF Base, TypeOK, ServerTypes
    <2> QED
      BY <1>1, <1>3, <2>1, PollLogStep DEF SameRoles, LeadersStand, Inv, Base
  <1>5. \A j, q \in Server : Ballot(L, A, j, q)'
    BY <1>1, <1>2, <1>4, BallotStays DEF Inv, FewerVotes
  <1>6. CandidatesFit'
    BY <1>3, <1>4, CandidatesStep DEF Inv, Base
  <1>7. ASSUME NEW m \in rpcs', m \notin rpcs
        PROVE  CallFits(L, A, m)'
    <2>1. PICK p \in Server : m = VoteCall(i, p, e)
      BY <1>1, <1>7 DEF SendCalls, Reachable
    <2>2. /\ m.type = "VoteCall" /\ m.from = i
          /\ m.lastLogIndex = LastIndex(i) /\ m.lastLogTerm = TermAt(i, LastIndex(i))
      BY <2>1 DEF VoteCall
    <2>3. m.lastLogTerm = LastTerm(i)
      BY <2>2, LastTermIs DEF Base
    <2>4. VoteCallFits(m)'
      BY <1>4, <2>2, <2>3 DEF VoteCallFits, EndKept
    <2> QED
      BY <2>2, <2>4 DEF CallFits
  <1>8. CallsFit(L, A)'
    BY <1>4, <1>7, CallsStay
  <1> QED
    BY <1>1, <1>4, <1>5, <1>6, <1>8, PollStep

\* A voter gives its vote to a candidate that holds what the voter has
\* acknowledged and may be committed.
LEMMA VoteCarries ==
  ASSUME Base, NEW L, NEW A, Inv(L, A), NEW j \in Server, NEW v \in Server,
         \/ LastTerm(j) > LastTerm(v)
         \/ LastTerm(j) = LastTerm(v) /\ LastIndex(j) >= LastIndex(v),
         NEW t \in Nat, NEW n \in Nat, n <= A[v][t], Choosable(L, A, t, n)
  PROVE  Holds(L, j, t, n)
  <1> DEFINE F == L[LastTerm(v)]
             G == L[LastTerm(j)]
             H == L[t]
  <1>1. /\ LastTerm(j) \in Nat /\ LastTerm(v) \in Nat
        /\ LastIndex(j) \in Nat /\ LastIndex(v) \in Nat
    BY LastTermIs DEF Base
  <1>2. Len(F) \in Nat /\ Len(G) \in Nat /\ Len(H) \in Nat
    BY <1>1, GhostFacts DEF Inv
  <1>3. Holds(L, v, t, n)
    BY DEF Inv, AckKeeps
  <1>4. n <= LastIndex(v) /\ n <= Len(F) /\ n <= Len(H) /\ \A y \in 1 .. n : F[y] = H[y]
    BY <1>3 DEF Holds, Agree
  <1>5. n \in 1 .. Len(H) /\ H[n].term = t
    BY DEF Choosable, OwnEntry
  <1>6. CASE LastTerm(j) = LastTerm(v) /\ LastIndex(j) >= LastIndex(v)
    <2>1. n <= LastIndex(j)
      BY <1>1, <1>4, <1>6
    <2> QED
      BY <1>3, <1>6, <2>1 DEF Holds
  <1>7. CASE LastTerm(j) > LastTerm(v)
    <2>1. n \in 1 .. Len(F) /\ F[n].term = t
      <3>1. n \in 1 .. n /\ n \in 1 .. Len(F)
        BY <1>2, <1>4, <1>5
      <3> QED
        BY <1>4, <1>5, <3>1
    <2>2. t <= LastTerm(v)
      BY <1>1, <2>1 DEF Inv, Coherent
    <2>3. t < LastTerm(j)
      BY <1>1, <1>7, <2>2
    <2>4. /\ LastIndex(j) <= Len(G) /\ LastIndex(j) > 0
          /\ G[LastIndex(j)].term = LastTerm(j) /\ Elected(LastTerm(j))
      BY <1>1, <2>3, LastEntry DEF Inv, LogsFit, Base
    <2>5. Agree(G, H, n)
      BY <1>1, <2>3, <2>4 DEF Inv, Beyond
    <2>6. n <= LastIndex(j)
      <3> SUFFICES ASSUME LastIndex(j) < n PROVE FALSE
        BY <1>1
      <3>1. LastIndex(j) \in 1 .. n /\ LastIndex(j) \in 1 .. Len(H)
        BY <1>1, <1>2, <1>5, <2>4
      <3>2. H[LastIndex(j)] = G[LastIndex(j)]
        BY <2>5, <3>1 DEF Agree
      <3>3. H[LastIndex(j)].term <= t
        BY <3>1 DEF Inv, Coherent
      <3> QED
        BY <1>1, <2>3, <2>4, <3>2, <3>3
    <2> QED
      BY <2>5, <2>6 DEF Holds
  <1> QED
    BY <1>6, <1>7

LEMMA LogAtRequestVote ==
  ASSUME Base, TypeOK', NEW L, NEW A, Inv(L, A), NEW m \in rpcs, RequestVote(m)
  PROVE  Inv(L, A)'
  <1> DEFINE v == m.to
             j == m.from
  <1>1. /\ v \in Server /\ j \in Server /\ m.term \in Nat /\ m.type = "VoteCall" /\ j # v
        /\ \A q \in Server \ {v} : currentTerm'[q] = currentTerm[q] /\ state'[q] = state[q]
        /\ currentTerm'[v] = IF m.term > currentTerm[v] THEN m.term ELSE currentTerm[v]
        /\ state'[v] = IF m.term > currentTerm[v] THEN Follower ELSE state[v]
        /\ \A r \in rpcs' : r \in rpcs \/ r.type = "VoteReply"
        /\ tally' = tally
    BY VoterFacts, RpcKinds DEF Base, TypeOK, electionVars
  <1>2. /\ PollKeeps /\ UNCHANGED leaderVars
        /\ \E called \in BOOLEAN : PersistIf(called, v)
    BY DEF RequestVote, PollKeeps, PersistIf
  <1> HIDE DEF v, j
  <1>3. \A q \in Server : currentTerm[q] \in Nat /\ currentTerm'[q] >= currentTerm[q]
    BY <1>1 DEF Base, TypeOK, ServerTypes
  <1>4. SameElected /\ LogStep(L, A, A) /\ \A i \in Server : EndKept(i)
    BY <1>1, <1>2, <1>3, SameTallies, PollLogStep DEF Inv, Base
  <1>5. SameRoles /\ LeadersStand
    BY <1>1, RolesStand DEF SameRoles
  <1>6. ASSUME NEW i \in Server, NEW q \in Server
        PROVE  Ballot(L, A, i, q)'
    <2>1. CASE currentTerm'[i] \in TermsVoted(q, i)' => currentTerm'[i] \in TermsVoted(q, i)
      BY <1>4, <1>5, <2>1, BallotStays DEF Inv, SameRoles, Candidate, Follower
    <2>2. CASE ~(currentTerm'[i] \in TermsVoted(q, i)' => currentTerm'[i] \in TermsVoted(q, i))
      <3>1. MayVote(v, m) /\ q = v /\ i = j /\ currentTerm'[i] = m.term
        BY <2>2, VoterTerms DEF Base, v, j
      <3> SUFFICES ASSUME state'[i] = Candidate, NEW t \in Nat, NEW n \in Nat,
                          t < currentTerm'[i], n <= A[q][t], Choosable(L, A, t, n)'
                   PROVE  Holds(L, i, t, n)'
        BY DEF Ballot
      <3>2. state[j] = Candidate /\ currentTerm[j] = m.term
        BY <1>1, <3>1
      <3>3. m.lastLogIndex = LastIndex(j) /\ m.lastLogTerm = LastTerm(j)
        BY <1>1, <3>2 DEF Inv, CallsFit, CallFits, VoteCallFits, j
      <3>4. LastTerm(v) = TermAt(v, LastIndex(v))
        BY <1>1, LastTermIs DEF Base
      <3>5. \/ LastTerm(j) > LastTerm(v)
            \/ LastTerm(j) = LastTerm(v) /\ LastIndex(j) >= LastIndex(v)
        BY <3>1, <3>3, <3>4 DEF MayVote, UpToDate
      <3>6. n <= Len(L[t])
        BY GhostFacts DEF Choosable, OwnEntry, Inv
      <3>7. Choosable(L, A, t, n)
        BY <1>4, <3>6, ChoosableBack DEF LogStep, Base, Inv
      <3>8. Holds(L, j, t, n)
        BY <1>1, <3>1, <3>5, <3>7, VoteCarries
      <3> QED
        BY <1>4, <3>1, <3>8 DEF Holds, EndKept
    <2> QED
      BY <2>1, <2>2
  <1>7. CandidatesFit'
    BY <1>4, <1>5, CandidatesStep DEF Inv, Base
  <1>8. CallsFit(L, A)'
    BY <1>1, <1>4, <1>5, CallsStay DEF CallFits
  <1>9. \A i \in Server : persister'[i].snapshot = persister[i].snapshot
    BY <1>1, <1>2, SameSnapshots DEF Base, TypeOK
  <1> QED
    BY <1>2, <1>4, <1>5, <1>6, <1>7, <1>8, <1>9, PollStep

\* A vote that is not counted, or not enough.
LEMMA LogAtVoteCounted ==
  ASSUME Base, TypeOK', NEW L, NEW A, Inv(L, A), NEW m \in rpcs, CountVote(m),
         ~(Counts(m) /\ Majority(VotesWith(m) \cup {m.from}))
  PROVE  Inv(L, A)'
  <1> DEFINE i == m.from
             e == m.election
  <1>1. /\ i \in Server /\ m.to \in Server /\ e \in 1 .. MaxTerm
        /\ UNCHANGED currentTerm /\ rpcs' = rpcs \ {m}
        /\ FewerVotes
    BY CountVoteFacts DEF Base, FewerVotes
  <1>2. \A j \in Server : \A f \in 1 .. MaxTerm :
          /\ tally'[j][f].term = tally[j][f].term
          /\ tally'[j][f].votes = IF Counts(m) /\ j = i /\ f = e
                                  THEN VotesWith(m) ELSE tally[j][f].votes
    BY CountVoteFacts DEF Base
  <1>3. PollKeeps /\ UNCHANGED <<leaderVars, persister, state>>
    BY DEF CountVote, PollKeeps, Counts, VotesWith, applyVars, commitVars, logVars
  <1>4. VotesWith(m) = tally[i][e].votes \cup {m.to}
    BY DEF VotesWith
  <1> HIDE DEF i, e
  <1>5. SameElected
    <2> SUFFICES ASSUME NEW j \in Server, NEW T \in Nat
                 PROVE  ElectedBy(j, T)' <=> ElectedBy(j, T)
      BY DEF SameElected
    <2>1. ASSUME NEW f \in 1 .. MaxTerm
          PROVE  /\ tally'[j][f].votes # {} /\ Majority(tally'[j][f].votes \cup {j})
                 <=> tally[j][f].votes # {} /\ Majority(tally[j][f].votes \cup {j})
      <3>1. CASE Counts(m) /\ j = i /\ f = e
        <4>1. tally'[j][f].votes = VotesWith(m)
          BY <1>2, <3>1
        <4>2. ~Majority(VotesWith(m) \cup {j})
          BY <3>1 DEF i
        <4>3. ~Majority(tally[j][f].votes \cup {j})
          <5>1. /\ tally[j][f].votes \cup {j} \subseteq VotesWith(m) \cup {j}
                /\ VotesWith(m) \cup {j} \subseteq Server
            BY <1>1, <1>4, <3>1, TalliedVotes DEF Base
          <5> DEFINE S == tally[j][f].votes \cup {j}
                     U == VotesWith(m) \cup {j}
          <5>2. S \subseteq U /\ U \subseteq Server
            BY <5>1
          <5> HIDE DEF S, U
          <5>3. IsFiniteSet(U) /\ IsFiniteSet(Server)
            BY <5>2, ServerAssumption, FS_Subset
          <5>4. /\ Cardinality(S) <= Cardinality(U) /\ Cardinality(S) \in Nat
                /\ Cardinality(U) \in Nat /\ Cardinality(Server) \in Nat
            BY <5>2, <5>3, FS_Subset, FS_CardinalityType
          <5>5. ~Majority(U)
            BY <4>2 DEF U
          <5>6. ~Majority(S)
            BY <5>4, <5>5 DEF Majority
          <5> QED
            BY <5>6 DEF S
        <4> QED
          BY <4>1, <4>2, <4>3
      <3>2. CASE ~(Counts(m) /\ j = i /\ f = e)
        <4>1. tally'[j][f].votes = tally[j][f].votes
          BY <1>2, <3>2
        <4> QED
          BY <4>1
      <3> QED
        BY <3>1, <3>2
    <2>2. ElectedBy(j, T)' <=> \E f \in 1 .. MaxTerm :
             /\ tally'[j][f].term = T
             /\ tally'[j][f].votes # {} /\ Majority(tally'[j][f].votes \cup {j})
      BY DEF ElectedBy, Majority
    <2> QED
      BY <1>2, <2>1, <2>2 DEF ElectedBy
  <1>6. /\ SameRoles /\ LeadersStand /\ LogStep(L, A, A) /\ \A j \in Server : EndKept(j)
    <2>1. \A q \in Server : currentTerm'[q] >= currentTerm[q]
      BY <1>1 DEF Base, TypeOK, ServerTypes
    <2> QED
      BY <1>1, <1>3, <1>5, <2>1, PollLogStep DEF SameRoles, LeadersStand, Inv, Base
  <1>7. \A j, q \in Server : Ballot(L, A, j, q)'
    BY <1>1, <1>3, <1>6, BallotStays DEF Inv, FewerVotes
  <1>8. CandidatesFit' /\ CallsFit(L, A)'
    BY <1>1, <1>5, <1>6, CandidatesStep, CallsStay DEF Inv, Base
  <1> QED
    BY <1>3, <1>6, <1>7, <1>8, PollStep

-----------------------------------------------------------------------------
(* A step in which the leader of term T gets its log, or a longer one.     *)

HoldsGoOn(L, L1) ==
  \A q \in Server, t, n \in Nat : Holds(L, q, t, n) => Holds(L1, q, t, n)'
Rises(L, A, L1, A1, T) ==
  /\ Grow(L, A, L1, A1) /\ HoldsGoOn(L, L1)
  /\ \A U \in Nat \ {T} : L1[U] = L[U] /\ \A q \in Server : A1[q][U] = A[q][U]
  /\ \A q \in Server, t \in Nat : A1[q][t] # A[q][t] =>
       currentTerm'[q] = t /\ Holds(L1, q, t, A1[q][t])'
  /\ \A i \in Server, t \in Nat : ElectedBy(i, t) => ElectedBy(i, t)'
  /\ FewerVotes

LEMMA HoldsLessNext ==
  ASSUME NEW L, NEW A, Ghosts(L, A), TypeOK', NEW q \in Server, NEW t \in Nat,
         NEW k \in Nat, NEW n \in Nat, n <= k, Holds(L, q, t, k)'
  PROVE  Holds(L, q, t, n)'
  <1>1. LastIndex(q)' \in Nat /\ LastTerm(q)' \in Nat
    BY NextLog
  <1>2. PICK u, x \in Nat : u = LastTerm(q)' /\ x = LastIndex(q)'
    BY <1>1
  <1>3. Len(L[u]) \in Nat /\ Len(L[t]) \in Nat
    BY GhostFacts
  <1>4. k <= x /\ Agree(L[u], L[t], k)
    BY <1>2 DEF Holds
  <1>5. n <= x /\ Agree(L[u], L[t], n)
    BY <1>3, <1>4, AgreeLess
  <1> QED
    BY <1>2, <1>5 DEF Holds

LEMMA RisingAcks ==
  ASSUME TypeOK, TypeOK', NEW L, NEW A, NEW L1, NEW A1, NEW T \in Nat, Ghosts(L, A),
         Acks(L, A), Rises(L, A, L1, A1, T)
  PROVE  Acks(L1, A1)'
  <1> SUFFICES ASSUME NEW q \in Server, NEW t \in Nat
               PROVE  /\ A1[q][t] <= Len(L1[t]) /\ (A1[q][t] > 0 => t <= currentTerm'[q])
                      /\ currentTerm'[q] = t => Holds(L1, q, t, A1[q][t])'
    BY DEF Acks
  <1>1. Ghosts(L1, A1) /\ Grow(L, A, L1, A1)
    BY DEF Rises, Grow
  <1>2. /\ A[q][t] \in Nat /\ A1[q][t] \in Nat /\ currentTerm[q] \in Nat
        /\ currentTerm'[q] \in Nat /\ currentTerm'[q] >= currentTerm[q]
        /\ Len(L[t]) \in Nat /\ Len(L1[t]) \in Nat /\ Len(L[t]) <= Len(L1[t])
    <2>1. Len(L[t]) \in Nat /\ Len(L1[t]) \in Nat /\ Len(L[t]) <= Len(L1[t])
      BY <1>1, GrowsLonger
    <2>2. A[q][t] \in Nat /\ A1[q][t] \in Nat
      BY <1>1, GhostFacts
    <2>3. /\ currentTerm[q] \in Nat /\ currentTerm'[q] \in Nat
          /\ currentTerm'[q] >= currentTerm[q]
      BY <1>1 DEF Grow, TypeOK, ServerTypes
    <2> QED
      BY <2>1, <2>2, <2>3
  <1>3. CASE A1[q][t] # A[q][t]
    <2>1. currentTerm'[q] = t /\ Holds(L1, q, t, A1[q][t])'
      BY <1>3 DEF Rises
    <2>2. A1[q][t] <= Len(L1[t])
      BY <2>1 DEF Holds, Agree
    <2> QED
      BY <1>2, <2>1, <2>2
  <1>4. CASE A1[q][t] = A[q][t]
    <2>1. /\ A[q][t] <= Len(L[t]) /\ (A[q][t] > 0 => t <= currentTerm[q])
          /\ currentTerm[q] = t => Holds(L, q, t, A[q][t])
      BY DEF Acks
    <2>2. CASE A[q][t] = 0
      <3>1. LastIndex(q)' \in Nat /\ Len(L1[LastTerm(q)']) \in Nat
        BY <1>1, NextLog, GhostFacts
      <3>2. Holds(L1, q, t, 0)'
        BY <1>2, <3>1, AgreeNone DEF Holds
      <3> QED
        BY <1>2, <1>4, <2>1, <2>2, <3>2
    <2>3. CASE A[q][t] > 0
      <3>1. currentTerm'[q] = t => currentTerm[q] = t
        BY <1>2, <2>1, <2>3
      <3>2. currentTerm'[q] = t => Holds(L1, q, t, A[q][t])'
        BY <1>2, <2>1, <3>1 DEF Rises, HoldsGoOn
      <3> QED
        BY <1>2, <1>4, <2>1, <2>3, <3>2
    <2> QED
      BY <1>2, <2>2, <2>3
  <1> QED
    BY <1>3, <1>4

LEMMA RisingAckKeeps ==
  ASSUME TypeOK, TypeOK', NEW L, NEW A, NEW L1, NEW A1, NEW T \in Nat, Ghosts(L, A),
         Acks(L, A), AckKeeps(L, A), Rises(L, A, L1, A1, T)
  PROVE  AckKeeps(L1, A1)'
  <1> SUFFICES ASSUME NEW q \in Server, NEW t \in Nat, NEW n \in Nat, n <= A1[q][t],
                      Choosable(L1, A1, t, n)'
               PROVE  Holds(L1, q, t, n)'
    BY DEF AckKeeps
  <1>1. Ghosts(L1, A1) /\ Grow(L, A, L1, A1)
    BY DEF Rises, Grow
  <1>2. A[q][t] \in Nat /\ A1[q][t] \in Nat /\ Len(L[t]) \in Nat
    BY <1>1, GhostFacts
  <1>3. CASE A1[q][t] # A[q][t]
    <2>1. PICK k \in Nat : k = A1[q][t]
      BY <1>2
    <2>2. Holds(L1, q, t, k)' /\ n <= k
      BY <1>3, <2>1 DEF Rises
    <2> QED
      BY <1>1, <2>2, HoldsLessNext
  <1>4. CASE A1[q][t] = A[q][t]
    <2>1. n <= Len(L[t])
      BY <1>2, <1>4 DEF Acks
    <2>2. Choosable(L, A, t, n)
      BY <1>1, <2>1, ChoosableBack
    <2>3. Holds(L, q, t, n)
      BY <1>4, <2>2 DEF AckKeeps
    <2> QED
      BY <2>3 DEF Rises, HoldsGoOn
  <1> QED
    BY <1>3, <1>4

LEMMA RisingBallots ==
  ASSUME Base, TypeOK', NEW L, NEW A, NEW L1, NEW A1, NEW T \in Nat, Ghosts(L, A),
         Acks(L, A), Ballots(L, A), Rises(L, A, L1, A1, T),
         \A j \in Server : state'[j] = Candidate =>
           state[j] = Candidate /\ currentTerm'[j] = currentTerm[j]
  PROVE  Ballots(L1, A1)'
  <1> SUFFICES ASSUME NEW i \in Server, NEW q \in Server, state'[i] = Candidate,
                      currentTerm'[i] \in TermsVoted(q, i)', NEW t \in Nat, NEW n \in Nat,
                      t < currentTerm'[i], n <= A1[q][t], Choosable(L1, A1, t, n)'
               PROVE  Holds(L1, i, t, n)'
    BY DEF Ballots
  <1>1. /\ state[i] = Candidate /\ currentTerm'[i] = currentTerm[i]
        /\ currentTerm[i] \in TermsVoted(q, i)
    BY DEF Rises, FewerVotes
  <1>2. /\ currentTerm[q] >= currentTerm[i] /\ currentTerm[q] \in Nat /\ currentTerm[i] \in Nat
    BY <1>1 DEF Base, ElectionInv, VotesRemembered, TypeOK, ServerTypes
  <1>3. Grow(L, A, L1, A1) /\ A[q][t] \in Nat /\ Len(L[t]) \in Nat
    BY GhostFacts DEF Rises
  <1>4. A1[q][t] = A[q][t]
    BY <1>1, <1>2, <1>3 DEF Grow
  <1>5. n <= Len(L[t])
    BY <1>3, <1>4 DEF Acks
  <1>6. Choosable(L, A, t, n)
    BY <1>3, <1>5, ChoosableBack DEF Base
  <1>7. Holds(L, i, t, n)
    BY <1>1, <1>4, <1>6 DEF Ballots
  <1> QED
    BY <1>7 DEF Rises, HoldsGoOn

\* The leaders of other terms.
LEMMA RisingLeader ==
  ASSUME TypeOK, TypeOK', NEW L, NEW A, NEW L1, NEW A1, NEW T \in Nat, Ghosts(L, A),
         Rises(L, A, L1, A1, T), NEW j \in Server, LeaderFits(L, A, j), currentTerm[j] # T,
         currentTerm'[j] = currentTerm[j], EndKept(j), matchIndex'[j] = matchIndex[j]
  PROVE  LeaderFits(L1, A1, j)'
  <1>1. PICK w \in Nat : w = currentTerm[j] /\ w = currentTerm'[j]
    BY DEF TypeOK, ServerTypes
  <1>2. PICK x \in Nat : x = LastIndex(j) /\ x = LastIndex(j)'
    BY LastTermIs DEF EndKept
  <1>3. L1[w] = L[w] /\ \A q \in Server : A1[q][w] = A[q][w]
    BY <1>1 DEF Rises
  <1>4. /\ ElectedBy(j, w) /\ Len(L[w]) = x /\ Holds(L, j, w, x) /\ A[j][w] = x
        /\ \A p \in Server \ {j} : matchIndex[j][p] <= A[p][w]
    BY <1>1, <1>2 DEF LeaderFits
  <1>5. ElectedBy(j, w)' /\ Holds(L1, j, w, x)'
    BY <1>4 DEF Rises, HoldsGoOn
  <1>6. /\ Len(L1[w]) = x /\ A1[j][w] = x
        /\ \A p \in Server \ {j} : matchIndex'[j][p] <= A1[p][w]
    BY <1>3, <1>4
  <1> QED
    BY <1>1, <1>2, <1>5, <1>6 DEF LeaderFits

\* What was already there, seen by those who were already elected.
LEMMA RisingBeyond ==
  ASSUME TypeOK, TypeOK', NEW L, NEW A, NEW L1, NEW A1, NEW T \in Nat, Ghosts(L, A),
         Beyond(L, A), Rises(L, A, L1, A1, T), NEW t \in Nat, NEW U \in Nat, NEW n \in Nat,
         t < U, Elected(U), n <= Len(L[t]), Choosable(L1, A1, t, n)'
  PROVE  Agree(L1[U], L1[t], n)
  <1>1. Grow(L, A, L1, A1)
    BY DEF Rises
  <1>2. Choosable(L, A, t, n)
    BY <1>1, ChoosableBack
  <1>3. Agree(L[U], L[t], n)
    BY <1>2 DEF Beyond
  <1> QED
    BY <1>1, <1>3, AgreeGrows

LEMMA RisingCoherent ==
  ASSUME NEW L, NEW A, NEW L1, NEW A1, NEW T \in Nat, Ghosts(L, A), Coherent(L),
         Rises(L, A, L1, A1, T), NEW U \in Nat, NEW x \in 1 .. Len(L[U])
  PROVE  /\ L1[U][x].term >= 1 /\ L1[U][x].term <= U
         /\ Agree(L1[U], L1[L1[U][x].term], x)
  <1>1. Grow(L, A, L1, A1)
    BY DEF Rises
  <1>2. L1[U][x] = L[U][x] /\ L[U][x].term \in Nat /\ x \in Nat
    BY <1>1, GrowsLonger, GhostFacts
  <1>3. PICK w \in Nat : w = L[U][x].term
    BY <1>2
  <1>4. w >= 1 /\ w <= U /\ Agree(L[U], L[w], x)
    BY <1>3 DEF Coherent
  <1>5. Agree(L1[U], L1[w], x)
    BY <1>1, <1>2, <1>4, AgreeGrows
  <1> QED
    BY <1>2, <1>3, <1>4, <1>5

-----------------------------------------------------------------------------
(* The vote that wins an election.                                         *)

\* The leader i of term T has the log L1[T], and everything else is as it was.
Gives(L, A, L1, A1, i, T) ==
  /\ Ghosts(L1, A1)
  /\ \A U \in Nat \ {T} : L1[U] = L[U] /\ \A q \in Server : A1[q][U] = A[q][U]
  /\ \A q \in Server \ {i} : A1[q][T] = A[q][T]
  /\ A1[i][T] = Len(L1[T])

LEMMA GhostsGiven ==
  ASSUME NEW L, NEW A, Ghosts(L, A), NEW i \in Server, NEW T \in Nat, NEW G \in Seq(Entry)
  PROVE  \E L1, A1 : Gives(L, A, L1, A1, i, T) /\ L1[T] = G
  <1> DEFINE L1 == [L EXCEPT ![T] = G]
             A1 == [A EXCEPT ![i] = [A[i] EXCEPT ![T] = Len(G)]]
  <1>1. Len(G) \in Nat
    BY LenProperties
  <1>2. L1 \in [Nat -> Seq(Entry)] /\ L1[T] = G /\ \A U \in Nat \ {T} : L1[U] = L[U]
    BY DEF Ghosts
  <1>3. /\ A1 \in [Server -> [Nat -> Nat]] /\ A1[i][T] = Len(G)
        /\ \A q \in Server \ {i} : A1[q] = A[q]
        /\ \A U \in Nat \ {T} : A1[i][U] = A[i][U]
    BY <1>1 DEF Ghosts
  <1> HIDE DEF L1, A1
  <1>4. Gives(L, A, L1, A1, i, T)
    BY <1>2, <1>3 DEF Gives, Ghosts
  <1> QED
    BY <1>2, <1>4

Wins(m) == Counts(m) /\ Majority(VotesWith(m) \cup {m.from})

\* Its term has had no leader, and so many voters are behind it.
LEMMA Winner ==
  ASSUME Base, NEW L, NEW A, Inv(L, A), NEW m \in rpcs, CountVote(m), Wins(m),
         NEW i, NEW T, i = m.from, T = currentTerm[i]
  PROVE  /\ i \in Server /\ T \in Nat /\ state[i] = Candidate
         /\ ~Elected(T) /\ Len(L[T]) = 0 /\ LastTerm(i) < T
         /\ \E S \in SUBSET Server : Majority(S) /\ \A q \in S : T \in TermsVoted(q, i)
  <1> DEFINE e == m.election
             S == VotesWith(m) \cup {i}
  <1>1. /\ i \in Server /\ m.to \in Server /\ e \in 1 .. MaxTerm /\ m.type = "VoteReply"
        /\ tally[i][e].term = T /\ T \in TermsVoted(m.to, i) /\ state[i] = Candidate
        /\ m.callTerm = T /\ T \in Nat
    BY CountVoteFacts DEF Base, Wins, Counts, TypeOK, ServerTypes
  <1>2. VotesWith(m) = tally[i][e].votes \cup {m.to}
    BY DEF VotesWith
  <1>3. T \in TermsVoted(i, i)
    BY <1>1 DEF TermsVoted, Candidate, Follower
  <1>4. S \in SUBSET Server /\ Majority(S) /\ \A q \in S : T \in TermsVoted(q, i)
    <2>1. Majority(S)
      BY DEF Wins
    <2>2. \A q \in tally[i][e].votes : q \in Server /\ T \in TermsVoted(q, i)
      BY <1>1, TalliedVotes DEF Base
    <2> QED
      BY <1>1, <1>2, <1>3, <2>1, <2>2
  <1>5. T >= 1
    <2>1. e <= T
      <3>1. ~(e > currentTerm[i])
        BY <1>1 DEF Base, ElectionInv, TalliesMatch, VoteCallOf
      <3> QED
        BY <1>1, <3>1
    <2> QED
      BY <1>1, <2>1
  <1> HIDE DEF S, e
  <1>6. ~Elected(T)
    <2> SUFFICES ASSUME NEW j \in Server, ElectedBy(j, T) PROVE FALSE
      BY DEF Elected
    <2>1. j # i
      BY <1>1 DEF Inv, CandidatesFit
    <2>2. PICK f \in 1 .. MaxTerm : /\ tally[j][f].term = T /\ tally[j][f].votes # {}
                                   /\ Majority(tally[j][f].votes \cup {j})
      BY DEF ElectedBy
    <2>3. \A k \in Server \ {j} : T \notin TermsVoted(j, k)
      BY <2>2 DEF Base, AskedInv, TalliesOwn
    <2>4. \A q \in tally[j][f].votes : q \in Server /\ T \in TermsVoted(q, j)
      BY <2>2, TalliedVotes DEF Base
    <2> DEFINE W == tally[j][f].votes \cup {j}
    <2>5. W \subseteq Server /\ Majority(W)
      BY <2>2, <2>4
    <2>6. PICK q : q \in S /\ q \in W
      <3> HIDE DEF W
      <3>1. /\ Cardinality(S) \in Nat /\ Cardinality(W) \in Nat
            /\ Cardinality(Server) \in Nat /\ IsFiniteSet(Server)
        BY <1>4, <2>5, ServerAssumption, FS_Subset, FS_CardinalityType
      <3>2. Cardinality(S) + Cardinality(W) > Cardinality(Server)
        BY <1>4, <2>5, <3>1 DEF Majority
      <3>3. S \cap W # {}
        BY <1>4, <2>5, <3>1, <3>2, FS_MajoritiesIntersect
      <3> QED
        BY <3>3
    <2>7. q \in Server /\ T \in TermsVoted(q, i)
      BY <1>4, <2>6
    <2>8. q # j
      BY <1>1, <2>1, <2>3, <2>7
    <2>9. T \in TermsVoted(q, j)
      BY <2>4, <2>6, <2>8
    <2> QED
      BY <1>1, <2>1, <2>7, <2>9 DEF Base, ElectionInv, VotesUnique
  <1>7. Len(L[T]) = 0
    <2>1. Len(L[T]) \in Nat
      BY <1>1, GhostFacts DEF Inv
    <2> QED
      BY <1>1, <1>6, <2>1 DEF Inv, Coherent
  <1>8. LastTerm(i) < T
    <2>1. /\ LastTerm(i) \in Nat /\ LastIndex(i) \in Nat /\ LastTerm(i) <= T
      BY <1>1, LastTermIs DEF Base, Inv, LogsFit, LogFits
    <2>2. /\ LastIndex(i) = 0 => LastTerm(i) = 0
          /\ LastIndex(i) > 0 => Elected(LastTerm(i))
      BY <1>1, LastEntry DEF Base, Inv, LogsFit
    <2> QED
      BY <1>1, <1>5, <1>6, <2>1, <2>2
  <1> QED
    BY <1>1, <1>4, <1>6, <1>7, <1>8

\* After it, i is the one leader its term has elected.
LEMMA WinnerElected ==
  ASSUME Base, NEW m \in rpcs, CountVote(m), Wins(m), NEW i, NEW T, i = m.from, T = currentTerm[i]
  PROVE  /\ ElectedBy(i, T)' /\ \A j \in Server, t \in Nat : ElectedBy(j, t) => ElectedBy(j, t)'
         /\ \A j \in Server, t \in Nat : j # i \/ t # T => (ElectedBy(j, t)' <=> ElectedBy(j, t))
  <1> DEFINE e == m.election
  <1>1. /\ i \in Server /\ e \in 1 .. MaxTerm /\ m.to \in Server
        /\ tally[i][e].term = T /\ T \in Nat
        /\ \A j \in Server : \A f \in 1 .. MaxTerm : tally'[j][f].term = tally[j][f].term
        /\ \A j \in Server : \A f \in 1 .. MaxTerm :
             tally'[j][f].votes = IF j = i /\ f = e THEN VotesWith(m) ELSE tally[j][f].votes
    BY CountVoteFacts DEF Base, Wins, Counts, TypeOK, ServerTypes
  <1>2. m.to \in VotesWith(m) /\ Majority(VotesWith(m) \cup {i})
    BY DEF Wins, VotesWith
  <1> HIDE DEF e
  <1>3. ElectedBy(i, T)'
    <2>1. tally'[i][e].term = T /\ tally'[i][e].votes = VotesWith(m)
      BY <1>1
    <2>2. PICK V : V = VotesWith(m) /\ V # {} /\ Majority(V \cup {i})
      BY <1>2
    <2>3. tally'[i][e].votes = V /\ e \in 1 .. MaxTerm
      BY <1>1, <2>1, <2>2
    <2>4. tally'[i][e].votes # {} /\ Majority(tally'[i][e].votes \cup {i})
      BY <2>2, <2>3
    <2>5. \E f \in 1 .. MaxTerm : /\ tally'[i][f].term = T
                                  /\ tally'[i][f].votes # {} /\ Majority(tally'[i][f].votes \cup {i})
      BY <2>1, <2>3, <2>4
    <2> QED
      BY <2>5 DEF ElectedBy, Majority
  <1>4. ASSUME NEW j \in Server, NEW t \in Nat, j # i \/ t # T
        PROVE  ElectedBy(j, t)' <=> ElectedBy(j, t)
    <2>1. ASSUME NEW f \in 1 .. MaxTerm, tally[j][f].term = t
          PROVE  tally'[j][f].votes = tally[j][f].votes
      BY <1>1, <1>4, <2>1
    <2> QED
      BY <1>1, <2>1 DEF ElectedBy, Majority
  <1> QED
    BY <1>3, <1>4

\* What the ghosts are after the victory of i in term T.
Crowned(L, A, L1, A1, i, T) ==
  /\ Gives(L, A, L1, A1, i, T) /\ Len(L1[T]) = LastIndex(i)
  /\ Agree(L1[T], L1[LastTerm(i)], LastIndex(i))

LEMMA CrownedExists ==
  ASSUME Base, NEW L, NEW A, Inv(L, A), NEW i \in Server, NEW T \in Nat, LastTerm(i) < T
  PROVE  \E L1, A1 : Crowned(L, A, L1, A1, i, T)
  <1>1. /\ LastTerm(i) \in Nat /\ LastIndex(i) \in Nat /\ Ghosts(L, A)
        /\ LastIndex(i) <= Len(L[LastTerm(i)])
    BY LastTermIs, LastEntry DEF Base, Inv, LogsFit
  <1>2. PICK u, n \in Nat : u = LastTerm(i) /\ n = LastIndex(i)
    BY <1>1
  <1>3. PICK F \in Seq(Entry) : F = L[u]
    BY <1>1 DEF Ghosts
  <1>4. \E G \in Seq(Entry) : Len(G) = n /\ \A k \in 1 .. n : G[k] = F[k]
    <2> DEFINE G == SubSeq(F, 1, n)
    <2>1. 1 \in Nat /\ 1 <= 1 /\ n <= Len(F) /\ 1 <= n + 1 /\ n - 1 + 1 = n
      BY <1>1, <1>2, <1>3
    <2>2. /\ G \in Seq(Entry) /\ Len(G) = n - 1 + 1
          /\ \A k \in 1 .. n - 1 + 1 : G[k] = F[1 + k - 1]
      BY <2>1, Slice
    <2> HIDE DEF G
    <2>3. \A k \in 1 .. n : 1 + k - 1 = k
      OBVIOUS
    <2> QED
      BY <2>1, <2>2, <2>3
  <1>5. PICK G \in Seq(Entry) : Len(G) = n /\ \A k \in 1 .. n : G[k] = F[k]
    BY <1>4
  <1>6. PICK L1, A1 : Gives(L, A, L1, A1, i, T) /\ L1[T] = G
    BY <1>1, GhostsGiven
  <1>7. L1[u] = F
    BY <1>2, <1>3, <1>6 DEF Gives
  <1>8. Agree(L1[T], L1[u], n)
    <2>1. n <= Len(G) /\ n <= Len(F)
      BY <1>1, <1>2, <1>3, <1>5
    <2> QED
      BY <1>5, <1>6, <1>7, <2>1 DEF Agree
  <1> QED
    BY <1>2, <1>5, <1>6, <1>8 DEF Crowned

LEMMA VictoryFacts ==
  ASSUME Base, TypeOK', NEW m \in rpcs, CountVote(m), Wins(m), NEW i, i = m.from
  PROVE  /\ PollKeeps /\ UNCHANGED <<persister, currentTerm>> /\ rpcs' = rpcs \ {m} /\ FewerVotes
         /\ \A j \in Server : EndKept(j)
         /\ state'[i] = Leader
         /\ \A p \in Server : nextIndex'[i][p] = LastIndex(i) + 1 /\ matchIndex'[i][p] = 0
         /\ \A j \in Server \ {i} : /\ state'[j] = state[j] /\ nextIndex'[j] = nextIndex[j]
                                    /\ matchIndex'[j] = matchIndex[j]
  <1>1. FewerVotes /\ i \in Server
    BY CountVoteFacts DEF Base, FewerVotes
  <1>2. /\ PollKeeps /\ UNCHANGED <<persister, currentTerm>> /\ rpcs' = rpcs \ {m}
        /\ ConvertToLeader(i)
    BY DEF CountVote, PollKeeps, Received, Wins, Counts, VotesWith
  <1>3. \A j \in Server : EndKept(j)
    BY <1>2, EndStays DEF PollKeeps, logVars
  <1> QED
    BY <1>1, <1>2, <1>3 DEF ConvertToLeader, Base, TypeOK, ServerTypes, LeaderTypes

LEMMA VictoryRises ==
  ASSUME Base, TypeOK', NEW L, NEW A, Inv(L, A), NEW m \in rpcs, CountVote(m), Wins(m),
         NEW i, NEW T, i = m.from, T = currentTerm[i], NEW L1, NEW A1, Crowned(L, A, L1, A1, i, T)
  PROVE  Rises(L, A, L1, A1, T) /\ T \in Nat /\ i \in Server /\ Holds(L1, i, T, LastIndex(i))'
  <1>1. /\ i \in Server /\ T \in Nat /\ Len(L[T]) = 0
    BY Winner
  <1>2. /\ FewerVotes /\ UNCHANGED currentTerm /\ \A j \in Server : EndKept(j)
        /\ PollKeeps
    BY VictoryFacts
  <1>3. /\ Ghosts(L, A) /\ Ghosts(L1, A1) /\ A[i][T] = 0
        /\ \A U \in Nat \ {T} : L1[U] = L[U] /\ \A q \in Server : A1[q][U] = A[q][U]
        /\ \A q \in Server \ {i} : A1[q][T] = A[q][T]
        /\ A1[i][T] = LastIndex(i)
    <2>1. A[i][T] <= Len(L[T]) /\ A[i][T] \in Nat
      BY <1>1, GhostFacts DEF Inv, Acks
    <2> QED
      BY <1>1, <2>1 DEF Inv, Crowned, Gives
  <1>4. Grow(L, A, L1, A1)
    <2>1. ASSUME NEW U \in Nat
          PROVE  Agree(L1[U], L[U], Len(L[U]))
      <3>1. Len(L1[U]) \in Nat /\ Len(L[U]) \in Nat
        BY <1>3, GhostFacts
      <3>2. CASE U = T
        BY <1>1, <3>1, <3>2, AgreeNone
      <3>3. CASE U # T
        BY <1>3, <3>1, <3>3 DEF Agree
      <3> QED
        BY <3>2, <3>3
    <2>2. ASSUME NEW q \in Server, NEW t \in Nat
          PROVE  A1[q][t] >= A[q][t] /\ (A1[q][t] # A[q][t] => currentTerm[q] <= t)
      <3>1. A[q][t] \in Nat /\ A1[q][t] \in Nat /\ T <= T
        BY <1>1, <1>3, GhostFacts
      <3>2. CASE q = i /\ t = T
        BY <1>3, <3>1, <3>2
      <3>3. CASE ~(q = i /\ t = T)
        <4>1. A1[q][t] = A[q][t]
          BY <1>1, <1>3, <3>3
        <4> QED
          BY <3>1, <4>1
      <3> QED
        BY <3>2, <3>3
    <2>3. /\ \A q \in Server : currentTerm'[q] >= currentTerm[q]
          /\ chosen \subseteq chosen'
      BY <1>2 DEF PollKeeps, commitVars, Base, TypeOK, ServerTypes
    <2> QED
      BY <1>3, <2>1, <2>2, <2>3 DEF Grow
  <1>5. HoldsGoOn(L, L1)
    <2> SUFFICES ASSUME NEW q \in Server, NEW t \in Nat, NEW n \in Nat, Holds(L, q, t, n)
                 PROVE  Holds(L1, q, t, n)'
      BY DEF HoldsGoOn
    <2>1. PICK u \in Nat : u = LastTerm(q)
      BY LastTermIs DEF Base
    <2>2. Agree(L1[u], L1[t], n)
      BY <1>3, <1>4, <2>1, AgreeGrows DEF Holds
    <2> QED
      BY <1>2, <2>1, <2>2 DEF Holds, EndKept
  <1>6. Holds(L1, i, T, LastIndex(i))'
    <2>1. PICK u, n \in Nat : u = LastTerm(i) /\ n = LastIndex(i)
      BY <1>1, LastTermIs DEF Base
    <2>2. LastTerm(i)' = u /\ LastIndex(i)' = n
      BY <1>1, <1>2, <2>1 DEF EndKept
    <2>3. Agree(L1[u], L1[T], n)
      BY <2>1, AgreeSym DEF Crowned
    <2>4. n <= n
      BY <2>1
    <2> QED
      BY <2>2, <2>3, <2>4 DEF Holds
  <1>7. ASSUME NEW q \in Server, NEW t \in Nat, A1[q][t] # A[q][t]
        PROVE  currentTerm'[q] = t /\ Holds(L1, q, t, A1[q][t])'
    <2>1. q = i /\ t = T
      BY <1>1, <1>3, <1>7
    <2>2. A1[i][T] = LastIndex(i)'
      BY <1>1, <1>2, <1>3 DEF EndKept
    <2>3. PICK n : n = LastIndex(i)'
      OBVIOUS
    <2>4. Holds(L1, i, T, n)'
      BY <1>6, <2>3
    <2> QED
      BY <1>2, <2>1, <2>2, <2>3, <2>4
  <1>8. \A j \in Server, t \in Nat : ElectedBy(j, t) => ElectedBy(j, t)'
    BY WinnerElected
  <1> QED
    BY <1>1, <1>2, <1>3, <1>4, <1>5, <1>6, <1>7, <1>8 DEF Rises

\* The new leader's log is older than its term.
LEMMA CrownOlder ==
  ASSUME Base, NEW L, NEW A, Inv(L, A), NEW i \in Server, NEW T \in Nat, LastTerm(i) < T,
         NEW L1, NEW A1, Crowned(L, A, L1, A1, i, T)
  PROVE  \A x \in 1 .. Len(L1[T]) :
           /\ L1[T][x].term \in Nat /\ L1[T][x].term >= 1 /\ L1[T][x].term < T
           /\ Agree(L1[T], L1[L1[T][x].term], x)
  <1>1. PICK u, n \in Nat : u = LastTerm(i) /\ n = LastIndex(i)
    BY LastTermIs DEF Base
  <1>2. /\ L1[u] = L[u] /\ Agree(L1[T], L1[u], n) /\ Len(L1[T]) = n /\ u < T
        /\ \A U \in Nat \ {T} : L1[U] = L[U]
    BY <1>1 DEF Crowned, Gives
  <1>3. Len(L[u]) \in Nat /\ n <= Len(L[u])
    BY <1>1, <1>2, GhostFacts DEF Inv, Agree
  <1> SUFFICES ASSUME NEW x \in 1 .. n
               PROVE  /\ L1[T][x].term \in Nat /\ L1[T][x].term >= 1 /\ L1[T][x].term < T
                      /\ Agree(L1[T], L1[L1[T][x].term], x)
    BY <1>2
  <1>4. x \in 1 .. Len(L[u]) /\ L1[T][x] = L[u][x] /\ x \in Nat
    BY <1>2, <1>3 DEF Agree
  <1>5. PICK w \in Nat : w = L[u][x].term
    BY <1>4, GhostFacts DEF Inv
  <1>6. w >= 1 /\ w <= u /\ Agree(L[u], L[w], x)
    BY <1>4, <1>5 DEF Inv, Coherent
  <1>7. L1[w] = L[w] /\ w < T
    BY <1>2, <1>6
  <1>8. Agree(L1[u], L1[w], x)
    BY <1>2, <1>6, <1>7
  <1>9. Agree(L1[T], L1[u], x)
    BY <1>2, <1>3, AgreeLess
  <1> QED
    BY <1>4, <1>5, <1>6, <1>7, <1>8, <1>9, AgreeTrans

LEMMA VictoryCoherent ==
  ASSUME Base, TypeOK', NEW L, NEW A, Inv(L, A), NEW m \in rpcs, CountVote(m), Wins(m),
         NEW i, NEW T, i = m.from, T = currentTerm[i], NEW L1, NEW A1, Crowned(L, A, L1, A1, i, T)
  PROVE  Coherent(L1)'
  <1>1. /\ Rises(L, A, L1, A1, T) /\ T \in Nat /\ i \in Server /\ LastTerm(i) < T
    BY VictoryRises, Winner
  <1>2. /\ ElectedBy(i, T)' /\ \A j \in Server, t \in Nat : ElectedBy(j, t) => ElectedBy(j, t)'
    BY WinnerElected
  <1> SUFFICES ASSUME NEW U \in Nat
               PROVE  /\ Len(L1[U]) > 0 => Elected(U)'
                      /\ \A x \in 1 .. Len(L1[U]) :
                           /\ L1[U][x].term >= 1 /\ L1[U][x].term <= U
                           /\ Agree(L1[U], L1[L1[U][x].term], x)
    BY DEF Coherent, Agree
  <1>3. CASE U = T
    <2>1. Elected(U)'
      BY <1>1, <1>2, <1>3 DEF Elected
    <2>2. \A x \in 1 .. Len(L1[T]) :
            /\ L1[T][x].term \in Nat /\ L1[T][x].term >= 1 /\ L1[T][x].term < T
            /\ Agree(L1[T], L1[L1[T][x].term], x)
      BY <1>1, CrownOlder
    <2> QED
      BY <1>1, <1>3, <2>1, <2>2
  <1>4. CASE U # T
    <2>1. L1[U] = L[U] /\ Ghosts(L, A) /\ Coherent(L)
      BY <1>1, <1>4 DEF Rises, Inv
    <2>2. Len(L1[U]) > 0 => Elected(U)'
      BY <1>2, <2>1 DEF Coherent, Elected
    <2> QED
      BY <1>1, <2>1, <2>2, RisingCoherent
  <1> QED
    BY <1>3, <1>4

LEMMA VictoryBeyond ==
  ASSUME Base, TypeOK', NEW L, NEW A, Inv(L, A), NEW m \in rpcs, CountVote(m), Wins(m),
         NEW i, NEW T, i = m.from, T = currentTerm[i], NEW L1, NEW A1, Crowned(L, A, L1, A1, i, T)
  PROVE  Beyond(L1, A1)'
  <1> SUFFICES ASSUME NEW t \in Nat, NEW U \in Nat, NEW n \in Nat, t < U,
                      Elected(U)', Choosable(L1, A1, t, n)'
               PROVE  Agree(L1[U], L1[t], n)
    BY DEF Beyond, Agree
  <1>1. /\ Rises(L, A, L1, A1, T) /\ T \in Nat /\ i \in Server /\ LastTerm(i) < T
        /\ state[i] = Candidate
        /\ \E S \in SUBSET Server : Majority(S) /\ \A q \in S : T \in TermsVoted(q, i)
    BY VictoryRises, Winner
  <1>2. Grow(L, A, L1, A1) /\ Ghosts(L, A) /\ TypeOK
    BY <1>1 DEF Rises, Inv, Base
  <1>3. t # T
    <2>1. n \in 1 .. Len(L1[t]) /\ L1[t][n].term = t
      BY DEF Choosable, OwnEntry
    <2> QED
      BY <1>1, <2>1, CrownOlder
  <1>4. n <= Len(L[t])
    <2>1. L1[t] = L[t] /\ Len(L[t]) \in Nat
      BY <1>1, <1>2, <1>3, GhostFacts DEF Rises
    <2> QED
      BY <2>1 DEF Choosable, OwnEntry
  <1>5. CASE U # T
    <2>1. Elected(U)
      BY <1>5, WinnerElected DEF Elected
    <2> QED
      BY <1>1, <1>2, <1>4, <2>1, RisingBeyond DEF Inv
  <1>6. CASE U = T
    <2>1. Choosable(L, A, t, n)
      BY <1>2, <1>4, ChoosableBack
    <2>2. PICK Q \in SUBSET Server : Half(Q) /\ \A q \in Q : A[q][t] >= n \/ currentTerm[q] <= t
      BY <2>1 DEF Choosable
    <2>3. PICK S \in SUBSET Server : Majority(S) /\ \A q \in S : T \in TermsVoted(q, i)
      BY <1>1
    <2>4. PICK q \in Server : q \in Q /\ q \in S
      BY <2>2, <2>3, HalfMeets
    <2>5. currentTerm[q] >= T /\ currentTerm[q] \in Nat
      BY <1>1, <2>3, <2>4 DEF Base, ElectionInv, VotesRemembered, TypeOK, ServerTypes
    <2>6. A[q][t] >= n /\ A[q][t] \in Nat
      BY <1>1, <1>2, <1>6, <2>2, <2>4, <2>5, GhostFacts
    <2>7. T \in TermsVoted(q, i) /\ n <= A[q][t]
      BY <2>3, <2>4, <2>6
    <2>8. Holds(L, i, t, n)
      BY <1>1, <1>6, <2>1, <2>7 DEF Inv, Ballots
    <2>9. PICK u, x \in Nat : u = LastTerm(i) /\ x = LastIndex(i)
      BY <1>1, <1>2, LastTermIs
    <2>10. n <= x /\ Agree(L1[u], L1[t], n)
      BY <1>2, <2>8, <2>9, AgreeGrows DEF Holds
    <2>11. Agree(L1[T], L1[u], x) /\ Len(L1[T]) \in Nat /\ Len(L1[u]) \in Nat
      BY <1>1, <1>2, <2>9, GhostFacts DEF Crowned, Grow
    <2>12. Agree(L1[T], L1[u], n)
      BY <2>10, <2>11, AgreeLess
    <2> QED
      BY <1>6, <2>10, <2>12, AgreeTrans
  <1> QED
    BY <1>5, <1>6

LEMMA LogAtVictory ==
  ASSUME Base, TypeOK', NEW L, NEW A, Inv(L, A), NEW m \in rpcs, CountVote(m), Wins(m)
  PROVE  \E L1, A1 : Inv(L1, A1)'
  <1>1. PICK i, T : i = m.from /\ T = currentTerm[i]
    OBVIOUS
  <1>2. /\ i \in Server /\ T \in Nat /\ state[i] = Candidate /\ ~Elected(T) /\ LastTerm(i) < T
    BY <1>1, Winner
  <1>3. PICK L1, A1 : Crowned(L, A, L1, A1, i, T)
    BY <1>2, CrownedExists
  <1>4. /\ Rises(L, A, L1, A1, T) /\ Holds(L1, i, T, LastIndex(i))'
    BY <1>1, <1>3, VictoryRises
  <1>5. Grow(L, A, L1, A1) /\ Ghosts(L, A) /\ Ghosts(L1, A1) /\ TypeOK
    BY <1>4 DEF Rises, Inv, Base, Grow
  <1>6. /\ ElectedBy(i, T)' /\ \A j \in Server, t \in Nat : ElectedBy(j, t) => ElectedBy(j, t)'
        /\ \A j \in Server, t \in Nat : j # i \/ t # T => (ElectedBy(j, t)' <=> ElectedBy(j, t))
    BY <1>1, WinnerElected
  <1>7. /\ PollKeeps /\ UNCHANGED <<persister, currentTerm>> /\ rpcs' = rpcs \ {m}
        /\ \A j \in Server : EndKept(j)
        /\ state'[i] = Leader
        /\ \A p \in Server : nextIndex'[i][p] = LastIndex(i) + 1 /\ matchIndex'[i][p] = 0
        /\ \A j \in Server \ {i} : /\ state'[j] = state[j] /\ nextIndex'[j] = nextIndex[j]
                                   /\ matchIndex'[j] = matchIndex[j]
    BY <1>1, VictoryFacts
  <1>8. Ghosts(L1, A1)' /\ Coherent(L1)' /\ Beyond(L1, A1)'
    BY <1>1, <1>3, <1>5, VictoryCoherent, VictoryBeyond DEF Ghosts
  <1>9. LogsFit(L1)' /\ Seals(L1, A1)' /\ Chosens(L1, A1)'
    BY <1>5, <1>7, LogsStay, SealsStay, ChosensStay DEF Inv, PollKeeps, logVars, commitVars
  <1>10. Acks(L1, A1)' /\ AckKeeps(L1, A1)'
    BY <1>2, <1>4, <1>5, RisingAcks, RisingAckKeeps DEF Inv
  <1>11. \A j \in Server : state'[j] = Candidate => j # i /\ state[j] = Candidate
    BY <1>7 DEF Leader, Candidate
  <1>12. Ballots(L1, A1)'
    BY <1>2, <1>4, <1>5, <1>7, <1>11, RisingBallots DEF Inv
  <1>13. CandidatesFit'
    <2> SUFFICES ASSUME NEW j \in Server, state'[j] = Candidate
                 PROVE  ~ElectedBy(j, currentTerm[j])'
      BY DEF CandidatesFit
    <2>1. PICK t \in Nat : t = currentTerm[j] /\ t = currentTerm'[j]
      BY <1>5, <1>7 DEF TypeOK, ServerTypes
    <2>2. ~ElectedBy(j, t)
      BY <1>11, <2>1 DEF Inv, CandidatesFit
    <2>3. ~ElectedBy(j, t)'
      BY <1>6, <1>11, <2>2
    <2> QED
      BY <2>1, <2>3
  <1>14. LeadersFit(L1, A1)'
    <2> SUFFICES ASSUME NEW j \in Server, state'[j] = Leader
                 PROVE  LeaderFits(L1, A1, j)'
      BY DEF LeadersFit
    <2>1. CASE j = i
      <3>1. PICK n : n = LastIndex(i) /\ n = LastIndex(i)'
        BY <1>2, <1>7 DEF EndKept
      <3>2. Len(L1[T]) = n /\ A1[i][T] = n /\ Holds(L1, i, T, n)'
        BY <1>3, <1>4, <3>1 DEF Crowned, Gives
      <3>3. \A p \in Server \ {i} : matchIndex'[i][p] <= A1[p][T]
        <4>1. \A p \in Server : A1[p][T] \in Nat
          BY <1>2, <1>5, GhostFacts
        <4> QED
          BY <1>7, <4>1
      <3>4. currentTerm'[i] = T /\ ElectedBy(i, T)'
        BY <1>1, <1>6, <1>7
      <3> QED
        BY <2>1, <3>1, <3>2, <3>3, <3>4 DEF LeaderFits
    <2>2. CASE j # i
      <3>1. LeaderFits(L, A, j)
        BY <1>7, <2>2 DEF Inv, LeadersFit
      <3>2. currentTerm[j] # T
        BY <1>2, <3>1 DEF LeaderFits, Elected
      <3> QED
        BY <1>2, <1>4, <1>5, <1>7, <2>2, <3>1, <3>2, RisingLeader
    <2> QED
      BY <2>1, <2>2
  <1>15. CallsFit(L1, A1)'
    <2> SUFFICES ASSUME NEW r \in rpcs PROVE CallFits(L1, A1, r)'
      BY <1>7 DEF CallsFit
    <2>1. CallFits(L, A, r) /\ r.from \in Server
      BY <1>5, RpcKinds DEF Inv, CallsFit, TypeOK
    <2>2. ASSUME state'[r.from] = Candidate
          PROVE  state[r.from] = Candidate /\ currentTerm'[r.from] = currentTerm[r.from]
                 /\ EndKept(r.from)
      BY <1>7, <1>11, <2>1, <2>2
    <2> QED
      BY <1>5, <1>6, <2>1, <2>2, CallFitsStays
  <1>16. Ranges'
    <2> SUFFICES ASSUME NEW j \in Server PROVE InRange(j)'
      BY DEF Ranges
    <2>1. /\ InRange(j) /\ LastIndex(j)' = LastIndex(j) /\ LastIndex(i) \in Nat
      BY <1>2, <1>5, <1>7, LastTermIs DEF Inv, Ranges, EndKept
    <2>2. /\ \A p \in Server : nextIndex'[j][p] >= 1
          /\ state'[j] = Leader => \A p \in Server \ {j} : nextIndex'[j][p] <= LastIndex(j) + 1
      <3>1. CASE j = i
        BY <1>7, <2>1, <3>1
      <3>2. CASE j # i
        BY <1>7, <2>1, <3>2 DEF InRange
      <3> QED
        BY <3>1, <3>2
    <2> QED
      BY <1>7, <2>1, <2>2 DEF InRange, PollKeeps, logVars, commitVars, applyVars
  <1> QED
    BY <1>8, <1>9, <1>10, <1>12, <1>13, <1>14, <1>15, <1>16 DEF Inv

-----------------------------------------------------------------------------
(* A command is submitted.                                                 *)

\* What the ghosts are when the leader i of term T has appended an entry e.
Submitted(T, c) == [term |-> T, command |-> c]
Extended(L, A, L1, A1, i, T, e) ==
  /\ Gives(L, A, L1, A1, i, T)
  /\ Len(L1[T]) = LastIndex(i) + 1 /\ L1[T][LastIndex(i) + 1] = e
  /\ Agree(L1[T], L[T], Len(L[T]))

LEMMA ExtendedExists ==
  ASSUME Base, NEW L, NEW A, Inv(L, A), NEW i \in Server, state[i] = Leader,
         NEW T, T = currentTerm[i], NEW e \in Entry
  PROVE  T \in Nat /\ \E L1, A1 : Extended(L, A, L1, A1, i, T, e)
  <1>1. /\ T \in Nat /\ Ghosts(L, A)
    BY DEF Base, TypeOK, ServerTypes, Inv
  <1>2. Len(L[T]) = LastIndex(i)
    BY <1>1, LeaderLog
  <1>3. PICK F \in Seq(Entry) : F = L[T]
    BY <1>1 DEF Ghosts
  <1> DEFINE G == Append(F, e)
             n == Len(F)
  <1>4. /\ G \in Seq(Entry) /\ Len(G) = n + 1 /\ n \in Nat
        /\ \A x \in 1 .. n : G[x] = F[x]
        /\ G[n + 1] = e
    BY <1>3, AppendProperties, LenProperties
  <1> HIDE DEF G
  <1>5. PICK L1, A1 : Gives(L, A, L1, A1, i, T) /\ L1[T] = G
    BY <1>1, <1>4, GhostsGiven, SMTT(20)
  <1>6. Agree(G, F, n)
    BY <1>4 DEF Agree
  <1> QED
    BY <1>1, <1>2, <1>3, <1>4, <1>5, <1>6 DEF Extended

LEMMA StartKeeps ==
  ASSUME NEW i, NEW c, Start(i, c)
  PROVE  /\ UNCHANGED <<currentTerm, state, tally, nextIndex, matchIndex, commitIndex, chosen>>
         /\ UNCHANGED <<lastIncludedIndex, lastIncludedTerm, lastApplied, applier, sm, readerAt>>
  BY DEF Start, serverVars, leaderVars, commitVars, electionVars, applyVars

LEMMA StartFacts ==
  ASSUME TypeOK, TypeOK', NEW i \in Server, NEW c \in Command, Start(i, c)
  PROVE  /\ Submitted(currentTerm[i], c) \in Entry /\ log'[i] \in Logs
         /\ Len(log'[i]) = Len(log[i]) + 1
         /\ \A k \in 1 .. Len(log[i]) : log'[i][k] = log[i][k]
         /\ log'[i][Len(log[i]) + 1] = Submitted(currentTerm[i], c)
         /\ LastTerm(i)' = currentTerm[i] /\ LastIndex(i)' = LastIndex(i) + 1
         /\ \A j \in Server \ {i} : log'[j] = log[j] /\ EndKept(j)
  <1>0. PICK e : e = Submitted(currentTerm[i], c)
    OBVIOUS
  <1>1. e \in Entry /\ e.term = currentTerm[i]
    BY <1>0 DEF Submitted, Entry, TypeOK, ServerTypes
  <1>2. /\ log[i] \in Seq(Entry) /\ Len(log[i]) \in Nat \ {0}
        /\ lastIncludedIndex[i] \in Nat /\ LastIndex(i) = lastIncludedIndex[i] + Len(log[i]) - 1
    BY LastTermIs DEF TypeOK, LogTypes, Logs
  <1>3. /\ UNCHANGED lastIncludedIndex
        /\ log' = [log EXCEPT ![i] = Append(@, e)]
    BY <1>0 DEF Start, Submitted
  <1>4. /\ log'[i] = Append(log[i], e)
        /\ \A j \in Server \ {i} : log'[j] = log[j]
        /\ log'[i] \in Logs
    BY <1>3 DEF TypeOK, LogTypes
  <1>5. /\ Len(log'[i]) = Len(log[i]) + 1
        /\ \A k \in 1 .. Len(log[i]) : log'[i][k] = log[i][k]
        /\ log'[i][Len(log[i]) + 1] = e
    BY <1>1, <1>2, <1>4, AppendProperties
  <1>6. LastTerm(i)' = currentTerm[i]
    BY <1>1, <1>5 DEF LastTerm
  <1>7. LastIndex(i)' = LastIndex(i) + 1
    BY <1>2, <1>3, <1>5 DEF LastIndex
  <1>8. \A j \in Server \ {i} : EndKept(j)
    BY <1>3, <1>4 DEF EndKept, LastTerm, LastIndex
  <1> QED
    BY <1>0, <1>1, <1>4, <1>5, <1>6, <1>7, <1>8

LEMMA StartRises ==
  ASSUME Base, TypeOK', NEW L, NEW A, Inv(L, A), NEW i \in Server, NEW c \in Command, Start(i, c),
         NEW T, T = currentTerm[i], NEW e, e = Submitted(T, c),
         NEW L1, NEW A1, Extended(L, A, L1, A1, i, T, e)
  PROVE  Rises(L, A, L1, A1, T) /\ T \in Nat /\ Holds(L1, i, T, LastIndex(i))'
  <1>1. /\ state[i] = Leader /\ e.term = T
        /\ UNCHANGED <<currentTerm, state, tally, chosen>>
        /\ LastTerm(i)' = T /\ LastIndex(i)' = LastIndex(i) + 1
        /\ \A j \in Server \ {i} : EndKept(j)
    <2>1. UNCHANGED <<currentTerm, state, tally, chosen>>
      BY StartKeeps
    <2>2. state[i] = Leader /\ e.term = T
      BY DEF Start, Submitted
    <2>3. /\ LastTerm(i)' = T /\ LastIndex(i)' = LastIndex(i) + 1
          /\ \A j \in Server \ {i} : EndKept(j)
      BY StartFacts DEF Base
    <2> QED
      BY <2>1, <2>2, <2>3
  <1>2. /\ T \in Nat /\ Ghosts(L, A) /\ Ghosts(L1, A1) /\ TypeOK
        /\ LastIndex(i) \in Nat
    BY LastTermIs DEF Inv, Extended, Gives, Base, TypeOK, ServerTypes
  <1>3. /\ \A U \in Nat \ {T} : L1[U] = L[U] /\ \A q \in Server : A1[q][U] = A[q][U]
        /\ \A q \in Server \ {i} : A1[q][T] = A[q][T]
        /\ A1[i][T] = LastIndex(i) + 1
    BY DEF Extended, Gives
  <1>4. /\ A[i][T] = LastIndex(i) /\ Len(L[T]) = LastIndex(i)
        /\ Holds(L, i, T, LastIndex(i))
    BY <1>1 DEF Inv, LeadersFit, LeaderFits
  <1>5. Grow(L, A, L1, A1)
    <2>1. ASSUME NEW U \in Nat
          PROVE  Agree(L1[U], L[U], Len(L[U]))
      <3>1. CASE U = T
        BY <3>1 DEF Extended
      <3>2. CASE U # T
        <4>1. L1[U] = L[U] /\ Len(L[U]) \in Nat
          BY <1>2, <1>3, <3>2, GhostFacts
        <4> QED
          BY <4>1 DEF Agree
      <3> QED
        BY <3>1, <3>2
    <2>2. ASSUME NEW q \in Server, NEW t \in Nat
          PROVE  A1[q][t] >= A[q][t] /\ (A1[q][t] # A[q][t] => currentTerm[q] <= t)
      <3>1. A[q][t] \in Nat /\ A1[q][t] \in Nat /\ T <= T
        BY <1>2, GhostFacts
      <3>2. CASE q = i /\ t = T
        BY <1>2, <1>3, <1>4, <3>1, <3>2
      <3>3. CASE ~(q = i /\ t = T)
        <4>1. A1[q][t] = A[q][t]
          BY <1>2, <1>3, <3>3
        <4> QED
          BY <3>1, <4>1
      <3> QED
        BY <3>2, <3>3
    <2>3. /\ \A q \in Server : currentTerm'[q] >= currentTerm[q]
          /\ chosen \subseteq chosen'
      BY <1>1 DEF Base, TypeOK, ServerTypes
    <2> QED
      BY <1>2, <2>1, <2>2, <2>3 DEF Grow
  <1>6. Holds(L1, i, T, LastIndex(i))'
    <2>1. PICK x \in Nat : x = LastIndex(i) + 1 /\ x = LastIndex(i)' /\ x = Len(L1[T])
      BY <1>1, <1>2 DEF Extended
    <2>2. Agree(L1[T], L1[T], x)
      BY <2>1 DEF Agree
    <2>3. LastTerm(i)' = T /\ x <= x
      BY <1>1, <2>1
    <2> QED
      BY <2>1, <2>2, <2>3 DEF Holds
  <1>7. HoldsGoOn(L, L1)
    <2> SUFFICES ASSUME NEW q \in Server, NEW t \in Nat, NEW n \in Nat, Holds(L, q, t, n)
                 PROVE  Holds(L1, q, t, n)'
      BY DEF HoldsGoOn
    <2>1. PICK u, x \in Nat : u = LastTerm(q) /\ x = LastIndex(q)
      BY <1>2, LastTermIs
    <2>2. n <= x /\ Agree(L[u], L[t], n)
      BY <2>1 DEF Holds
    <2>3. CASE q # i
      <3>1. Agree(L1[u], L1[t], n)
        BY <1>2, <1>5, <2>2, AgreeGrows
      <3> QED
        BY <1>1, <2>1, <2>2, <2>3, <3>1 DEF Holds, EndKept
    <2>4. CASE q = i
      <3>1. Agree(L[u], L[T], x) /\ Len(L[u]) \in Nat /\ Len(L[T]) \in Nat
        BY <1>2, <1>4, <2>1, <2>4, GhostFacts DEF Holds
      <3>2. Agree(L[T], L[u], n)
        BY <2>2, <3>1, AgreeLess, AgreeSym
      <3>3. Agree(L1[T], L1[t], n)
        BY <1>2, <1>5, <2>2, <3>2, AgreeTrans, AgreeGrows
      <3>4. n <= LastIndex(i)' /\ LastTerm(i)' = T
        BY <1>1, <2>1, <2>2, <2>4
      <3> QED
        BY <2>4, <3>3, <3>4 DEF Holds
    <2> QED
      BY <2>3, <2>4
  <1>8. ASSUME NEW q \in Server, NEW t \in Nat, A1[q][t] # A[q][t]
        PROVE  currentTerm'[q] = t /\ Holds(L1, q, t, A1[q][t])'
    <2>1. q = i /\ t = T
      BY <1>2, <1>3, <1>8
    <2>2. PICK n : n = LastIndex(i)'
      OBVIOUS
    <2>3. A1[i][T] = n
      BY <1>1, <1>3, <2>2
    <2>4. Holds(L1, i, T, n)'
      BY <1>6, <2>2
    <2> QED
      BY <1>1, <2>1, <2>3, <2>4
  <1>9. (\A j \in Server, t \in Nat : ElectedBy(j, t) => ElectedBy(j, t)') /\ FewerVotes
    <2>1. SameElected
      BY <1>1, SameTallies
    <2>2. Quiet
      BY QuietActions DEF Base
    <2> QED
      BY <1>2, <2>1, <2>2, QuietRoles DEF SameElected
  <1> QED
    BY <1>2, <1>3, <1>5, <1>6, <1>7, <1>8, <1>9 DEF Rises

LEMMA StartCoherent ==
  ASSUME NEW L, NEW A, NEW L1, NEW A1, NEW T \in Nat, Ghosts(L, A), Coherent(L),
         Rises(L, A, L1, A1, T), NEW i \in Server, ElectedBy(i, T), T >= 1,
         Len(L1[T]) = Len(L[T]) + 1, L1[T][Len(L[T]) + 1].term = T
  PROVE  Coherent(L1)'
  <1> SUFFICES ASSUME NEW U \in Nat
               PROVE  /\ Len(L1[U]) > 0 => Elected(U)'
                      /\ \A x \in 1 .. Len(L1[U]) :
                           /\ L1[U][x].term >= 1 /\ L1[U][x].term <= U
                           /\ Agree(L1[U], L1[L1[U][x].term], x)
    BY DEF Coherent, Agree
  <1>1. /\ \A j \in Server, t \in Nat : ElectedBy(j, t) => ElectedBy(j, t)'
        /\ Len(L[U]) \in Nat
    BY GhostFacts DEF Rises
  <1>2. \A x \in 1 .. Len(L[U]) : /\ L1[U][x].term >= 1 /\ L1[U][x].term <= U
                                  /\ Agree(L1[U], L1[L1[U][x].term], x)
    BY RisingCoherent
  <1>3. CASE U # T
    <2>1. L1[U] = L[U]
      BY <1>3 DEF Rises
    <2>2. Len(L1[U]) > 0 => Elected(U)'
      BY <1>1, <2>1 DEF Coherent, Elected
    <2> QED
      BY <1>2, <2>1, <2>2
  <1>4. CASE U = T
    <2>1. Elected(U)'
      BY <1>1, <1>4 DEF Elected
    <2>2. ASSUME NEW x \in 1 .. Len(L1[U])
          PROVE  /\ L1[U][x].term >= 1 /\ L1[U][x].term <= U
                 /\ Agree(L1[U], L1[L1[U][x].term], x)
      <3>1. CASE x \in 1 .. Len(L[U])
        BY <1>2, <3>1
      <3>2. CASE x = Len(L[U]) + 1
        <4>1. L1[U][x].term = T /\ x <= Len(L1[U])
          BY <1>4, <2>2, <3>2
        <4> QED
          BY <1>4, <4>1 DEF Agree
      <3> QED
        BY <1>1, <1>4, <2>2, <3>1, <3>2
    <2> QED
      BY <2>1, <2>2
  <1> QED
    BY <1>3, <1>4

\* The entry just appended cannot be committed when a later leader exists: half
\* the servers would have to be still in this term or hold it already.
LEMMA StartBeyond ==
  ASSUME Base, TypeOK', NEW L, NEW A, Inv(L, A), NEW L1, NEW A1, NEW T \in Nat,
         Rises(L, A, L1, A1, T), NEW i \in Server, T = currentTerm[i], UNCHANGED currentTerm,
         \A j \in Server, t \in Nat : ElectedBy(j, t)' <=> ElectedBy(j, t),
         \A q \in Server \ {i} : A1[q][T] = A[q][T]
  PROVE  Beyond(L1, A1)'
  <1> SUFFICES ASSUME NEW t \in Nat, NEW U \in Nat, NEW n \in Nat, t < U,
                      Elected(U)', Choosable(L1, A1, t, n)'
               PROVE  Agree(L1[U], L1[t], n)
    BY DEF Beyond, Agree
  <1>1. Elected(U) /\ Ghosts(L, A) /\ Ghosts(L1, A1) /\ TypeOK
    BY DEF Elected, Inv, Rises, Grow, Base
  <1>2. Len(L[t]) \in Nat
    BY <1>1, GhostFacts
  <1>3. CASE n <= Len(L[t])
    BY <1>1, <1>3, RisingBeyond DEF Inv
  <1>4. CASE n > Len(L[t])
    <2>1. n \in 1 .. Len(L1[t])
      BY DEF Choosable, OwnEntry
    <2>2. t = T
      <3> SUFFICES ASSUME t # T PROVE FALSE
        OBVIOUS
      <3>1. L1[t] = L[t]
        BY DEF Rises
      <3> QED
        BY <1>2, <1>4, <2>1, <3>1
    <2>3. PICK Q \in SUBSET Server : Half(Q) /\ \A q \in Q : A1[q][t] >= n \/ currentTerm'[q] <= t
      BY DEF Choosable, Half
    <2>4. PICK k \in Server : ElectedBy(k, U)
      BY <1>1 DEF Elected
    <2>5. PICK S \in SUBSET Server : Majority(S) /\ \A q \in S : currentTerm[q] >= U
      BY <2>4, Electors
    <2>6. PICK q \in Server : q \in Q /\ q \in S
      BY <2>3, <2>5, HalfMeets
    <2>7. currentTerm[q] >= U /\ currentTerm[q] \in Nat /\ currentTerm'[q] = currentTerm[q]
      BY <1>1, <2>5, <2>6 DEF TypeOK, ServerTypes
    <2>8. q # i
      BY <2>2, <2>7
    <2>9. A1[q][T] = A[q][T] /\ A[q][T] <= Len(L[T]) /\ A[q][T] \in Nat
      BY <1>1, <2>8, GhostFacts DEF Inv, Acks
    <2>10. A1[q][t] >= n
      BY <2>3, <2>6, <2>7
    <2> QED
      BY <1>2, <1>4, <2>2, <2>9, <2>10
  <1> QED
    BY <1>2, <1>3, <1>4

LEMMA StartFits ==
  ASSUME Base, TypeOK', NEW L, NEW A, Inv(L, A), NEW i \in Server, NEW c \in Command, Start(i, c),
         NEW T, T = currentTerm[i], NEW e, e = Submitted(T, c),
         NEW L1, NEW A1, Extended(L, A, L1, A1, i, T, e)
  PROVE  /\ Fits(L1[T], lastIncludedIndex[i], log'[i])
         /\ lastIncludedIndex[i] + Len(log'[i]) - 1 = Len(L1[T])
  <1> DEFINE b == lastIncludedIndex[i]
             n == Len(log[i])
  <1>1. /\ Len(log'[i]) = Len(log[i]) + 1 /\ log'[i][Len(log[i]) + 1] = e
        /\ \A k \in 1 .. Len(log[i]) : log'[i][k] = log[i][k]
    BY StartFacts DEF Base
  <1>2. state[i] = Leader /\ T \in Nat
    BY DEF Start, Base, TypeOK, ServerTypes
  <1>3. Len(L[T]) = LastIndex(i) /\ Fits(L[T], b, log[i])
    BY <1>2, LeaderLog
  <1>4. b \in Nat /\ n \in Nat \ {0} /\ LastIndex(i) = b + n - 1 /\ LastIndex(i) \in Nat
    BY LastTermIs DEF Base
  <1>5. /\ Len(L1[T]) = b + n /\ L1[T][b + n] = e
        /\ \A x \in 1 .. b + n - 1 : L1[T][x] = L[T][x]
    <2>1. LastIndex(i) + 1 = b + n
      BY <1>4
    <2>2. /\ Len(L1[T]) = LastIndex(i) + 1 /\ L1[T][LastIndex(i) + 1] = e
          /\ Agree(L1[T], L[T], Len(L[T]))
      BY DEF Extended
    <2> QED
      BY <1>3, <1>4, <2>1, <2>2 DEF Agree
  <1>6. /\ log[i][1].term = TermOf(L[T], b)
        /\ \A k \in 2 .. n : log[i][k] = L[T][b + k - 1]
    BY <1>3 DEF Fits
  <1> HIDE DEF b, n
  <1>7. log'[i][1].term = TermOf(L1[T], b)
    <2>1. 1 \in 1 .. n
      BY <1>4
    <2>2. log'[i][1] = log[i][1]
      BY <1>1, <2>1 DEF n
    <2>3. b = 0 \/ b \in 1 .. b + n - 1
      BY <1>4
    <2> QED
      BY <1>5, <1>6, <2>2, <2>3 DEF TermOf
  <1>8. ASSUME NEW k \in 2 .. n + 1
        PROVE  log'[i][k] = L1[T][b + k - 1]
    <2>1. CASE k = n + 1
      <3>1. b + k - 1 = b + n
        BY <1>4, <2>1
      <3> QED
        BY <1>1, <1>5, <2>1, <3>1 DEF n
    <2>2. CASE k # n + 1
      <3>1. k \in 2 .. n /\ k \in 1 .. n /\ b + k - 1 \in 1 .. b + n - 1
        BY <1>4, <2>2
      <3>2. log'[i][k] = log[i][k]
        BY <1>1, <3>1 DEF n
      <3> QED
        BY <1>5, <1>6, <3>1, <3>2
    <2> QED
      BY <2>1, <2>2
  <1>9. Len(log'[i]) = n + 1
    BY <1>1 DEF n
  <1>10. b + Len(log'[i]) - 1 = Len(L1[T]) /\ Len(L1[T]) \in Nat
    BY <1>4, <1>5, <1>9
  <1> QED
    BY <1>7, <1>8, <1>9, <1>10 DEF Fits, b

LEMMA LeaderTerm ==
  ASSUME Base, NEW i \in Server, NEW T, T = currentTerm[i], ElectedBy(i, T)
  PROVE  T \in Nat /\ T >= 1
  <1>1. T \in Nat
    BY DEF Base, TypeOK, ServerTypes
  <1>2. PICK e \in 1 .. MaxTerm : tally[i][e].votes # {}
    BY DEF ElectedBy
  <1>3. ~(e > T)
    BY <1>2 DEF Base, ElectionInv, TalliesMatch
  <1> QED
    BY <1>1, <1>2, <1>3

LEMMA StartLeads ==
  ASSUME Base, TypeOK', NEW L, NEW A, Inv(L, A), NEW i \in Server, NEW c \in Command, Start(i, c),
         NEW T, T = currentTerm[i], NEW e, e = Submitted(T, c),
         NEW L1, NEW A1, Extended(L, A, L1, A1, i, T, e), Rises(L, A, L1, A1, T),
         Holds(L1, i, T, LastIndex(i))'
  PROVE  LeadersFit(L1, A1)'
  <1> SUFFICES ASSUME NEW j \in Server, state'[j] = Leader
               PROVE  LeaderFits(L1, A1, j)'
    BY DEF LeadersFit
  <1>1. UNCHANGED <<currentTerm, state, tally, matchIndex>> /\ state[i] = Leader
    BY StartKeeps DEF Start
  <1>2. LastIndex(i)' = LastIndex(i) + 1 /\ \A k \in Server \ {i} : EndKept(k)
    BY StartFacts DEF Base
  <1>3. LeaderFits(L, A, i) /\ LeaderFits(L, A, j) /\ T \in Nat
    BY <1>1 DEF Inv, LeadersFit, Base, TypeOK, ServerTypes
  <1>4. \A k \in Server, t \in Nat : ElectedBy(k, t) => ElectedBy(k, t)'
    BY DEF Rises
  <1>5. CASE j = i
    <2>1. PICK n : n = LastIndex(i)'
      OBVIOUS
    <2>2. Len(L1[T]) = n /\ A1[i][T] = n /\ Holds(L1, i, T, n)'
      BY <1>2, <2>1 DEF Extended, Gives
    <2>3. \A p \in Server \ {i} : matchIndex'[i][p] <= A1[p][T]
      BY <1>1, <1>3 DEF LeaderFits, Extended, Gives
    <2>4. currentTerm'[i] = T /\ ElectedBy(i, T)'
      BY <1>1, <1>3, <1>4 DEF LeaderFits
    <2> QED
      BY <1>5, <2>1, <2>2, <2>3, <2>4 DEF LeaderFits
  <1>6. CASE j # i
    <2>1. currentTerm[j] # T
      BY <1>3, <1>6, ElectedOnce DEF LeaderFits
    <2>2. currentTerm'[j] = currentTerm[j] /\ matchIndex'[j] = matchIndex[j] /\ EndKept(j)
      BY <1>1, <1>2, <1>6
    <2>3. Ghosts(L, A) /\ TypeOK
      BY DEF Inv, Base
    <2> QED
      BY <1>3, <2>1, <2>2, <2>3, RisingLeader
  <1> QED
    BY <1>5, <1>6

LEMMA StartPlaces ==
  ASSUME Base, TypeOK', NEW L, NEW A, Inv(L, A), NEW i \in Server, NEW c \in Command, Start(i, c),
         NEW T, T = currentTerm[i], NEW e, e = Submitted(T, c),
         NEW L1, NEW A1, Extended(L, A, L1, A1, i, T, e), Rises(L, A, L1, A1, T)
  PROVE  LogsFit(L1)' /\ Seals(L1, A1)' /\ Ranges'
  <1>1. UNCHANGED <<currentTerm, state, nextIndex, commitIndex, lastIncludedIndex,
                    lastIncludedTerm, lastApplied, applier, sm, readerAt>>
    BY StartKeeps
  <1>2. /\ LastTerm(i)' = T /\ LastIndex(i)' = LastIndex(i) + 1
        /\ \A j \in Server \ {i} : log'[j] = log[j] /\ EndKept(j)
        /\ \A k \in 1 .. Len(log[i]) : log'[i][k] = log[i][k]
    BY StartFacts DEF Base
  <1>3. /\ Ghosts(L, A) /\ TypeOK /\ Grow(L, A, L1, A1) /\ T \in Nat /\ state[i] = Leader
        /\ LastIndex(i) \in Nat /\ Len(log[i]) \in Nat \ {0}
    BY LastTermIs DEF Inv, Base, Rises, Start, TypeOK, ServerTypes
  <1>4. LogsFit(L1)'
    <2> SUFFICES ASSUME NEW j \in Server PROVE LogFits(L1, j)'
      BY DEF LogsFit
    <2>1. CASE j # i
      <3>1. log'[j] = log[j] /\ lastIncludedIndex'[j] = lastIncludedIndex[j] /\ LogFits(L, j)
        BY <1>1, <1>2, <2>1 DEF Inv, LogsFit
      <3> QED
        BY <1>3, <3>1, LogFitsStays
    <2>2. CASE j = i
      <3>1. Fits(L1[T], lastIncludedIndex[i], log'[i])
        BY StartFits
      <3>2. LastTerm(i)' <= currentTerm'[i]
        BY <1>1, <1>2, <1>3
      <3> QED
        BY <1>1, <1>2, <2>2, <3>1, <3>2 DEF LogFits, Fits
    <2> QED
      BY <2>1, <2>2
  <1>5. Seals(L1, A1)'
    <2> SUFFICES ASSUME NEW j \in Server PROVE Seal(L1, A1, j)'
      BY DEF Seals
    <2>1. Seal(L, A, j) /\ commitIndex[j] \in Nat /\ lastIncludedIndex[j] \in Nat
      BY <1>3 DEF Inv, Seals, TypeOK, CommitTypes, LogTypes
    <2>2. CASE j # i
      <3>1. EndKept(j) /\ lastIncludedIndex'[j] <= commitIndex'[j] /\ commitIndex'[j] <= commitIndex[j]
        BY <1>1, <1>2, <2>1, <2>2 DEF Seal
      <3> QED
        BY <1>3, <2>1, <3>1, SealStays
    <2>3. CASE j = i
      <3>1. Sealed(L, A, T, T, commitIndex[i])
        BY <1>3, LeaderLog
      <3>2. PICK x \in Nat : x = commitIndex[i] /\ x = commitIndex'[i]
        BY <1>1, <2>1, <2>3
      <3>3. Sealed(L1, A1, T, T, x)'
        BY <1>3, <3>1, <3>2, SealedGrows
      <3>4. commitIndex'[i] <= LastIndex(i)' /\ lastIncludedIndex'[i] <= commitIndex'[i]
        BY <1>1, <1>2, <1>3, <2>1, <2>3 DEF Seal
      <3>5. currentTerm'[i] = T
        BY <1>1
      <3> QED
        BY <1>2, <2>3, <3>2, <3>3, <3>4, <3>5 DEF Seal
    <2> QED
      BY <2>2, <2>3
  <1>6. Ranges'
    <2> SUFFICES ASSUME NEW j \in Server PROVE InRange(j)'
      BY DEF Ranges
    <2>1. InRange(j)
      BY DEF Inv, Ranges
    <2>2. PersistIf(TRUE, i)
      BY DEF Start
    <2>3. persister'[j].snapshot = persister[j].snapshot
      BY <1>3, <2>2, SameSnapshots DEF TypeOK
    <2>4. log'[j][1].term = log[j][1].term
      <3>1. 1 \in 1 .. Len(log[i])
        BY <1>3
      <3> QED
        BY <1>2, <3>1
    <2>5. state'[j] = Leader => \A p \in Server \ {j} : nextIndex'[j][p] <= LastIndex(j)' + 1
      <3>1. state'[j] = Leader => \A p \in Server \ {j} : nextIndex[j][p] <= LastIndex(j) + 1
        BY <1>1, <2>1 DEF InRange
      <3>2. LastIndex(j) \in Nat /\ \A p \in Server : nextIndex[j][p] \in Nat
        BY <1>3, LastTermIs DEF TypeOK, LeaderTypes
      <3>3. LastIndex(j)' = LastIndex(j) \/ LastIndex(j)' = LastIndex(j) + 1
        BY <1>2 DEF EndKept
      <3> QED
        BY <1>1, <3>1, <3>2, <3>3
    <2> QED
      BY <1>1, <2>1, <2>3, <2>4, <2>5 DEF InRange
  <1> QED
    BY <1>4, <1>5, <1>6

LEMMA LogAtStart ==
  ASSUME Base, TypeOK', NEW L, NEW A, Inv(L, A), NEW i \in Server, NEW c \in Command, Start(i, c)
  PROVE  \E L1, A1 : Inv(L1, A1)'
  <1>1. PICK T, e : T = currentTerm[i] /\ e = Submitted(T, c)
    OBVIOUS
  <1>2. e \in Entry /\ e.term = T /\ state[i] = Leader /\ log'[i] \in Logs
    BY <1>1, StartFacts DEF Base, Start, Submitted
  <1>3. PICK L1, A1 : Extended(L, A, L1, A1, i, T, e)
    BY <1>1, <1>2, ExtendedExists
  <1>4. Rises(L, A, L1, A1, T) /\ T \in Nat /\ Holds(L1, i, T, LastIndex(i))'
    BY <1>1, <1>3, StartRises
  <1>5. Grow(L, A, L1, A1) /\ Ghosts(L, A) /\ Ghosts(L1, A1) /\ TypeOK
    BY <1>4 DEF Rises, Inv, Base, Grow
  <1>6. UNCHANGED <<currentTerm, state, tally, chosen>>
    BY StartKeeps
  <1>7. \A j \in Server, t \in Nat : ElectedBy(j, t)' <=> ElectedBy(j, t)
    BY <1>6, SameTallies DEF SameElected
  <1>8. /\ ElectedBy(i, T) /\ T >= 1 /\ Len(L1[T]) = Len(L[T]) + 1
        /\ L1[T][Len(L[T]) + 1].term = T
    <2>1. ElectedBy(i, T) /\ Len(L[T]) = LastIndex(i)
      BY <1>1, <1>2, <1>4, LeaderLog
    <2>2. T >= 1
      BY <1>1, <2>1, LeaderTerm
    <2>3. Len(L1[T]) = LastIndex(i) + 1 /\ L1[T][LastIndex(i) + 1] = e
      BY <1>3 DEF Extended
    <2> QED
      BY <1>2, <2>1, <2>2, <2>3
  <1>9. Coherent(L1)'
    BY <1>4, <1>5, <1>8, StartCoherent DEF Inv
  <1>10. Beyond(L1, A1)'
    BY <1>1, <1>3, <1>4, <1>6, <1>7, StartBeyond DEF Extended, Gives
  <1>11. Acks(L1, A1)' /\ AckKeeps(L1, A1)'
    BY <1>4, <1>5, RisingAcks, RisingAckKeeps DEF Inv
  <1>12. Ballots(L1, A1)'
    BY <1>4, <1>5, <1>6, RisingBallots DEF Inv
  <1>13. CandidatesFit'
    <2>1. SameElected /\ SameRoles
      BY <1>6, <1>7 DEF SameElected, SameRoles
    <2> QED
      BY <1>5, <2>1, CandidatesStep DEF Inv
  <1>14. LeadersFit(L1, A1)'
    BY <1>1, <1>3, <1>4, StartLeads
  <1>15. LogsFit(L1)' /\ Seals(L1, A1)' /\ Ranges'
    BY <1>1, <1>3, <1>4, StartPlaces
  <1>16. Chosens(L1, A1)'
    BY <1>5, <1>6, ChosensStay DEF Inv
  <1>17. CallsFit(L1, A1)'
    <2>1. /\ Fits(L1[T], lastIncludedIndex[i], log'[i])
          /\ lastIncludedIndex[i] + Len(log'[i]) - 1 = Len(L1[T])
      <3>1. T = currentTerm[i] /\ e = Submitted(T, c) /\ Extended(L, A, L1, A1, i, T, e)
        BY <1>1, <1>3
      <3>2. Fits(L1[T], lastIncludedIndex[i], log'[i])
        BY <3>1, StartFits
      <3>3. lastIncludedIndex[i] + Len(log'[i]) - 1 = Len(L1[T])
        BY <3>1, StartFits
      <3> QED
        BY <3>2, <3>3
    <2>2. ElectedBy(i, T)' /\ Broadcast(i, log'[i])
      BY <1>4, <1>7, <1>8 DEF Start
    <2>3. PICK entries \in Logs : entries = log'[i]
      BY <1>2
    <2>4. \A m \in rpcs' : m \in rpcs \/ CallFits(L1, A1, m)'
      BY <1>1, <1>2, <1>4, <1>5, <2>1, <2>2, <2>3, BroadcastFits
    <2>5. ASSUME NEW m \in rpcs PROVE CallFits(L1, A1, m)'
      <3>1. CallFits(L, A, m) /\ m.from \in Server
        BY <1>5, RpcKinds DEF Inv, CallsFit, TypeOK
      <3>2. ASSUME state'[m.from] = Candidate
            PROVE  EndKept(m.from)
        <4>1. m.from # i
          BY <1>2, <1>6, <3>2 DEF Leader, Candidate
        <4> QED
          BY <3>1, <4>1, StartFacts DEF Base
      <3> QED
        BY <1>5, <1>6, <1>7, <3>1, <3>2, CallFitsStays
    <2> QED
      BY <2>4, <2>5 DEF CallsFit
  <1>18. Ghosts(L1, A1)'
    BY <1>5 DEF Ghosts
  <1> QED
    BY <1>9, <1>10, <1>11, <1>12, <1>13, <1>14, <1>15, <1>16, <1>17, <1>18 DEF Inv

-----------------------------------------------------------------------------
(* The invariant: there are ghosts that every step keeps in step.          *)

LogInv == \E L, A : Inv(L, A)

LEMMA LogInit == Init => LogInv
  <1> SUFFICES ASSUME Init PROVE LogInv
    OBVIOUS
  <1> DEFINE L0 == [T \in Nat |-> <<>>]
             A0 == [q \in Server |-> [t \in Nat |-> 0]]
  <1>1. \A T \in Nat : L0[T] = <<>> /\ Len(L0[T]) = 0
    BY EmptySeq
  <1>2. \A q \in Server, t \in Nat : A0[q][t] = 0
    OBVIOUS
  <1>3. Ghosts(L0, A0)
    <2>1. <<>> \in Seq(Entry)
      BY EmptySeq
    <2> QED
      BY <2>1 DEF Ghosts
  <1> HIDE DEF L0, A0
  <1>4. \A i \in Server :
          /\ currentTerm[i] = 0 /\ state[i] = Follower /\ log[i] = InitialLog
          /\ lastIncludedIndex[i] = 0 /\ lastIncludedTerm[i] = 0 /\ commitIndex[i] = 0
          /\ lastApplied[i] = 0 /\ readerAt[i] = 0 /\ applier[i] = Idle
          /\ \A p \in Server : nextIndex[i][p] = 1
    BY DEF Init
  <1>5. Len(InitialLog) = 1 /\ InitialLog[1].term = 0
    BY DEF InitialLog, Sentinel
  <1>6. \A i \in Server : /\ LastIndex(i) = 0 /\ LastTerm(i) = 0 /\ Len(log[i]) = 1
                          /\ log[i][1].term = 0
    <2> SUFFICES ASSUME NEW i \in Server
                 PROVE  /\ LastIndex(i) = 0 /\ LastTerm(i) = 0 /\ Len(log[i]) = 1
                        /\ log[i][1].term = 0
      OBVIOUS
    <2>1. log[i] = InitialLog /\ lastIncludedIndex[i] = 0
      BY <1>4
    <2>2. Len(log[i]) = 1 /\ log[i][1].term = 0
      BY <1>5, <2>1
    <2> QED
      BY <2>1, <2>2 DEF LastIndex, LastTerm
  <1>7. ASSUME NEW t \in Nat, NEW n
        PROVE  ~OwnEntry(L0, t, n)
    BY <1>1 DEF OwnEntry
  <1>8. \A t \in Nat : \A n : ~Choosable(L0, A0, t, n)
    BY <1>7 DEF Choosable
  <1>9. \A T \in Nat, U \in Nat : Agree(L0[T], L0[U], 0)
    BY <1>1 DEF Agree
  <1>10. Coherent(L0)
    BY <1>1 DEF Coherent
  <1>11. LogsFit(L0)
    <2> SUFFICES ASSUME NEW i \in Server PROVE LogFits(L0, i)
      BY DEF LogsFit
    <2>1. Len(L0[0]) = 0
      BY <1>1
    <2>2. Fits(L0[0], 0, log[i])
      <3>1. Len(log[i]) = 1 /\ log[i][1].term = 0
        BY <1>6
      <3>2. 0 + Len(log[i]) - 1 <= Len(L0[0]) /\ 2 .. Len(log[i]) = {}
        BY <2>1, <3>1
      <3> QED
        BY <3>1, <3>2 DEF Fits, TermOf
    <2> QED
      BY <1>4, <1>6, <2>2 DEF LogFits
  <1>12. LeadersFit(L0, A0) /\ CandidatesFit /\ Ballots(L0, A0)
    BY <1>4 DEF LeadersFit, CandidatesFit, Ballots, Leader, Candidate, Follower
  <1>13. Acks(L0, A0)
    <2> SUFFICES ASSUME NEW q \in Server, NEW t \in Nat
                 PROVE  /\ A0[q][t] <= Len(L0[t])
                        /\ (A0[q][t] > 0 => t <= currentTerm[q])
                        /\ currentTerm[q] = t => Holds(L0, q, t, A0[q][t])
      BY DEF Acks
    <2>1. Holds(L0, q, t, 0)
      BY <1>6, <1>9 DEF Holds
    <2> QED
      BY <1>1, <1>2, <2>1
  <1>14. AckKeeps(L0, A0) /\ Beyond(L0, A0)
    BY <1>8 DEF AckKeeps, Beyond
  <1>15. Chosens(L0, A0) /\ CallsFit(L0, A0)
    BY DEF Init, Chosens, CallsFit
  <1>16. Seals(L0, A0)
    BY <1>4, <1>6 DEF Seals, Seal, Sealed
  <1>17. Ranges
    BY <1>4, <1>6 DEF Ranges, InRange, Idle, Leader, Follower
  <1> QED
    BY <1>3, <1>10, <1>11, <1>12, <1>13, <1>14, <1>15, <1>16, <1>17 DEF LogInv, Inv

LEMMA LogUnmoved ==
  ASSUME NEW L, NEW A, Inv(L, A), UNCHANGED vars
  PROVE  Inv(L, A)'
  <1>1. UNCHANGED <<currentTerm, state, tally, chosen, log, lastIncludedIndex,
                    lastIncludedTerm, commitIndex, rpcs, nextIndex, matchIndex>>
        /\ UNCHANGED <<persister, sm, readerAt, applier, lastApplied>>
    BY DEF vars, serverVars, logVars, leaderVars, commitVars, electionVars, applyVars
  <1>2. \A i \in Server : \A T : ElectedBy(i, T)' <=> ElectedBy(i, T)
    BY <1>1 DEF ElectedBy
  <1>3. \A T : Elected(T)' <=> Elected(T)
    BY <1>2 DEF Elected
  <1>4. \A i : LastIndex(i)' = LastIndex(i) /\ LastTerm(i)' = LastTerm(i)
    BY <1>1 DEF LastIndex, LastTerm
  <1>5. \A i, t, n : Holds(L, i, t, n)' <=> Holds(L, i, t, n)
    BY <1>4 DEF Holds
  <1>6. \A t, n : (Choosable(L, A, t, n)' <=> Choosable(L, A, t, n))
                  /\ (Committed(L, A, t, n)' <=> Committed(L, A, t, n))
    BY <1>1 DEF Choosable, Committed, OwnEntry, Half
  <1>7. \A T, u, x : Sealed(L, A, T, u, x)' <=> Sealed(L, A, T, u, x)
    BY <1>6 DEF Sealed
  <1>8. Ghosts(L, A)' /\ Coherent(L)'
    BY <1>3 DEF Inv, Ghosts, Coherent
  <1>9. LogsFit(L)'
    BY <1>1, <1>4 DEF Inv, LogsFit, LogFits
  <1>10. LeadersFit(L, A)'
    BY <1>1, <1>2, <1>4, <1>5 DEF Inv, LeadersFit, LeaderFits
  <1>11. CandidatesFit' /\ Ranges'
    BY <1>1, <1>2, <1>4 DEF Inv, CandidatesFit, Ranges, InRange
  <1>12. Acks(L, A)' /\ AckKeeps(L, A)' /\ Beyond(L, A)'
    BY <1>1, <1>3, <1>5, <1>6 DEF Inv, Acks, AckKeeps, Beyond
  <1>13. Ballots(L, A)'
    BY <1>1, <1>5, <1>6 DEF Inv, Ballots, TermsVoted
  <1>14. Chosens(L, A)'
    BY <1>1, <1>6 DEF Inv, Chosens
  <1>15. Seals(L, A)'
    BY <1>1, <1>4, <1>7 DEF Inv, Seals, Seal
  <1>16. CallsFit(L, A)'
    <2>1. ASSUME NEW m \in rpcs
          PROVE  CallFits(L, A, m)'
      <3>1. m.from \in {m.from} /\ CallFits(L, A, m)
        BY DEF Inv, CallsFit
      <3>2. m.type = "AppendCall" => AppendCallFits(L, A, m)'
        BY <1>1, <1>7, <3>1 DEF CallFits, AppendCallFits, ElectedBy
      <3>3. m.type = "SnapshotCall" => SnapshotCallFits(L, A, m)'
        BY <1>1, <1>7, <3>1 DEF CallFits, SnapshotCallFits, ElectedBy
      <3>4. m.type = "VoteCall" => VoteCallFits(m)'
        BY <1>1, <1>4, <3>1 DEF CallFits, VoteCallFits
      <3> QED
        BY <3>1, <3>2, <3>3, <3>4 DEF CallFits
    <2> QED
      BY <1>1, <2>1 DEF CallsFit
  <1> QED
    BY <1>8, <1>9, <1>10, <1>11, <1>12, <1>13, <1>14, <1>15, <1>16 DEF Inv

LEMMA LogKept ==
  Base /\ TypeOK' /\ LogInv /\ [Next]_vars => LogInv'
  <1> SUFFICES ASSUME Base, TypeOK', LogInv, [Next]_vars
               PROVE  LogInv'
    OBVIOUS
  <1> PICK L, A : Inv(L, A)
    BY DEF LogInv
  <1>1. ASSUME Inv(L, A)' PROVE LogInv'
    BY <1>1 DEF LogInv
  <1>2. ASSUME \E A1 : Inv(L, A1)' PROVE LogInv'
    BY <1>2 DEF LogInv
  <1>3. ASSUME \E L1, A1 : Inv(L1, A1)' PROVE LogInv'
    BY <1>3 DEF LogInv
  <1>4. ASSUME NEW i \in Server,
               Timeout(i) \/ Heartbeat(i) \/ Snapshot(i) \/ Apply(i) \/ Restart(i)
        PROVE  LogInv'
    BY <1>1, <1>4, LogAtTimeout, LogAtHeartbeat, LogAtSnapshot, LogAtApply, LogAtRestart
  <1>5. ASSUME NEW i \in Server, NEW e \in electionCalls[i], CallElection(i, e)
        PROVE  LogInv'
    BY <1>1, <1>5, LogAtCallElection
  <1>6. ASSUME NEW i \in Server, NEW c \in Command, Start(i, c)
        PROVE  LogInv'
    BY <1>3, <1>6, LogAtStart
  <1>7. ASSUME NEW m \in rpcs, RequestVote(m) \/ StepDown(m)
                               \/ HandleAppendReply(m) \/ HandleSnapshotReply(m)
        PROVE  LogInv'
    BY <1>1, <1>7, LogAtRequestVote, LogAtStepDown, LogAtAppendReply, LogAtSnapshotReply
  <1>8. ASSUME NEW m \in rpcs, CountVote(m)
        PROVE  LogInv'
    <2>1. CASE Wins(m)
      BY <1>3, <1>8, <2>1, LogAtVictory
    <2>2. CASE ~Wins(m)
      <3>1. ~(Counts(m) /\ Majority(VotesWith(m) \cup {m.from}))
        BY <2>2 DEF Wins
      <3> QED
        BY <1>1, <1>8, <3>1, LogAtVoteCounted
    <2> QED
      BY <2>1, <2>2
  <1>9. ASSUME NEW m \in rpcs, AppendEntries(m)
        PROVE  LogInv'
    <2>1. CASE RefuseStaleAppend(m) \/ RefuseMismatch(m)
      BY <1>1, <1>9, <2>1, LogAtRefusal
    <2>2. CASE AcceptAppend(m)
      BY <1>2, <1>9, <2>2, LogAtAccept
    <2> QED
      BY <1>9, <2>1, <2>2 DEF AppendEntries
  <1>10. ASSUME NEW m \in rpcs, InstallSnapShot(m)
        PROVE  LogInv'
    BY <1>2, <1>10, LogAtInstallSnapShot
  <1>11. CASE UNCHANGED vars
    BY <1>1, <1>11, LogUnmoved
  <1> QED
    BY <1>4, <1>5, <1>6, <1>7, <1>8, <1>9, <1>10, <1>11 DEF Next, Handle

\* Everything the log proofs assume of a state holds of every reachable one.
LEMMA BaseAlways == Spec => []Base
  BY ElectionAlways, AskedAlways, PTL DEF Base

LEMMA TypeStays == Base' => TypeOK'
  BY DEF Base

\* In every reachable state there are ghosts that fit it: the logs of servers,
\* leaders and messages are parts of the leaders' logs L, acknowledgements last,
\* and what half the servers have acknowledged is in every later leader's log
\* (AppendEntries, handleAppendReply, updateCommitIndex, RequestVote, Start,
\* Snapshot, InstallSnapshot and a restart, raft.go).
THEOREM LogAlways == Spec => [](Base /\ LogInv)
  BY BaseAlways, LogInit, LogKept, TypeStays, PTL DEF Spec

-----------------------------------------------------------------------------
(* What the invariant says of the logs.                                    *)

LEMMA IndexesIn ==
  ASSUME Base, NEW L, NEW A, Inv(L, A)
  PROVE  IndexesInRange
  <1> SUFFICES ASSUME NEW i \in Server
               PROVE  /\ lastIncludedIndex[i] <= commitIndex[i] /\ commitIndex[i] <= LastIndex(i)
                      /\ lastIncludedIndex[i] <= lastApplied[i] /\ lastApplied[i] <= commitIndex[i]
                      /\ lastIncludedTerm[i] = log[i][1].term
                      /\ state[i] = Leader => \A p \in Server \ {i} :
                           /\ matchIndex[i][p] <= LastIndex(i)
                           /\ 1 <= nextIndex[i][p] /\ nextIndex[i][p] <= LastIndex(i) + 1
    BY DEF IndexesInRange
  <1>1. InRange(i) /\ Seal(L, A, i)
    BY DEF Inv, Ranges, Seals
  <1>2. ASSUME state[i] = Leader, NEW p \in Server \ {i}
        PROVE  /\ matchIndex[i][p] <= LastIndex(i)
               /\ 1 <= nextIndex[i][p] /\ nextIndex[i][p] <= LastIndex(i) + 1
    <2>1. /\ Len(L[currentTerm[i]]) = LastIndex(i)
          /\ matchIndex[i][p] <= A[p][currentTerm[i]]
      BY <1>2 DEF Inv, LeadersFit, LeaderFits
    <2>2. currentTerm[i] \in Nat /\ matchIndex[i][p] \in Nat /\ LastIndex(i) \in Nat
          /\ nextIndex[i][p] \in Nat
      BY LastTermIs DEF Base, TypeOK, LeaderTypes
    <2>3. A[p][currentTerm[i]] <= Len(L[currentTerm[i]]) /\ A[p][currentTerm[i]] \in Nat
      BY <2>2, GhostFacts DEF Inv, Acks
    <2>4. nextIndex[i][p] >= 1 /\ nextIndex[i][p] <= LastIndex(i) + 1
      BY <1>1, <1>2 DEF InRange
    <2> QED
      BY <2>1, <2>2, <2>3, <2>4
  <1> QED
    BY <1>1, <1>2 DEF InRange, Seal

LEMMA SameBelow ==
  ASSUME Base, NEW L, NEW A, Inv(L, A), NEW i \in Server, NEW j \in Server, NEW n \in Nat,
         Agree(L[LastTerm(i)], L[LastTerm(j)], n),
         NEW y, y <= n, HasIndex(i, y), HasIndex(j, y)
  PROVE  SameEntry(i, j, y)
  <1>1. LogFits(L, i) /\ LogFits(L, j) /\ Ghosts(L, A) /\ TypeOK
    BY DEF Inv, LogsFit, Base
  <1>2. /\ y \in Nat /\ TermAt(i, y) = TermOf(L[LastTerm(i)], y)
        /\ y > lastIncludedIndex[i] =>
             log[i][y - lastIncludedIndex[i] + 1] = L[LastTerm(i)][y]
    BY <1>1, LogReads
  <1>3. /\ TermAt(j, y) = TermOf(L[LastTerm(j)], y)
        /\ y > lastIncludedIndex[j] =>
             log[j][y - lastIncludedIndex[j] + 1] = L[LastTerm(j)][y]
    BY <1>1, LogReads
  <1>4. lastIncludedIndex[i] \in Nat
    BY <1>1, LastTermIs
  <1>5. CASE y = 0
    BY <1>2, <1>3, <1>4, <1>5 DEF SameEntry, TermOf
  <1>6. CASE y # 0
    <2>1. y \in 1 .. n
      BY <1>2, <1>6
    <2>2. L[LastTerm(i)][y] = L[LastTerm(j)][y]
      BY <2>1 DEF Agree
    <2> QED
      BY <1>2, <1>3, <1>6, <2>2 DEF SameEntry, TermOf
  <1> QED
    BY <1>5, <1>6

LEMMA LogsMatch ==
  ASSUME Base, NEW L, NEW A, Inv(L, A)
  PROVE  LogMatching
  <1> SUFFICES ASSUME NEW i \in Server, NEW j \in Server, NEW x \in Shared(i, j),
                      TermAt(i, x) = TermAt(j, x), NEW y \in Shared(i, j), y <= x
               PROVE  SameEntry(i, j, y)
    BY DEF LogMatching
  <1>1. HasIndex(i, x) /\ HasIndex(j, x) /\ HasIndex(i, y) /\ HasIndex(j, y)
    BY DEF Shared, HasIndex
  <1>2. LogFits(L, i) /\ LogFits(L, j) /\ Ghosts(L, A) /\ TypeOK /\ Coherent(L)
    BY DEF Inv, LogsFit, Base
  <1>3. LastTerm(i) \in Nat /\ LastTerm(j) \in Nat
    BY <1>2, LastTermIs
  <1>4. /\ x \in Nat /\ x <= Len(L[LastTerm(i)])
        /\ TermAt(i, x) = TermOf(L[LastTerm(i)], x)
    BY <1>1, <1>2, LogReads
  <1>5. x <= Len(L[LastTerm(j)]) /\ TermAt(j, x) = TermOf(L[LastTerm(j)], x)
    BY <1>1, <1>2, LogReads
  <1>6. Len(L[LastTerm(i)]) \in Nat /\ Len(L[LastTerm(j)]) \in Nat
    BY <1>2, <1>3, GhostFacts
  <1>7. CASE x = 0
    <2>1. Agree(L[LastTerm(i)], L[LastTerm(j)], 0)
      BY <1>6, AgreeNone
    <2> QED
      BY <1>1, <1>4, <1>7, <2>1, SameBelow
  <1>8. CASE x # 0
    <2>1. x \in 1 .. Len(L[LastTerm(i)]) /\ x \in 1 .. Len(L[LastTerm(j)])
      BY <1>4, <1>5, <1>6, <1>8
    <2>2. L[LastTerm(i)][x].term = L[LastTerm(j)][x].term
      BY <1>4, <1>5, <1>8 DEF TermOf
    <2>3. Agree(L[LastTerm(i)], L[LastTerm(j)], x)
      BY <1>2, <1>3, <2>1, <2>2, TermsMeet
    <2> QED
      BY <1>1, <1>4, <2>3, SameBelow
  <1> QED
    BY <1>7, <1>8

LEMMA MatchesSound ==
  ASSUME Base, NEW L, NEW A, Inv(L, A)
  PROVE  MatchIndexSound
  <1> SUFFICES ASSUME NEW i \in Server, NEW p \in Server, state[i] = Leader, i # p,
                      currentTerm[p] = currentTerm[i]
               PROVE  /\ matchIndex[i][p] <= LastIndex(p)
                      /\ \A x \in Shared(i, p) : x <= matchIndex[i][p] => SameEntry(i, p, x)
    BY DEF MatchIndexSound
  <1> DEFINE T == currentTerm[i]
             n == A[p][T]
  <1>1. /\ T \in Nat /\ n \in Nat /\ matchIndex[i][p] \in Nat /\ LastIndex(i) \in Nat
        /\ LastIndex(p) \in Nat /\ LastTerm(i) \in Nat /\ LastTerm(p) \in Nat
    BY LastTermIs, GhostFacts DEF Base, TypeOK, LeaderTypes, Inv
  <1>2. Ghosts(L, A) /\ Len(L[LastTerm(i)]) \in Nat /\ Len(L[T]) \in Nat
    BY <1>1, GhostFacts DEF Inv
  <1>3. LeaderFits(L, A, i)
    BY DEF Inv, LeadersFit
  <1>4. /\ matchIndex[i][p] <= n /\ Len(L[T]) = LastIndex(i)
        /\ Agree(L[LastTerm(i)], L[T], LastIndex(i))
    BY <1>3 DEF LeaderFits, Holds
  <1>5. n <= Len(L[T]) /\ Holds(L, p, T, n)
    BY <1>1 DEF Inv, Acks
  <1>6. n <= LastIndex(p) /\ Agree(L[LastTerm(p)], L[T], n)
    BY <1>5 DEF Holds
  <1>7. Agree(L[LastTerm(i)], L[T], n)
    <2>1. n <= LastIndex(i)
      BY <1>4, <1>5
    <2> HIDE DEF n, T
    <2> QED
      BY <1>1, <1>2, <1>4, <2>1, AgreeLess
  <1>8. Agree(L[LastTerm(i)], L[LastTerm(p)], n)
    BY <1>6, <1>7, AgreeSym, AgreeTrans
  <1> HIDE DEF n, T
  <1>9. matchIndex[i][p] <= LastIndex(p)
    BY <1>1, <1>4, <1>6
  <1>10. ASSUME NEW x \in Shared(i, p), x <= matchIndex[i][p]
         PROVE  SameEntry(i, p, x)
    <2>1. HasIndex(i, x) /\ HasIndex(p, x)
      BY DEF Shared, HasIndex
    <2>2. x \in Int
      <3>1. lastIncludedIndex[i] \in Nat
        BY LastTermIs DEF Base
      <3> QED
        BY <1>1, <2>1, <3>1 DEF HasIndex
    <2>3. x <= n
      BY <1>1, <1>4, <1>10, <2>2
    <2> QED
      BY <1>1, <1>8, <2>1, <2>3, SameBelow
  <1> QED
    BY <1>9, <1>10

\* What two leaders have committed at an index is the same.
LEMMA CommittedAgree ==
  ASSUME Base, NEW L, NEW A, Inv(L, A), NEW t \in Nat, NEW n \in Nat, Committed(L, A, t, n),
         NEW u \in Nat, NEW k \in Nat, Committed(L, A, u, k), NEW x, x \in 1 .. n, x \in 1 .. k
  PROVE  L[t][x] = L[u][x]
  <1>1. Elected(t) /\ Elected(u)
    <2>1. n \in 1 .. Len(L[t]) /\ k \in 1 .. Len(L[u])
      BY DEF Committed, OwnEntry
    <2>2. Len(L[t]) > 0 /\ Len(L[u]) > 0
      BY <2>1, GhostFacts DEF Inv
    <2> QED
      BY <2>2 DEF Inv, Coherent
  <1>2. CASE t < u
    <2>1. Agree(L[u], L[t], n)
      BY <1>1, <1>2, CommittedIsChoosable DEF Inv, Beyond
    <2> QED
      BY <2>1 DEF Agree
  <1>3. CASE u < t
    <2>1. Agree(L[t], L[u], k)
      BY <1>1, <1>3, CommittedIsChoosable DEF Inv, Beyond
    <2> QED
      BY <2>1 DEF Agree
  <1> QED
    BY <1>2, <1>3

LEMMA CommitsSafe ==
  ASSUME Base, NEW L, NEW A, Inv(L, A)
  PROVE  StateMachineSafety
  <1>1. ASSUME NEW c \in chosen, NEW d \in chosen, c.index = d.index
        PROVE  c = d
    <2>1. PICK t, n \in Nat : /\ Committed(L, A, t, n) /\ c.index \in 1 .. n
                              /\ c.entry = L[t][c.index]
      BY DEF Inv, Chosens
    <2>2. PICK u, k \in Nat : /\ Committed(L, A, u, k) /\ d.index \in 1 .. k
                              /\ d.entry = L[u][d.index]
      BY DEF Inv, Chosens
    <2>3. L[t][c.index] = L[u][c.index]
      BY <1>1, <2>1, <2>2, CommittedAgree
    <2>4. c \in [index : Nat, entry : Entry] /\ d \in [index : Nat, entry : Entry]
      BY DEF Base, TypeOK, CommitTypes
    <2> QED
      BY <1>1, <2>1, <2>2, <2>3, <2>4
  <1>2. ASSUME NEW i \in Server, NEW x \in lastIncludedIndex[i] .. commitIndex[i], x > 0
        PROVE  \E c \in chosen :
                 /\ c.index = x /\ c.entry.term = TermAt(i, x)
                 /\ x > lastIncludedIndex[i] =>
                      c.entry = log[i][x - lastIncludedIndex[i] + 1]
    <2>1. /\ Seal(L, A, i) /\ LogFits(L, i) /\ Ghosts(L, A) /\ TypeOK
      BY DEF Inv, Seals, LogsFit, Base
    <2>2. /\ lastIncludedIndex[i] \in Nat /\ commitIndex[i] \in Nat /\ LastIndex(i) \in Nat
          /\ currentTerm[i] \in Nat /\ LastTerm(i) \in Nat
      BY <2>1, LastTermIs DEF TypeOK, CommitTypes
    <2>3. commitIndex[i] <= LastIndex(i)
          /\ Sealed(L, A, currentTerm[i], LastTerm(i), commitIndex[i])
      BY <2>1 DEF Seal
    <2>4. x \in Nat /\ x <= commitIndex[i] /\ HasIndex(i, x)
      BY <2>2, <2>3 DEF HasIndex
    <2>5. Sealed(L, A, currentTerm[i], LastTerm(i), x)
      BY <2>1, <2>2, <2>3, <2>4, SealedLess
    <2>6. PICK t, n \in Nat : /\ t <= currentTerm[i] /\ n >= x /\ Committed(L, A, t, n)
                              /\ Agree(L[LastTerm(i)], L[t], x)
      BY <1>2, <2>5 DEF Sealed
    <2>7. /\ TermAt(i, x) = TermOf(L[LastTerm(i)], x)
          /\ x > lastIncludedIndex[i] =>
               log[i][x - lastIncludedIndex[i] + 1] = L[LastTerm(i)][x]
      BY <2>1, <2>4, LogReads
    <2>8. x \in 1 .. x /\ x \in 1 .. n
      BY <1>2, <2>4, <2>6
    <2>9. L[LastTerm(i)][x] = L[t][x]
      BY <2>6, <2>8 DEF Agree
    <2>10. TermAt(i, x) = L[t][x].term
      BY <1>2, <2>7, <2>9 DEF TermOf
    <2>11. [index |-> x, entry |-> L[t][x]] \in chosen
      BY <2>6, <2>8 DEF Committed
    <2>12. [index |-> x, entry |-> L[t][x]].index = x
           /\ [index |-> x, entry |-> L[t][x]].entry = L[t][x]
      OBVIOUS
    <2> QED
      BY <2>7, <2>9, <2>10, <2>11, <2>12
  <1> QED
    BY <1>1, <1>2 DEF StateMachineSafety

LEMMA LeadersComplete ==
  ASSUME Base, NEW L, NEW A, Inv(L, A)
  PROVE  LeaderCompleteness
  <1> SUFFICES ASSUME NEW i \in Server, state[i] = Leader,
                      \A j \in Server : currentTerm[j] <= currentTerm[i],
                      NEW c \in chosen, c.index >= lastIncludedIndex[i]
               PROVE  HasIndex(i, c.index) /\ TermAt(i, c.index) = c.entry.term
    BY DEF LeaderCompleteness
  <1> DEFINE T == currentTerm[i]
  <1>1. /\ T \in Nat /\ LastIndex(i) \in Nat /\ LastTerm(i) \in Nat
        /\ lastIncludedIndex[i] \in Nat
    BY LastTermIs DEF Base
  <1>2. LeaderFits(L, A, i) /\ LogFits(L, i) /\ Ghosts(L, A) /\ TypeOK
    BY DEF Inv, LeadersFit, LogsFit, Base
  <1>3. PICK t, n \in Nat : /\ Committed(L, A, t, n) /\ c.index \in 1 .. n
                            /\ c.entry = L[t][c.index]
    BY DEF Inv, Chosens
  <1>4. n \in 1 .. Len(L[t])
    BY <1>3 DEF Committed, OwnEntry
  <1>5. t <= T
    <2>1. PICK Q \in SUBSET Server : Half(Q) /\ \A q \in Q : A[q][t] >= n
      BY <1>3 DEF Committed
    <2>2. PICK q \in Q : q \in Server
      BY <2>1, HalfIsSomeone
    <2>3. A[q][t] >= n /\ A[q][t] \in Nat /\ n > 0
      BY <1>2, <1>3, <1>4, <2>1, <2>2, GhostFacts
    <2>4. A[q][t] > 0
      BY <1>3, <2>3
    <2>5. t <= currentTerm[q] /\ currentTerm[q] \in Nat
      BY <1>2, <2>2, <2>4 DEF Inv, Acks, TypeOK, ServerTypes
    <2> QED
      BY <1>1, <1>3, <2>2, <2>5
  <1>6. Agree(L[T], L[t], n)
    <2>1. CASE t = T
      BY <1>4, <2>1, GhostFacts, <1>1, <1>2 DEF Agree
    <2>2. CASE t # T
      <3>1. Elected(T) /\ t < T
        BY <1>1, <1>2, <1>3, <1>5, <2>2 DEF LeaderFits, Elected
      <3> QED
        BY <1>1, <1>3, <3>1, CommittedIsChoosable DEF Inv, Beyond
    <2> QED
      BY <2>1, <2>2
  <1> HIDE DEF T
  <1>7. n <= LastIndex(i) /\ Agree(L[LastTerm(i)], L[T], LastIndex(i))
    BY <1>2, <1>6 DEF Agree, LeaderFits, Holds, T
  <1>8. c.index \in Nat /\ c.index # 0 /\ c.index \in 1 .. LastIndex(i)
    BY <1>1, <1>3, <1>7
  <1>9. HasIndex(i, c.index)
    BY <1>1, <1>8 DEF HasIndex
  <1>10. TermAt(i, c.index) = L[LastTerm(i)][c.index].term
    <2>1. TermAt(i, c.index) = TermOf(L[LastTerm(i)], c.index)
      BY <1>2, <1>9, LogReads
    <2> QED
      BY <1>8, <2>1 DEF TermOf
  <1>11. L[LastTerm(i)][c.index] = L[T][c.index] /\ L[T][c.index] = L[t][c.index]
    BY <1>3, <1>6, <1>7, <1>8 DEF Agree
  <1> QED
    BY <1>3, <1>9, <1>10, <1>11

-----------------------------------------------------------------------------
(* The theorems.                                                           *)

LEMMA LogSafe ==
  Base /\ LogInv => IndexesInRange /\ LogMatching /\ MatchIndexSound
                    /\ StateMachineSafety /\ LeaderCompleteness
  BY IndexesIn, LogsMatch, MatchesSound, CommitsSafe, LeadersComplete DEF LogInv

\* No index of raft.go leaves the slice it is used on: snapshot index <= applied
\* <= committed <= last, and a leader's nextIndex and matchIndex are within its log,
\* whatever is lost, repeated, reordered or restarted.
THEOREM IndexesStayInRange == Spec => []IndexesInRange
  BY LogAlways, LogSafe, PTL

\* Two logs that have an entry of the same index and term are the same up to it,
\* as far as both still hold: what the conflict scan of AppendEntries maintains.
THEOREM LogsAlwaysMatch == Spec => []LogMatching
  BY LogAlways, LogSafe, PTL

\* What a leader believes of a follower is so: up to matchIndex the follower has
\* the leader's entries, however late or repeated the replies it was taken from.
THEOREM MatchIndexesAreSound == Spec => []MatchIndexSound
  BY LogAlways, LogSafe, PTL

\* No two servers ever commit different entries at one index; with a number of
\* servers that is even too, where the median that updateCommitIndex takes counts
\* only half of them.
THEOREM CommitsAgree == Spec => []StateMachineSafety
  BY LogAlways, LogSafe, PTL

\* A leader in the highest term has every entry any leader has ever committed:
\* the vote restriction of RequestVote and the term test of updateCommitIndex.
THEOREM LeadersAreComplete == Spec => []LeaderCompleteness
  BY LogAlways, LogSafe, PTL

-----------------------------------------------------------------------------
(* What a step never does: a leader keeps its log, a server its commits.   *)

KeepsLog(i) ==
  /\ LastIndex(i)' >= LastIndex(i)
  /\ \A x \in lastIncludedIndex'[i] .. LastIndex(i) : TermAt(i, x)' = TermAt(i, x)
LeaderKeeps(i) ==
  state[i] = Leader /\ state'[i] = Leader /\ currentTerm'[i] = currentTerm[i] => KeepsLog(i)
CommitKeeps(i) == commitIndex'[i] < commitIndex[i] => Restart(i)

LEMMA LogUntouched ==
  ASSUME TypeOK, NEW i \in Server, log'[i] = log[i],
         lastIncludedIndex'[i] = lastIncludedIndex[i]
  PROVE  KeepsLog(i)
  <1>1. LastIndex(i)' = LastIndex(i) /\ LastIndex(i) \in Nat
    BY LastTermIs DEF LastIndex
  <1>2. \A x : TermAt(i, x)' = TermAt(i, x)
    BY DEF TermAt
  <1> QED
    BY <1>1, <1>2 DEF KeepsLog

LEMMA LogsUntouched ==
  ASSUME TypeOK, UNCHANGED logVars
  PROVE  \A i \in Server : LeaderKeeps(i)
  BY LogUntouched DEF logVars, LeaderKeeps

LEMMA StartKeepsLog ==
  ASSUME Base, TypeOK', NEW i \in Server, NEW c \in Command, Start(i, c)
  PROVE  \A j \in Server : LeaderKeeps(j)
  <1>1. /\ Len(log'[i]) = Len(log[i]) + 1
        /\ \A k \in 1 .. Len(log[i]) : log'[i][k] = log[i][k]
        /\ LastIndex(i)' = LastIndex(i) + 1
        /\ \A j \in Server \ {i} : log'[j] = log[j]
        /\ UNCHANGED <<lastIncludedIndex, lastIncludedTerm>>
    BY StartFacts, StartKeeps DEF Base
  <1>2. /\ LastIndex(i) \in Nat /\ lastIncludedIndex[i] \in Nat /\ Len(log[i]) \in Nat
        /\ LastIndex(i) = lastIncludedIndex[i] + Len(log[i]) - 1
    BY LastTermIs DEF Base
  <1>3. KeepsLog(i)
    <2>1. ASSUME NEW x \in lastIncludedIndex'[i] .. LastIndex(i)
          PROVE  TermAt(i, x)' = TermAt(i, x)
      <3>1. x - lastIncludedIndex[i] + 1 \in 1 .. Len(log[i])
        BY <1>1, <1>2, SMTT(20)
      <3> QED
        BY <1>1, <3>1 DEF TermAt
    <2> QED
      BY <1>1, <1>2, <2>1 DEF KeepsLog
  <1>4. ASSUME NEW j \in Server \ {i}
        PROVE  KeepsLog(j)
    BY <1>1, LogUntouched DEF Base
  <1> QED
    BY <1>3, <1>4 DEF LeaderKeeps

LEMMA SnapshotKeepsLog ==
  ASSUME Base, TypeOK', NEW i \in Server, Snapshot(i)
  PROVE  \A j \in Server : LeaderKeeps(j)
  <1>1. PICK x, base, n \in Nat : x = readerAt[i] /\ base = lastIncludedIndex[i] /\ n = Len(log[i])
    BY LastTermIs DEF Base, TypeOK, ApplyTypes
  <1>2. /\ x > base /\ x <= LastIndex(i)
        /\ log' = [log EXCEPT ![i] = SubSeq(log[i], x - base + 1, n)]
        /\ lastIncludedIndex' = [lastIncludedIndex EXCEPT ![i] = x]
    BY <1>1 DEF Snapshot
  <1>3. LastIndex(i) = base + n - 1 /\ log[i] \in Seq(Entry)
    BY <1>1, LastTermIs, LogFacts DEF Base, TypeOK
  <1>4. PICK k \in Nat : k = x - base + 1 /\ 1 <= k /\ k <= n
    BY <1>2, <1>3
  <1>5. Suffix(log'[i], log[i], k) /\ lastIncludedIndex'[i] = x
    <2>1. log'[i] = SubSeq(log[i], k, n) /\ lastIncludedIndex'[i] = x
      BY <1>2, <1>4 DEF Base, TypeOK, LogTypes
    <2> QED
      BY <1>1, <1>3, <1>4, <2>1, SuffixIs
  <1>6. Len(log'[i]) = n - k + 1 /\ \A y \in 1 .. n - k + 1 : log'[i][y] = log[i][k + y - 1]
    BY <1>1, <1>5 DEF Suffix
  <1>7. LastIndex(i)' = LastIndex(i)
    <2>1. LastIndex(i)' = x + Len(log'[i]) - 1
      BY <1>5 DEF LastIndex
    <2> QED
      BY <1>3, <1>4, <1>6, <2>1
  <1>8. ASSUME NEW y \in lastIncludedIndex'[i] .. LastIndex(i)
        PROVE  TermAt(i, y)' = TermAt(i, y)
    <2>1. y - x + 1 \in 1 .. n - k + 1 /\ k + (y - x + 1) - 1 = y - base + 1
      BY <1>3, <1>4, <1>5
    <2>2. log'[i][y - x + 1] = log[i][y - base + 1]
      BY <1>6, <2>1
    <2> QED
      BY <1>1, <1>5, <2>2 DEF TermAt
  <1>9. KeepsLog(i)
    <2>1. LastIndex(i)' >= LastIndex(i)
      BY <1>3, <1>7
    <2> QED
      BY <1>8, <2>1 DEF KeepsLog
  <1>10. ASSUME NEW j \in Server \ {i}
         PROVE  KeepsLog(j)
    <2>1. log'[j] = log[j] /\ lastIncludedIndex'[j] = lastIncludedIndex[j]
      BY <1>2 DEF Base, TypeOK, LogTypes
    <2> QED
      BY <2>1, LogUntouched DEF Base
  <1> QED
    BY <1>9, <1>10 DEF LeaderKeeps

\* A server that is no leader after a step which leaves the other logs alone.
LEMMA FollowerLoses ==
  ASSUME TypeOK, NEW i \in Server, state'[i] = Follower,
         \A j \in Server \ {i} : log'[j] = log[j]
                                 /\ lastIncludedIndex'[j] = lastIncludedIndex[j]
  PROVE  \A j \in Server : LeaderKeeps(j)
  <1>1. ASSUME NEW j \in Server \ {i}
        PROVE  LeaderKeeps(j)
    BY LogUntouched DEF LeaderKeeps
  <1>2. LeaderKeeps(i)
    BY DEF LeaderKeeps, Leader, Follower
  <1> QED
    BY <1>1, <1>2

LEMMA RestartKeepsLog ==
  ASSUME Base, NEW i \in Server, Restart(i)
  PROVE  \A j \in Server : LeaderKeeps(j) /\ CommitKeeps(j)
  <1>1. /\ state' = [state EXCEPT ![i] = Follower]
        /\ log' = [log EXCEPT ![i] = persister[i].log]
        /\ lastIncludedIndex' = [lastIncludedIndex EXCEPT ![i] = persister[i].lastIncludedIndex]
        /\ \E x : commitIndex' = [commitIndex EXCEPT ![i] = x]
    BY DEF Restart
  <1>2. /\ state'[i] = Follower
        /\ \A j \in Server \ {i} : log'[j] = log[j]
                                   /\ lastIncludedIndex'[j] = lastIncludedIndex[j]
    BY <1>1 DEF Base, TypeOK, ServerTypes, LogTypes
  <1>3. \A j \in Server : LeaderKeeps(j)
    BY <1>2, FollowerLoses DEF Base
  <1>4. \A j \in Server \ {i} : commitIndex'[j] = commitIndex[j] /\ commitIndex[j] \in Nat
    BY <1>1 DEF Base, TypeOK, CommitTypes
  <1>5. \A j \in Server : CommitKeeps(j)
    BY <1>4 DEF CommitKeeps
  <1> QED
    BY <1>3, <1>5

LEMMA AcceptKeepsLog ==
  ASSUME Base, TypeOK', NEW L, NEW A, Inv(L, A), NEW m \in rpcs, AppendEntries(m), AcceptAppend(m)
  PROVE  \A j \in Server : LeaderKeeps(j) /\ CommitKeeps(j)
  <1>1. m.type = "AppendCall"
    BY DEF AppendEntries
  <1>2. m \in AppendCalls /\ m.to \in Server
    BY <1>1, RpcKinds DEF Base, TypeOK
  <1>3. PICK i \in Server, T, e \in Nat : /\ i = m.to /\ T = m.term
                                          /\ e = m.prevLogIndex + Len(m.entries)
    <2>1. m.term \in Nat /\ m.prevLogIndex \in Nat /\ m.entries \in Seq(Entry)
      BY <1>2 DEF AppendCalls
    <2>2. Len(m.entries) \in Nat
      BY <2>1, LenProperties
    <2> QED
      BY <1>2, <2>1, <2>2
  <1>4. /\ state'[i] = Follower
        /\ \A j \in Server \ {i} : log'[j] = log[j]
        /\ UNCHANGED <<lastIncludedIndex, lastIncludedTerm>>
    BY <1>1, <1>3, Accepted
  <1>5. /\ commitIndex'[i] >= commitIndex[i]
        /\ \A j \in Server \ {i} : commitIndex'[j] = commitIndex[j]
    BY <1>1, <1>3, AcceptedCommit
  <1>6. \A j \in Server : LeaderKeeps(j)
    BY <1>4, FollowerLoses DEF Base
  <1>7. \A j \in Server : commitIndex[j] \in Nat /\ commitIndex'[j] \in Nat
    BY DEF Base, TypeOK, CommitTypes
  <1>8. \A j \in Server : CommitKeeps(j)
    BY <1>5, <1>7 DEF CommitKeeps
  <1> QED
    BY <1>6, <1>8

LEMMA SnapshotCallKeepsLog ==
  ASSUME Base, TypeOK', NEW L, NEW A, Inv(L, A), NEW m \in rpcs, InstallSnapShot(m)
  PROVE  \A j \in Server : LeaderKeeps(j) /\ CommitKeeps(j)
  <1>1. m.type = "SnapshotCall" /\ m.to \in Server /\ m \in SnapshotCalls
    BY RpcKinds DEF InstallSnapShot, Base, TypeOK
  <1>2. CASE IgnoreSnapshot(m)
    <2>1. UNCHANGED <<logVars, commitIndex>>
      BY <1>2 DEF IgnoreSnapshot
    <2>2. \A j \in Server : LeaderKeeps(j)
      BY <2>1, LogsUntouched DEF Base
    <2>3. \A j \in Server : commitIndex[j] \in Nat
      BY DEF Base, TypeOK, CommitTypes
    <2> QED
      BY <2>1, <2>2, <2>3 DEF CommitKeeps
  <1>3. CASE AcceptSnapshot(m)
    <2>1. /\ ~Stale(m) /\ FollowTerm(m.to, m.term)
          /\ log' = [log EXCEPT ![m.to] = Retained(m.to, m.lastIncludedIndex, m.lastIncludedTerm)]
          /\ lastIncludedIndex' = [lastIncludedIndex EXCEPT ![m.to] = m.lastIncludedIndex]
          /\ commitIndex' = Raised(commitIndex, m.to, m.lastIncludedIndex)
      BY <1>3 DEF AcceptSnapshot
    <2>2. ElectedBy(m.from, m.term)
      BY <1>1 DEF Inv, CallsFit, CallFits, SnapshotCallFits
    <2>3. state'[m.to] = Follower
      BY <2>1, <2>2, Following
    <2>4. \A j \in Server \ {m.to} : log'[j] = log[j]
                                     /\ lastIncludedIndex'[j] = lastIncludedIndex[j]
      BY <2>1 DEF Base, TypeOK, LogTypes
    <2>5. \A j \in Server : LeaderKeeps(j)
      BY <1>1, <2>3, <2>4, FollowerLoses DEF Base
    <2>6. \A j \in Server : commitIndex[j] \in Nat /\ m.lastIncludedIndex \in Nat
      BY <1>1 DEF Base, TypeOK, CommitTypes, SnapshotCalls
    <2>7. \A j \in Server : commitIndex'[j] >= commitIndex[j] /\ commitIndex'[j] \in Nat
      BY <1>1, <2>1, <2>6 DEF Raised, Base, TypeOK, CommitTypes
    <2>8. \A j \in Server : CommitKeeps(j)
      BY <2>6, <2>7 DEF CommitKeeps
    <2> QED
      BY <2>5, <2>8
  <1> QED
    BY <1>2, <1>3 DEF InstallSnapShot

LEMMA CommitsUntouched ==
  ASSUME TypeOK, UNCHANGED commitIndex
  PROVE  \A i \in Server : CommitKeeps(i)
  BY DEF CommitKeeps, TypeOK, CommitTypes

LEMMA CommitRises ==
  ASSUME TypeOK, TypeOK', NEW i \in Server, UpdateCommitIndex(i)
  PROVE  \A j \in Server : CommitKeeps(j)
  <1>1. PICK n : IF Committable(i, n) THEN commitIndex' = [commitIndex EXCEPT ![i] = n]
                                      ELSE UNCHANGED commitVars
    BY DEF UpdateCommitIndex
  <1>2. CASE Committable(i, n)
    <2>1. commitIndex' = [commitIndex EXCEPT ![i] = n] /\ n > commitIndex[i]
      BY <1>1, <1>2 DEF Committable
    <2> QED
      <3>1. \A j \in Server : commitIndex[j] \in Nat /\ commitIndex'[j] \in Nat
        BY DEF TypeOK, CommitTypes
      <3>2. commitIndex'[i] > commitIndex[i]
        BY <2>1 DEF TypeOK, CommitTypes
      <3>3. \A j \in Server \ {i} : commitIndex'[j] = commitIndex[j]
        BY <2>1 DEF TypeOK, CommitTypes
      <3> QED
        BY <3>1, <3>2, <3>3 DEF CommitKeeps
  <1>3. CASE ~Committable(i, n)
    BY <1>1, <1>3, CommitsUntouched DEF commitVars
  <1> QED
    BY <1>2, <1>3

LEMMA ReplyKeepsLog ==
  ASSUME Base, TypeOK', NEW m \in rpcs, HandleAppendReply(m) \/ HandleSnapshotReply(m)
  PROVE  \A j \in Server : LeaderKeeps(j) /\ CommitKeeps(j)
  <1>1. m.from \in Server
    BY RpcKinds DEF Base, TypeOK
  <1>2. UNCHANGED logVars
    BY DEF HandleAppendReply, HandleSnapshotReply
  <1>3. UpdateCommitIndex(m.from) \/ UNCHANGED commitVars
    BY DEF HandleAppendReply, HandleSnapshotReply
  <1>4. \A j \in Server : LeaderKeeps(j)
    BY <1>2, LogsUntouched DEF Base
  <1>5. \A j \in Server : CommitKeeps(j)
    BY <1>1, <1>3, CommitRises, CommitsUntouched DEF Base, commitVars
  <1> QED
    BY <1>4, <1>5

LEMMA StepKeepsLog ==
  Base /\ TypeOK' /\ LogInv /\ [Next]_vars =>
    [\A j \in Server : LeaderKeeps(j) /\ CommitKeeps(j)]_vars
  <1> SUFFICES ASSUME Base, TypeOK', LogInv, Next
               PROVE  \A j \in Server : LeaderKeeps(j) /\ CommitKeeps(j)
    OBVIOUS
  <1> PICK L, A : Inv(L, A)
    BY DEF LogInv
  <1>1. ASSUME UNCHANGED <<logVars, commitIndex>>
        PROVE  \A j \in Server : LeaderKeeps(j) /\ CommitKeeps(j)
    BY <1>1, LogsUntouched, CommitsUntouched DEF Base
  <1>2. ASSUME NEW i \in Server, Timeout(i) \/ Heartbeat(i) \/ Apply(i)
        PROVE  UNCHANGED <<logVars, commitIndex>>
    BY <1>2 DEF Timeout, Heartbeat, Apply, commitVars
  <1>3. ASSUME NEW i \in Server, NEW e \in electionCalls[i], CallElection(i, e)
        PROVE  UNCHANGED <<logVars, commitIndex>>
    BY <1>3 DEF CallElection, commitVars
  <1>4. ASSUME NEW m \in rpcs, RequestVote(m) \/ StepDown(m) \/ CountVote(m)
        PROVE  UNCHANGED <<logVars, commitIndex>>
    BY <1>4 DEF RequestVote, StepDown, CountVote, commitVars
  <1>5. ASSUME NEW i \in Server, NEW c \in Command, Start(i, c)
        PROVE  \A j \in Server : LeaderKeeps(j) /\ CommitKeeps(j)
    BY <1>5, StartKeepsLog, StartKeeps, CommitsUntouched DEF Base
  <1>6. ASSUME NEW i \in Server, Snapshot(i)
        PROVE  \A j \in Server : LeaderKeeps(j) /\ CommitKeeps(j)
    <2>1. UNCHANGED commitIndex
      BY <1>6 DEF Snapshot, commitVars
    <2> QED
      BY <1>6, <2>1, SnapshotKeepsLog, CommitsUntouched DEF Base
  <1>7. ASSUME NEW m \in rpcs, AppendEntries(m)
        PROVE  \A j \in Server : LeaderKeeps(j) /\ CommitKeeps(j)
    <2>1. CASE RefuseStaleAppend(m) \/ RefuseMismatch(m)
      <3>1. UNCHANGED <<logVars, commitIndex>>
        BY <2>1 DEF RefuseStaleAppend, RefuseMismatch
      <3> QED
        BY <1>1, <3>1
    <2>2. CASE AcceptAppend(m)
      BY <1>7, <2>2, AcceptKeepsLog
    <2> QED
      BY <1>7, <2>1, <2>2 DEF AppendEntries
  <1> QED
    BY <1>1, <1>2, <1>3, <1>4, <1>5, <1>6, <1>7, RestartKeepsLog, ReplyKeepsLog,
       SnapshotCallKeepsLog DEF Next, Handle

\* A leader never changes or drops an entry of its log, except for those that
\* its own snapshot covers.
THEOREM LeadersOnlyAppend == Spec => LeaderAppendOnly
  <1>1. [\A j \in Server : LeaderKeeps(j) /\ CommitKeeps(j)]_vars =>
          [\A i \in Server :
             state[i] = Leader /\ state'[i] = Leader /\ currentTerm'[i] = currentTerm[i] =>
               /\ LastIndex(i)' >= LastIndex(i)
               /\ \A x \in lastIncludedIndex'[i] .. LastIndex(i) :
                    TermAt(i, x)' = TermAt(i, x)]_vars
    BY DEF LeaderKeeps, KeepsLog
  <1> QED
    BY <1>1, LogAlways, TypeCorrect, StepKeepsLog, PTL DEF Spec, LeaderAppendOnly

\* commitIndex goes back only when its server restarts.
THEOREM CommitsStay == Spec => CommitMonotonic
  <1>1. [\A j \in Server : LeaderKeeps(j) /\ CommitKeeps(j)]_vars =>
          [\A i \in Server : commitIndex'[i] < commitIndex[i] => Restart(i)]_vars
    BY DEF CommitKeeps
  <1> QED
    BY <1>1, LogAlways, TypeCorrect, StepKeepsLog, PTL DEF Spec, CommitMonotonic

-----------------------------------------------------------------------------
(* A service that never compacts its log is in step.                       *)

\* From position n on every entry carries a command: only the sentinel has none.
RealFrom(s, n) == \A k \in n .. Len(s) : s[k].command \in Command
CallReal(m) == m.type # "SnapshotCall" /\ (m.type = "AppendCall" => RealFrom(m.entries, 1))
Reals == (\A i \in Server : RealFrom(log[i], 2)) /\ \A m \in rpcs : CallReal(m)

\* No snapshot is taken, sent or waited for.
Sending == {"top", "sendCommand", "sentCommand"}
Unsnapped == \A i \in Server :
  /\ lastIncludedIndex[i] = 0 /\ persister[i].snapshot = <<>>
  /\ snapshotPending[i] = NoPending /\ applier[i].pc \in Sending

\* The service has executed what is committed; while a command is on its way to
\* it, all but that one.
Delivering(i) ==
  /\ Len(sm[i]) + 1 = lastApplied[i] /\ applier[i].command \in Command
  /\ \E c \in chosen : c.index = lastApplied[i] /\ c.entry.command = applier[i].command
InStepAt(i) ==
  /\ Executed(i)
  /\ applier[i].pc = "sendCommand" => Delivering(i)
  /\ applier[i].pc # "sendCommand" => Len(sm[i]) = lastApplied[i]
InStep == \A i \in Server : InStepAt(i)

\* A step that neither the applier nor the service takes part in.
Calm ==
  /\ UNCHANGED <<lastIncludedIndex, snapshotPending, applier, sm, lastApplied>>
  /\ chosen \subseteq chosen'
  /\ \A i \in Server : persister'[i].snapshot = persister[i].snapshot

LEMMA SnapshotStays ==
  ASSUME DiskTypes, NEW i \in Server, NEW called, PersistIf(called, i)
  PROVE  \A j \in Server : persister'[j].snapshot = persister[j].snapshot
  <1>1. CASE called
    <2>1. Persist(i, persister[i].snapshot)
      BY <1>1 DEF PersistIf
    <2> QED
      BY <2>1 DEF Persist, DiskTypes
  <1>2. CASE ~called
    BY <1>2 DEF PersistIf
  <1> QED
    BY <1>1, <1>2

LEMMA CalmActions ==
  ASSUME Base, NEW i \in Server
  PROVE  /\ Timeout(i) => Calm
         /\ Heartbeat(i) => Calm
         /\ \A e : CallElection(i, e) => Calm
         /\ \A c : Start(i, c) => Calm
  <1>1. ASSUME Persist(i, persister[i].snapshot)
        PROVE  \A j \in Server : persister'[j].snapshot = persister[j].snapshot
    BY <1>1 DEF Persist, Base, TypeOK, DiskTypes, Disk
  <1>2. ASSUME Timeout(i) PROVE Calm
    BY <1>1, <1>2 DEF Timeout, Calm, logVars, applyVars, commitVars
  <1>3. ASSUME Heartbeat(i) PROVE Calm
    BY <1>3 DEF Heartbeat, Calm, logVars, applyVars, commitVars
  <1>4. ASSUME NEW e, CallElection(i, e) PROVE Calm
    BY <1>4 DEF CallElection, Calm, logVars, applyVars, commitVars
  <1>5. ASSUME NEW c, Start(i, c) PROVE Calm
    <2>1. PersistIf(TRUE, i)
      BY <1>5 DEF Start
    <2> QED
      BY <1>5, <2>1, SnapshotStays DEF Start, Calm, applyVars, commitVars, Base, TypeOK
  <1> QED
    BY <1>2, <1>3, <1>4, <1>5

LEMMA ChosenGrows ==
  ASSUME NEW i, UpdateCommitIndex(i) \/ UNCHANGED commitVars
  PROVE  chosen \subseteq chosen'
  BY DEF UpdateCommitIndex, commitVars

LEMMA CalmHandlers ==
  ASSUME Base, NEW m \in rpcs
  PROVE  /\ RequestVote(m) => Calm
         /\ StepDown(m) => Calm
         /\ CountVote(m) => Calm
         /\ AppendEntries(m) => Calm
         /\ HandleAppendReply(m) => Calm
         /\ HandleSnapshotReply(m) => Calm
  <1>1. m.to \in Server /\ m.from \in Server /\ DiskTypes
    BY RpcKinds DEF Base, TypeOK
  <1>2. ASSUME RequestVote(m) PROVE Calm
    <2>1. \E called : PersistIf(called, m.to)
      BY <1>2 DEF RequestVote
    <2> QED
      BY <1>1, <1>2, <2>1, SnapshotStays DEF RequestVote, Calm, logVars, applyVars, commitVars
  <1>3. ASSUME StepDown(m) PROVE Calm
    <2>1. PersistIf(TRUE, m.from)
      BY <1>3 DEF StepDown
    <2> QED
      BY <1>1, <1>3, <2>1, SnapshotStays DEF StepDown, Calm, logVars, applyVars, commitVars
  <1>4. ASSUME CountVote(m) PROVE Calm
    BY <1>4 DEF CountVote, Calm, logVars, applyVars, commitVars
  <1>5. ASSUME AppendEntries(m) PROVE Calm
    <2>1. /\ UNCHANGED <<chosen, applyVars>>
          /\ RefuseStaleAppend(m) \/ RefuseMismatch(m) \/ AcceptAppend(m)
      BY <1>5 DEF AppendEntries
    <2>2. UNCHANGED lastIncludedIndex
      BY <2>1, AcceptFacts DEF RefuseStaleAppend, RefuseMismatch, logVars
    <2>3. UNCHANGED persister \/ \E called : PersistIf(called, m.to)
      BY <2>1, AcceptFacts DEF RefuseStaleAppend, RefuseMismatch
    <2>4. \A j \in Server : persister'[j].snapshot = persister[j].snapshot
      BY <1>1, <2>3, SnapshotStays
    <2> QED
      BY <2>1, <2>2, <2>4 DEF Calm, applyVars
  <1>6. ASSUME HandleAppendReply(m) \/ HandleSnapshotReply(m)
        PROVE  Calm
    <2>1. UNCHANGED <<logVars, applyVars, persister>>
      BY <1>6 DEF HandleAppendReply, HandleSnapshotReply
    <2>2. UpdateCommitIndex(m.from) \/ UNCHANGED commitVars
      BY <1>6 DEF HandleAppendReply, HandleSnapshotReply
    <2>3. chosen \subseteq chosen'
      BY <2>2, ChosenGrows
    <2> QED
      BY <2>1, <2>3 DEF Calm, logVars, applyVars
  <1> QED
    BY <1>2, <1>3, <1>4, <1>5, <1>6

LEMMA CalmKeeps ==
  ASSUME Unsnapped, InStep, Calm
  PROVE  Unsnapped' /\ InStep'
  <1>1. Unsnapped'
    BY DEF Unsnapped, Calm
  <1>2. ASSUME NEW i \in Server
        PROVE  InStepAt(i)'
    <2>1. /\ InStepAt(i) /\ sm'[i] = sm[i] /\ applier'[i] = applier[i]
          /\ lastApplied'[i] = lastApplied[i] /\ chosen \subseteq chosen'
      BY DEF InStep, Calm
    <2>2. Executed(i)'
      BY <2>1 DEF InStepAt, Executed
    <2>3. applier'[i].pc = "sendCommand" => Delivering(i)'
      BY <2>1 DEF InStepAt, Delivering
    <2> QED
      BY <2>1, <2>2, <2>3 DEF InStepAt
  <1> QED
    BY <1>1, <1>2 DEF InStep

-----------------------------------------------------------------------------
(* Entries carry commands.                                                 *)

LEMMA BroadcastReal ==
  ASSUME Base, Ranges, NEW i \in Server, lastIncludedIndex[i] = 0, NEW entries \in Logs,
         RealFrom(entries, 2), Broadcast(i, entries)
  PROVE  \A m \in rpcs' : m \in rpcs \/ CallReal(m)
  <1> SUFFICES ASSUME NEW m \in rpcs', m \notin rpcs PROVE CallReal(m)
    OBVIOUS
  <1>1. PICK p \in Reachable(i) :
          m = IF nextIndex[i][p] <= lastIncludedIndex[i]
              THEN SnapshotCall(i, p) ELSE AppendCall(i, p, entries)
    BY DEF Broadcast, SendCalls
  <1>2. p \in Server /\ p # i
    BY SlotIsFree
  <1>3. PICK n \in Nat : n = nextIndex[i][p]
    BY <1>2 DEF Base, TypeOK, LeaderTypes
  <1>4. n >= 1 /\ n <= Len(entries)
    BY <1>2, <1>3 DEF Ranges, InRange, Broadcast
  <1>5. entries \in Seq(Entry) /\ Len(entries) \in Nat
    BY LenProperties DEF Logs
  <1>6. m = AppendCall(i, p, entries)
    BY <1>1, <1>3, <1>4
  <1>7. m.type = "AppendCall" /\ m.entries = SubSeq(entries, n - 1 - 0 + 2, Len(entries))
    BY <1>3, <1>6 DEF AppendCall
  <1>8. m.entries = SubSeq(entries, n + 1, Len(entries))
    <2>1. n - 1 - 0 + 2 = n + 1
      OBVIOUS
    <2> QED
      BY <1>7, <2>1
  <1>9. /\ Len(m.entries) = Len(entries) - (n + 1) + 1
        /\ \A k \in 1 .. Len(entries) - (n + 1) + 1 : m.entries[k] = entries[(n + 1) + k - 1]
    <2>1. n + 1 \in Nat /\ 1 <= n + 1 /\ n + 1 <= Len(entries) + 1
      BY <1>4, <1>5
    <2> QED
      BY <1>5, <1>8, <2>1, Slice
  <1>10. ASSUME NEW k \in 1 .. Len(m.entries)
         PROVE  m.entries[k].command \in Command
    <2>1. (n + 1) + k - 1 \in 2 .. Len(entries) /\ k \in 1 .. Len(entries) - (n + 1) + 1
      BY <1>4, <1>5, <1>9
    <2>2. entries[(n + 1) + k - 1].command \in Command
      BY <2>1 DEF RealFrom
    <2> QED
      BY <1>9, <2>1, <2>2
  <1> QED
    BY <1>7, <1>10 DEF CallReal, RealFrom

LEMMA ReturnReal ==
  ASSUME NEW m \in rpcs, NEW r, r.type \in {"VoteReply", "AppendReply", "SnapshotReply"},
         Return(m, r)
  PROVE  \A q \in rpcs' : q \in rpcs \/ CallReal(q)
  BY DEF Return, CallReal

LEMMA StartReal ==
  ASSUME Base, TypeOK', Ranges, Unsnapped, Reals, NEW i \in Server, NEW c \in Command, Start(i, c)
  PROVE  Reals'
  <1>1. /\ Submitted(currentTerm[i], c) \in Entry /\ log'[i] \in Logs
        /\ Len(log'[i]) = Len(log[i]) + 1
        /\ \A k \in 1 .. Len(log[i]) : log'[i][k] = log[i][k]
        /\ log'[i][Len(log[i]) + 1] = Submitted(currentTerm[i], c)
        /\ \A j \in Server \ {i} : log'[j] = log[j]
    BY StartFacts DEF Base
  <1>2. Len(log[i]) \in Nat
    BY LastTermIs DEF Base
  <1>3. RealFrom(log'[i], 2)
    <2> SUFFICES ASSUME NEW k \in 2 .. Len(log'[i])
                 PROVE  log'[i][k].command \in Command
      BY DEF RealFrom
    <2>1. CASE k = Len(log[i]) + 1
      BY <1>1, <2>1 DEF Submitted
    <2>2. CASE k # Len(log[i]) + 1
      <3>1. k \in 2 .. Len(log[i]) /\ k \in 1 .. Len(log[i])
        BY <1>1, <1>2, <2>2
      <3> QED
        BY <1>1, <3>1 DEF Reals, RealFrom
    <2> QED
      BY <2>1, <2>2
  <1>4. PICK entries \in Logs : entries = log'[i]
    BY <1>1
  <1>5. Broadcast(i, entries) /\ RealFrom(entries, 2) /\ lastIncludedIndex[i] = 0
    BY <1>3, <1>4 DEF Start, Unsnapped
  <1>6. \A m \in rpcs' : CallReal(m)
    BY <1>5, BroadcastReal DEF Reals
  <1>7. \A j \in Server : RealFrom(log'[j], 2)
    BY <1>1, <1>3 DEF Reals
  <1>8. \A j \in Server : RealFrom(log[j], 2)'
    BY <1>7 DEF RealFrom
  <1>9. \A m \in rpcs' : CallReal(m)'
    BY <1>6 DEF CallReal, RealFrom
  <1> QED
    BY <1>8, <1>9 DEF Reals

LEMMA AcceptReal ==
  ASSUME Base, TypeOK', NEW L, NEW A, Inv(L, A), Unsnapped, Reals, NEW m \in rpcs,
         m.type = "AppendCall", AcceptAppend(m)
  PROVE  \A j \in Server : RealFrom(log'[j], 2)
  <1>1. PICK i \in Server, prev \in Nat, le \in Nat :
          i = m.to /\ prev = m.prevLogIndex /\ le = Len(m.entries)
    <2>1. m \in AppendCalls /\ m.to \in Server
      BY RpcKinds DEF Base, TypeOK
    <2>2. m.entries \in Seq(Entry) /\ m.prevLogIndex \in Nat
      BY <2>1 DEF AppendCalls
    <2>3. Len(m.entries) \in Nat
      BY <2>2, LenProperties
    <2> QED
      BY <2>1, <2>2, <2>3
  <1>2. PICK k \in 0 .. Len(m.entries) : Held(m.to, m, k) /\ Merges(m, k)
    BY AcceptFacts
  <1>3. k \in Nat /\ Matches(i, m) /\ lastIncludedIndex[i] = 0
    <2>1. Matches(m.to, m)
      BY AcceptFacts
    <2>2. k \in Nat
      BY <1>2
    <2> QED
      BY <1>1, <2>1, <2>2 DEF Unsnapped
  <1>4. /\ m.entries \in Seq(Entry) /\ log[i] \in Seq(Entry) /\ Len(log[i]) \in Nat \ {0}
        /\ RealFrom(log[i], 2) /\ RealFrom(m.entries, 1)
    <2>1. m \in AppendCalls
      BY RpcKinds DEF Base, TypeOK
    <2> QED
      BY <2>1, LogFacts DEF AppendCalls, Base, TypeOK, Reals, CallReal
  <1>5. \A j \in Server \ {i} : log'[j] = log[j]
    BY <1>1, <1>2 DEF Merges, Base, TypeOK, LogTypes
  <1>6. CASE ~Truncates(m, k)
    <2>1. log'[i] = log[i]
      BY <1>1, <1>2, <1>6 DEF Merges, Base, TypeOK, LogTypes
    <2> QED
      BY <1>5, <2>1 DEF Reals
  <1>7. CASE Truncates(m, k)
    <2>1. k < le
      BY <1>1, <1>7 DEF Truncates
    <2>2. prev + k <= LastIndex(i)
      BY <1>1, <1>2, <1>3, HeldAgrees DEF Base
    <2>3. LastIndex(i) = Len(log[i]) - 1
      BY <1>3, <1>4 DEF LastIndex
    <2>4. PICK c \in Nat : c = prev + k + 1 /\ c >= 1 /\ c <= Len(log[i])
      BY <1>3, <1>4, <2>2, <2>3
    <2>5. prev + k - 0 + 1 = c
      BY <1>3, <2>4
    <2>6. log'[i] = SubSeq(log[i], 1, prev + k - 0 + 1) \o SubSeq(m.entries, k + 1, le)
      BY <1>1, <1>2, <1>3, <1>7 DEF Merges, Base, TypeOK, LogTypes
    <2>7. log'[i] = SubSeq(log[i], 1, c) \o SubSeq(m.entries, k + 1, le)
      BY <2>5, <2>6
    <2>8. PICK s \in Seq(Entry), es \in Seq(Entry), ls \in Nat :
            s = log[i] /\ es = m.entries /\ ls = Len(s) /\ le = Len(es)
      BY <1>1, <1>4
    <2>9. Spliced(SubSeq(s, 1, c) \o SubSeq(es, k + 1, le), s, es, c, k, le)
      BY <1>3, <2>1, <2>4, <2>8, Merged
    <2>10. Spliced(log'[i], s, es, c, k, le)
      BY <2>7, <2>8, <2>9
    <2>11. PICK r : r = log'[i]
      OBVIOUS
    <2>12. /\ Len(r) = c + (le - k)
           /\ \A y \in 1 .. c + (le - k) : r[y] = IF y <= c THEN s[y] ELSE es[k + (y - c)]
      BY <2>10, <2>11 DEF Spliced
    <2>13. (\A y \in 2 .. ls : s[y].command \in Command)
           /\ \A y \in 1 .. le : es[y].command \in Command
      BY <1>1, <1>4, <2>8 DEF RealFrom
    <2>14. ASSUME NEW y \in 2 .. Len(r)
           PROVE  r[y].command \in Command
      <3>1. y \in 1 .. c + (le - k)
        BY <1>3, <2>4, <2>12
      <3>2. CASE y <= c
        <4>1. y \in 2 .. ls
          BY <2>4, <2>8, <3>2
        <4> QED
          BY <2>12, <2>13, <3>1, <3>2, <4>1
      <3>3. CASE ~(y <= c)
        <4>1. k + (y - c) \in 1 .. le
          BY <1>3, <2>1, <2>4, <3>1, <3>3
        <4> QED
          BY <2>12, <2>13, <3>1, <3>3, <4>1
      <3> QED
        BY <3>2, <3>3
    <2>15. RealFrom(log'[i], 2)
      BY <2>11, <2>14 DEF RealFrom
    <2> QED
      BY <1>5, <2>15 DEF Reals
  <1> QED
    BY <1>6, <1>7

LEMMA RealFrame ==
  ASSUME Reals, \A j \in Server : RealFrom(log'[j], 2),
         \A m \in rpcs' : m \in rpcs \/ CallReal(m)
  PROVE  Reals'
  <1>1. \A j \in Server : RealFrom(log[j], 2)'
    BY DEF RealFrom
  <1>2. \A m \in rpcs' : CallReal(m)
    BY DEF Reals
  <1>3. \A m \in rpcs' : CallReal(m)'
    BY <1>2 DEF CallReal, RealFrom
  <1> QED
    BY <1>1, <1>3 DEF Reals

LEMMA LogsReal ==
  ASSUME Reals, log' = log
  PROVE  \A j \in Server : RealFrom(log'[j], 2)
  BY DEF Reals

LEMMA AppendEntriesReal ==
  ASSUME Base, TypeOK', NEW L, NEW A, Inv(L, A), Unsnapped, Reals, NEW m \in rpcs,
         AppendEntries(m)
  PROVE  Reals'
  <1>1. m.type = "AppendCall"
    BY DEF AppendEntries
  <1>2. \A j \in Server : RealFrom(log'[j], 2)
    <2>1. CASE RefuseStaleAppend(m) \/ RefuseMismatch(m)
      BY <2>1, LogsReal DEF RefuseStaleAppend, RefuseMismatch, logVars
    <2>2. CASE AcceptAppend(m)
      BY <1>1, <2>2, AcceptReal
    <2> QED
      BY <2>1, <2>2 DEF AppendEntries
  <1>3. \E t, s, x : Return(m, AppendReply(m, t, s, x))
    BY AcceptFacts DEF AppendEntries, RefuseStaleAppend, RefuseMismatch
  <1>4. PICK t, s, x : Return(m, AppendReply(m, t, s, x))
    BY <1>3
  <1>5. AppendReply(m, t, s, x).type = "AppendReply"
    BY DEF AppendReply
  <1>6. \A q \in rpcs' : q \in rpcs \/ CallReal(q)
    BY <1>4, <1>5, ReturnReal
  <1> QED
    BY <1>2, <1>6, RealFrame

LEMMA RestartReal ==
  ASSUME Base, Unsnapped, Reals, NEW i \in Server, Restart(i)
  PROVE  Reals'
  <1>1. \A j \in Server : log'[j] = log[j]
    BY DiskAtRestart DEF Base, Kept
  <1>2. rpcs' = {Orphan(i, m) : m \in {r \in rpcs : r.from = i => r.type \in CallTypes}}
    BY DEF Restart
  <1>3. ASSUME NEW m \in rpcs'
        PROVE  CallReal(m)
    <2>1. PICK r \in rpcs : m = Orphan(i, r) /\ (r.from = i => r.type \in CallTypes)
      BY <1>2
    <2>2. CallReal(r)
      BY DEF Reals
    <2>3. m.type = r.type /\ (r.type = "AppendCall" => m.entries = r.entries)
      BY <2>1, RpcKinds DEF Orphan, CallTypes, VoteCalls, AppendCalls, SnapshotCalls, Base, TypeOK
    <2> QED
      BY <2>2, <2>3 DEF CallReal
  <1>4. \A j \in Server : RealFrom(log'[j], 2)
    BY <1>1 DEF Reals
  <1> QED
    BY <1>3, <1>4, RealFrame

LEMMA RealsStep ==
  ASSUME Base, TypeOK', LogInv, Compactable = {}, Unsnapped, Reals, [Next]_vars
  PROVE  Reals'
  <1> PICK L, A : Inv(L, A)
    BY DEF LogInv
  <1>0. Ranges
    BY DEF Inv
  <1>1. ASSUME log' = log, rpcs' \subseteq rpcs
        PROVE  Reals'
    BY <1>1, LogsReal, RealFrame
  <1>2. ASSUME NEW i \in Server, Timeout(i) \/ Apply(i)
        PROVE  Reals'
    BY <1>1, <1>2 DEF Timeout, Apply, logVars
  <1>3. ASSUME NEW i \in Server, Heartbeat(i)
        PROVE  Reals'
    <2>1. PICK entries \in Logs : entries = log[i]
      BY DEF Base, TypeOK, LogTypes
    <2>2. log' = log /\ Broadcast(i, entries) /\ RealFrom(entries, 2) /\ lastIncludedIndex[i] = 0
      BY <1>3, <2>1 DEF Heartbeat, logVars, Reals, Unsnapped
    <2>3. \A m \in rpcs' : m \in rpcs \/ CallReal(m)
      BY <1>0, <2>2, BroadcastReal
    <2> QED
      BY <2>2, <2>3, LogsReal, RealFrame
  <1>4. ASSUME NEW i \in Server, NEW e \in electionCalls[i], CallElection(i, e)
        PROVE  Reals'
    <2>1. log' = log /\ SendCalls({VoteCall(i, p, e) : p \in Reachable(i)})
      BY <1>4 DEF CallElection, logVars
    <2>2. \A m \in rpcs' : m \in rpcs \/ m.type = "VoteCall"
      BY <2>1 DEF SendCalls, VoteCall
    <2>3. \A m \in rpcs' : m \in rpcs \/ CallReal(m)
      BY <2>2 DEF CallReal
    <2> QED
      BY <2>1, <2>3, LogsReal, RealFrame
  <1>5. ASSUME NEW m \in rpcs, RequestVote(m)
        PROVE  Reals'
    <2>1. log' = log /\ Return(m, VoteReply(m, currentTerm'[m.to], MayVote(m.to, m)))
      BY <1>5 DEF RequestVote, logVars
    <2>2. VoteReply(m, currentTerm'[m.to], MayVote(m.to, m)).type = "VoteReply"
      BY DEF VoteReply
    <2>3. \A q \in rpcs' : q \in rpcs \/ CallReal(q)
      BY <2>1, <2>2, ReturnReal
    <2> QED
      BY <2>1, <2>3, LogsReal, RealFrame
  <1>6. ASSUME NEW m \in rpcs,
               StepDown(m) \/ CountVote(m) \/ HandleAppendReply(m) \/ HandleSnapshotReply(m)
        PROVE  Reals'
    <2>1. log' = log /\ rpcs' = rpcs \ {m}
      BY <1>6 DEF StepDown, CountVote, HandleAppendReply, HandleSnapshotReply, Received, logVars
    <2> QED
      BY <1>1, <2>1
  <1>7. ASSUME NEW m \in rpcs
        PROVE  ~InstallSnapShot(m)
    BY DEF Reals, CallReal, InstallSnapShot
  <1>8. ASSUME NEW i \in Server
        PROVE  ~Snapshot(i)
    BY DEF Snapshot
  <1>9. CASE UNCHANGED vars
    BY <1>1, <1>9 DEF vars, logVars
  <1> QED
    BY <1>0, <1>2, <1>3, <1>4, <1>5, <1>6, <1>7, <1>8, <1>9, StartReal, RestartReal,
       AppendEntriesReal DEF Next, Handle

-----------------------------------------------------------------------------
(* The applier and the service.                                            *)

\* The next command to deliver is committed, and is in the log.
LEMMA NextInStep ==
  ASSUME Base, LogInv, Unsnapped, Reals, NEW i \in Server, Executed(i), Len(sm[i]) = lastApplied[i],
         NextCommand(i), UNCHANGED <<sm, chosen>>
  PROVE  InStepAt(i)' /\ applier'[i].pc \in Sending
         /\ \A j \in Server \ {i} : applier'[j] = applier[j] /\ lastApplied'[j] = lastApplied[j]
  <1>1. /\ lastApplied[i] \in Nat /\ commitIndex[i] \in Nat /\ log[i] \in Seq(Entry)
        /\ applier \in [Server -> Messages] /\ lastApplied \in [Server -> Nat]
        /\ Len(log[i]) \in Nat \ {0} /\ lastIncludedIndex[i] = 0
    BY LogFacts DEF Base, TypeOK, ApplyTypes, CommitTypes, Unsnapped
  <1>2. Executed(i)'
    BY DEF Executed
  <1>3. CASE lastApplied[i] < commitIndex[i]
    <2>1. PICK x \in Nat : x = lastApplied[i] + 1
      BY <1>1
    <2>2. PICK cmd : cmd = log[i][x - lastIncludedIndex[i] + 1].command
      OBVIOUS
    <2>3. /\ HasIndex(i, x) /\ lastApplied' = [lastApplied EXCEPT ![i] = x]
          /\ applier' = [applier EXCEPT ![i] =
               [Idle EXCEPT !.pc = "sendCommand", !.index = x, !.command = cmd]]
      BY <1>3, <2>1, <2>2 DEF NextCommand
    <2>4. /\ lastApplied'[i] = x /\ applier'[i].pc = "sendCommand" /\ applier'[i].command = cmd
          /\ \A j \in Server \ {i} : applier'[j] = applier[j] /\ lastApplied'[j] = lastApplied[j]
      BY <1>1, <2>3 DEF Idle
    <2>5. x \in 0 .. Len(log[i]) - 1 /\ x > 0 /\ x \in lastIncludedIndex[i] .. commitIndex[i]
      <3>1. x \in 0 .. LastIndex(i) /\ LastIndex(i) = 0 + Len(log[i]) - 1
        BY <1>1, <2>3 DEF HasIndex, LastIndex
      <3> QED
        BY <1>1, <1>3, <2>1, <3>1
    <2>6. x - lastIncludedIndex[i] + 1 = x + 1 /\ x + 1 \in 2 .. Len(log[i])
      BY <1>1, <2>5
    <2>7. cmd \in Command
      BY <2>2, <2>6 DEF Reals, RealFrom
    <2>8. StateMachineSafety
      BY LogSafe
    <2>9. PICK c \in chosen :
            c.index = x /\ c.entry = log[i][x - lastIncludedIndex[i] + 1]
      BY <1>1, <2>5, <2>8 DEF StateMachineSafety
    <2>10. Delivering(i)'
      BY <2>1, <2>2, <2>4, <2>7, <2>9 DEF Delivering
    <2> QED
      BY <1>2, <2>4, <2>10 DEF InStepAt, Sending
  <1>4. CASE ~(lastApplied[i] < commitIndex[i])
    <2>1. applier' = [applier EXCEPT ![i] = [Idle EXCEPT !.pc = "top"]] /\ lastApplied' = lastApplied
      BY <1>4 DEF NextCommand, Goto
    <2>2. applier'[i].pc = "top" /\ \A j \in Server \ {i} : applier'[j] = applier[j]
      BY <1>1, <2>1 DEF Idle
    <2> QED
      BY <1>2, <2>1, <2>2 DEF InStepAt, Sending
  <1> QED
    BY <1>3, <1>4

\* The service executes the command that is on its way.
LEMMA DoOpInStep ==
  ASSUME Base, Unsnapped, NEW i \in Server, InStepAt(i), ReaderDoOp(i), UNCHANGED chosen
  PROVE  InStepAt(i)' /\ applier'[i].pc \in Sending
         /\ \A j \in Server \ {i} : applier'[j] = applier[j] /\ sm'[j] = sm[j]
  <1>1. /\ lastApplied[i] \in Nat /\ sm[i] \in Seq(Command) /\ Len(sm[i]) \in Nat
        /\ applier \in [Server -> Messages] /\ sm \in [Server -> Seq(Command)]
    BY LenProperties DEF Base, TypeOK, ApplyTypes
  <1>2. applier[i].pc = "sendCommand" /\ Executed(i) /\ Delivering(i)
    BY DEF ReaderDoOp, InStepAt
  <1>3. PICK cmd \in Command : cmd = applier[i].command
    BY <1>2 DEF Delivering
  <1>4. /\ sm' = [sm EXCEPT ![i] = Append(sm[i], cmd)] /\ lastApplied' = lastApplied
        /\ applier' = [applier EXCEPT ![i] = [Idle EXCEPT !.pc = "sentCommand"]]
    <2>1. applier[i].command # None
      BY <1>3, ServerAssumption
    <2> QED
      BY <1>3, <2>1 DEF ReaderDoOp, Goto
  <1>5. /\ applier'[i].pc = "sentCommand" /\ \A j \in Server \ {i} : applier'[j] = applier[j]
    BY <1>1, <1>4 DEF Idle
  <1>6. sm'[i] = Append(sm[i], cmd) /\ \A j \in Server \ {i} : sm'[j] = sm[j]
    BY <1>1, <1>4
  <1>7. /\ Len(sm'[i]) = Len(sm[i]) + 1 /\ sm'[i][Len(sm[i]) + 1] = cmd
        /\ \A x \in 1 .. Len(sm[i]) : sm'[i][x] = sm[i][x]
    BY <1>1, <1>6, AppendProperties
  <1>8. Len(sm'[i]) = lastApplied'[i]
    BY <1>2, <1>4, <1>7 DEF Delivering
  <1>9. ASSUME NEW x \in 1 .. Len(sm'[i])
        PROVE  \E c \in chosen' : c.index = x /\ c.entry.command = sm'[i][x]
    <2>1. CASE x = Len(sm[i]) + 1
      BY <1>2, <1>3, <1>7, <2>1 DEF Delivering
    <2>2. CASE x # Len(sm[i]) + 1
      <3>1. x \in 1 .. Len(sm[i])
        BY <1>1, <1>7, <2>2
      <3> QED
        BY <1>2, <1>7, <3>1 DEF Executed
    <2> QED
      BY <2>1, <2>2
  <1>10. Executed(i)'
    BY <1>9 DEF Executed
  <1> QED
    BY <1>5, <1>6, <1>8, <1>10 DEF InStepAt, Sending

LEMMA OthersInStep ==
  ASSUME Unsnapped, InStep, chosen' = chosen, UNCHANGED <<lastIncludedIndex, persister>>,
         NEW i \in Server, InStepAt(i)', applier'[i].pc \in Sending, snapshotPending'[i] = NoPending,
         \A j \in Server \ {i} : /\ applier'[j] = applier[j] /\ lastApplied'[j] = lastApplied[j]
                                 /\ sm'[j] = sm[j] /\ snapshotPending'[j] = snapshotPending[j]
  PROVE  Unsnapped' /\ InStep'
  <1>1. Unsnapped'
    BY DEF Unsnapped
  <1>2. ASSUME NEW j \in Server \ {i}
        PROVE  InStepAt(j)'
    <2>1. InStepAt(j)
      BY DEF InStep
    <2>2. Executed(j)'
      BY <2>1 DEF InStepAt, Executed
    <2>3. applier'[j].pc = "sendCommand" => Delivering(j)'
      BY <2>1 DEF InStepAt, Delivering
    <2> QED
      BY <2>1, <2>2, <2>3 DEF InStepAt
  <1> QED
    BY <1>1, <1>2 DEF InStep

LEMMA ApplyInStep ==
  ASSUME Base, LogInv, Unsnapped, Reals, InStep, NEW i \in Server, Apply(i)
  PROVE  Unsnapped' /\ InStep'
  <1>1. UNCHANGED <<chosen, lastIncludedIndex, persister>>
    BY DEF Apply, commitVars, logVars
  <1>2. InStepAt(i) /\ snapshotPending[i] = NoPending /\ applier[i].pc \in Sending
        /\ snapshotPending \in [Server -> Pendings] /\ NoPending.valid = FALSE
    BY DEF InStep, Unsnapped, NoPending, Base, TypeOK, ApplyTypes
  <1>3. CASE applier[i].pc # "sendCommand" /\ NextCommand(i) /\ UNCHANGED <<sm, snapshotPending>>
    <2>1. Executed(i) /\ Len(sm[i]) = lastApplied[i]
      BY <1>2, <1>3 DEF InStepAt
    <2>2. InStepAt(i)' /\ applier'[i].pc \in Sending
          /\ \A j \in Server \ {i} : applier'[j] = applier[j] /\ lastApplied'[j] = lastApplied[j]
      BY <1>1, <1>3, <2>1, NextInStep
    <2> QED
      BY <1>1, <1>2, <1>3, <2>2, OthersInStep
  <1>4. CASE ApplierTop(i)
    <2>1. applier[i].pc # "sendCommand" /\ NextCommand(i) /\ UNCHANGED <<sm, snapshotPending>>
      BY <1>2, <1>4 DEF ApplierTop
    <2> QED
      BY <1>3, <2>1
  <1>5. CASE ApplierSentCommand(i)
    BY <1>3, <1>5 DEF ApplierSentCommand
  <1>6. ~ApplierReadSnapshot(i) /\ ~ApplierSentSnapshot(i) /\ ~ReaderRestore(i)
    BY <1>2 DEF ApplierReadSnapshot, ApplierSentSnapshot, ReaderRestore, Sending
  <1>7. CASE ReaderDoOp(i)
    <2>1. UNCHANGED <<lastApplied, snapshotPending>>
      BY <1>7 DEF ReaderDoOp
    <2>2. InStepAt(i)' /\ applier'[i].pc \in Sending
          /\ \A j \in Server \ {i} : applier'[j] = applier[j] /\ sm'[j] = sm[j]
      BY <1>1, <1>2, <1>7, DoOpInStep
    <2> QED
      BY <1>1, <1>2, <2>1, <2>2, OthersInStep
  <1> QED
    BY <1>4, <1>5, <1>6, <1>7 DEF Apply

LEMMA RestartInStep ==
  ASSUME Base, Unsnapped, InStep, NEW i \in Server, Restart(i)
  PROVE  Unsnapped' /\ InStep'
  <1>1. \A j \in Server : lastIncludedIndex'[j] = lastIncludedIndex[j]
    BY DiskAtRestart DEF Base, Kept
  <1>2. Len(persister[i].snapshot) = 0
    BY EmptySeq DEF Unsnapped
  <1>3. /\ lastApplied' = [lastApplied EXCEPT ![i] = 0]
        /\ snapshotPending' = [snapshotPending EXCEPT ![i] = NoPending]
        /\ applier' = [applier EXCEPT ![i] = Idle] /\ sm' = [sm EXCEPT ![i] = <<>>]
        /\ UNCHANGED <<persister, chosen>>
    BY <1>2 DEF Restart, PendingAtStart
  <1>4. /\ lastApplied'[i] = 0 /\ snapshotPending'[i] = NoPending /\ applier'[i].pc = "top"
        /\ sm'[i] = <<>> /\ Len(sm'[i]) = 0
        /\ \A j \in Server \ {i} : /\ applier'[j] = applier[j] /\ lastApplied'[j] = lastApplied[j]
                                   /\ sm'[j] = sm[j] /\ snapshotPending'[j] = snapshotPending[j]
    BY <1>3, EmptySeq DEF Idle, Base, TypeOK, ApplyTypes
  <1>5. InStepAt(i)'
    <2>1. Executed(i)'
      BY <1>4 DEF Executed
    <2> QED
      BY <1>4, <2>1 DEF InStepAt
  <1>6. UNCHANGED lastIncludedIndex
    BY <1>1 DEF Restart, Base, TypeOK, LogTypes
  <1>7. applier'[i].pc \in Sending
    BY <1>4 DEF Sending
  <1> QED
    BY <1>3, <1>4, <1>5, <1>6, <1>7, OthersInStep

-----------------------------------------------------------------------------

ServiceInv == Unsnapped /\ Reals /\ InStep

LEMMA ServiceInit == Init => ServiceInv
  <1> SUFFICES ASSUME Init PROVE ServiceInv
    OBVIOUS
  <1>1. Len(InitialLog) = 1 /\ Len(<<>>) = 0
    BY EmptySeq DEF InitialLog
  <1>2. Unsnapped
    <2> SUFFICES ASSUME NEW i \in Server
                 PROVE  /\ lastIncludedIndex[i] = 0 /\ persister[i].snapshot = <<>>
                        /\ snapshotPending[i] = NoPending /\ applier[i].pc \in Sending
      BY DEF Unsnapped
    <2>1. persister[i] = Persisted(i, <<>>) /\ applier[i] = Idle
      BY DEF Init
    <2>2. persister[i].snapshot = <<>>
      BY <2>1 DEF Persisted
    <2>3. applier[i].pc \in Sending
      BY <2>1 DEF Idle, Sending
    <2> QED
      BY <2>2, <2>3 DEF Init
  <1>3. Reals
    <2>1. \A i \in Server : log[i] = InitialLog
      BY DEF Init
    <2>2. RealFrom(InitialLog, 2)
      BY <1>1 DEF RealFrom
    <2>3. rpcs = {}
      BY DEF Init
    <2> QED
      BY <2>1, <2>2, <2>3 DEF Reals
  <1>4. ASSUME NEW i \in Server
        PROVE  InStepAt(i)
    <2>1. sm[i] = <<>> /\ applier[i] = Idle /\ lastApplied[i] = 0
      BY DEF Init
    <2>2. Len(sm[i]) = 0 /\ applier[i].pc = "top"
      BY <1>1, <2>1 DEF Idle
    <2>3. Executed(i)
      BY <2>2 DEF Executed
    <2> QED
      BY <2>1, <2>2, <2>3 DEF InStepAt
  <1> QED
    BY <1>2, <1>3, <1>4 DEF ServiceInv, InStep

LEMMA ServiceStep ==
  ASSUME Base, TypeOK', LogInv, Compactable = {}, ServiceInv, [Next]_vars
  PROVE  ServiceInv'
  <1>1. Reals' /\ Unsnapped /\ Reals /\ InStep
    BY RealsStep DEF ServiceInv
  <1>2. CASE Calm
    BY <1>1, <1>2, CalmKeeps DEF ServiceInv
  <1>3. ASSUME NEW i \in Server, Apply(i)
        PROVE  ServiceInv'
    BY <1>1, <1>3, ApplyInStep DEF ServiceInv
  <1>4. ASSUME NEW i \in Server, Restart(i)
        PROVE  ServiceInv'
    BY <1>1, <1>4, RestartInStep DEF ServiceInv
  <1>5. ASSUME NEW i \in Server
        PROVE  ~Snapshot(i)
    BY DEF Snapshot
  <1>6. ASSUME NEW m \in rpcs
        PROVE  ~InstallSnapShot(m)
    BY <1>1 DEF Reals, CallReal, InstallSnapShot
  <1>7. CASE UNCHANGED vars
    <2>1. Calm
      BY <1>7 DEF vars, logVars, applyVars, commitVars, Calm
    <2> QED
      BY <1>2, <2>1
  <1> QED
    BY <1>2, <1>3, <1>4, <1>5, <1>6, <1>7, CalmActions, CalmHandlers DEF Next, Handle

LEMMA ServiceSteps ==
  ASSUME Compactable = {}
  PROVE  Base /\ TypeOK' /\ LogInv /\ ServiceInv /\ [Next]_vars => ServiceInv'
  BY ServiceStep

LEMMA InStepFollows == ServiceInv => ServiceInStep
  BY DEF ServiceInv, InStep, InStepAt, ServiceInStep

\* When nothing is ever compacted (maxraftstate is -1, rsm.go:49), the service
\* has executed exactly the entries up to lastApplied, in order, whenever the
\* applier is between two batches: no message is lost, repeated or out of order
\* across restarts and rewritten logs.  With compaction the run
\* raft_snapshot_rollback shows that it is false.
THEOREM ServiceStaysInStep ==
  ASSUME Compactable = {}
  PROVE  Spec => []ServiceInStep
  BY LogAlways, TypeCorrect, ServiceInit, ServiceSteps, InStepFollows, PTL DEF Spec

=============================================================================
