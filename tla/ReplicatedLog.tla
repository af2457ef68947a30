---------------------------- MODULE ReplicatedLog ----------------------------
(***************************************************************************)
(* raft/raft.go as the service above it sees it: who leads in which term,  *)
(* the logs, and how much of them is committed.  An election, the delivery *)
(* of an AppendEntries and the decision to commit are one step each; Raft  *)
(* is the detailed model.  Modules that submit operations to the log (RSM) *)
(* extend this one.                                                        *)
(***************************************************************************)
EXTENDS Naturals, Sequences, FiniteSets

CONSTANTS
  Server,
  MaxTerm,   \* bound: no election beyond this term
  MaxLog,    \* bound: entries in a log
  Electable  \* bound: the servers that stand for election

ASSUME GroupAssumption ==
  IsFiniteSet(Server) /\ MaxTerm \in Nat /\ MaxLog \in Nat /\ Electable \subseteq Server

VARIABLES
  term, leader,  \* per server: its term, and whether it leads in it
  log,           \* per server: entries [term, op]; entry x is at index x
  commitIndex,
  matchIndex     \* per leader and server: how much of the leader's log it is known to
                 \* have accepted; nobody reads it of a server that does not lead

group == <<term, leader, log, commitIndex, matchIndex>>

GroupInit ==
  /\ term = [i \in Server |-> 0]
  /\ leader = [i \in Server |-> FALSE]
  /\ log = [i \in Server |-> <<>>]
  /\ commitIndex = [i \in Server |-> 0]
  /\ matchIndex = [i \in Server |-> [j \in Server |-> 0]]

Majorities == {Q \in SUBSET Server : 2 * Cardinality(Q) > Cardinality(Server)}

\* Mutant: a voter does not look at the candidate's log.
AnyLog(i, q) == TRUE

LastTerm(i) == IF log[i] = <<>> THEN 0 ELSE log[i][Len(log[i])].term
UpToDate(i, q) ==
  \/ LastTerm(i) > LastTerm(q)
  \/ LastTerm(i) = LastTerm(q) /\ Len(log[i]) >= Len(log[q])

\* The servers in Q move to term t; whoever led among them does no longer.
Adopt(Q, t) == term' = [q \in Server |-> IF q \in Q THEN t ELSE term[q]]
Forgotten(Q) ==
  [q \in Server |-> IF q \in Q THEN [j \in Server |-> 0] ELSE matchIndex[q]]

\* An election that i wins with the votes of Q.
Elect(i, Q) ==
  LET t == term[i] + 1 IN
  /\ i \in Electable /\ ~leader[i] /\ t <= MaxTerm /\ i \in Q
  /\ \A q \in Q : term[q] < t /\ UpToDate(i, q)
  /\ Adopt(Q, t)
  /\ leader' = [q \in Server |-> IF q \in Q THEN q = i ELSE leader[q]]
  /\ matchIndex' = Forgotten(Q)
  /\ UNCHANGED <<log, commitIndex>>

\* An election that i does not win, as far as it has come.
Campaign(i) ==
  /\ i \in Electable /\ ~leader[i] /\ term[i] < MaxTerm
  /\ Adopt({i}, term[i] + 1)
  /\ UNCHANGED <<leader, log, commitIndex, matchIndex>>

\* i hears of j's term, in a call or in a reply, and follows.
StepDown(i, j) ==
  /\ term[j] > term[i]
  /\ Adopt({i}, term[j])
  /\ leader' = [leader EXCEPT ![i] = FALSE]
  /\ matchIndex' = Forgotten({i})
  /\ UNCHANGED <<log, commitIndex>>

\* Start() on a leader.
AppendEntry(i, op) == log' = [log EXCEPT ![i] = Append(@, [term |-> term[i], op |-> op])]

Prefix(i, n) == SubSeq(log[i], 1, n)
Agrees(i, j, n) == Len(log[j]) >= n /\ Prefix(j, n) = Prefix(i, n)

\* The commit rule: a majority has accepted the entry from this very leader, and
\* it is of the leader's term.  Nothing else that others accept is counted.
OwnTerm(i, x) == log[i][x].term = term[i]
Matched(i, x) == {j \in Server : j = i \/ matchIndex[i][j] >= x}
Counts(i, n) == n > commitIndex[i] /\ OwnTerm(i, n)

\* j handles a call of leader i that brought its log up to index n when commit
\* was i's commitIndex; a delayed call may be shorter and older than i's log.  If
\* the reply is late, i's decision to commit is late.
AppendEntries(i, j, n, commit) ==
  /\ leader[i] /\ j # i /\ term[j] <= term[i]
  /\ Adopt({j}, term[i])
  /\ leader' = [leader EXCEPT ![j] = FALSE]
  /\ log' = [log EXCEPT ![j] = IF Agrees(i, j, n) THEN @ ELSE Prefix(i, n)]
  /\ commitIndex' = [commitIndex EXCEPT ![j] = IF commit > @ THEN commit ELSE @]
  /\ matchIndex' = [Forgotten({j}) EXCEPT ![i][j] = IF Counts(i, n) /\ n > @ THEN n ELSE @]

Commit(i, x) ==
  /\ leader[i] /\ Counts(i, x)
  /\ Matched(i, x) \in Majorities
  /\ commitIndex' = [commitIndex EXCEPT ![i] = x]
  /\ UNCHANGED <<term, leader, log, matchIndex>>

\* A crash loses who leads and what is committed, not the log and the term.
Reboot(i) ==
  /\ leader' = [leader EXCEPT ![i] = FALSE]
  /\ commitIndex' = [commitIndex EXCEPT ![i] = 0]
  /\ matchIndex' = Forgotten({i})
  /\ UNCHANGED <<term, log>>

GroupNext ==
  \E i \in Server :
    \/ Campaign(i) \/ \E Q \in Majorities : Elect(i, Q)
    \/ \E j \in Server : StepDown(i, j)
    \/ \E j \in Server : \E n \in 0 .. Len(log[i]) : \E commit \in 0 .. commitIndex[i] :
         commit <= n /\ AppendEntries(i, j, n, commit)
    \/ \E x \in 1 .. Len(log[i]) : Commit(i, x)

GroupTypes ==
  /\ term \in [Server -> Nat]
  /\ leader \in [Server -> BOOLEAN]
  /\ \A i \in Server : \A x \in 1 .. Len(log[i]) : log[i][x].term \in 1 .. MaxTerm
  /\ commitIndex \in [Server -> Nat]
  /\ \A i \in Server : commitIndex[i] <= Len(log[i])
  /\ matchIndex \in [Server -> [Server -> Nat]]
=============================================================================
