------------------------------ MODULE RSMProofs ------------------------------
(***************************************************************************)
(* Proved of RSM for every number of servers, callers, terms and entries:  *)
(* its types, that all servers execute the same operations in the same     *)
(* order and none twice, and, when no server restarts, that an answer is   *)
(* that of the caller's own operation and that RSM implements Submission.  *)
(* The first part is about the group alone (ReplicatedLog): what is        *)
(* committed is never lost.                                                *)
(***************************************************************************)
EXTENDS RSM, FiniteSetTheorems, SequenceTheorems, TLAPS

-----------------------------------------------------------------------------
(* The group's invariant.                                                  *)

Entry == [term : Nat, op : Ops]

\* The servers that have come to term t or beyond.
Reached(t) == {q \in Server : term[q] >= t}

LogTypes ==
  /\ term \in [Server -> 0 .. MaxTerm] /\ leader \in [Server -> BOOLEAN]
  /\ log \in [Server -> Seq(Entry)] /\ commitIndex \in [Server -> Nat]
  /\ matchIndex \in [Server -> [Server -> Nat]]

\* The terms in a log do not decrease, and the server has come to all of them.
TermsAscend ==
  \A i \in Server : \A x \in 1 .. Len(log[i]) :
    /\ 1 <= log[i][x].term /\ log[i][x].term <= term[i]
    /\ \A y \in 1 .. x : log[i][y].term <= log[i][x].term

\* A majority has come to a term that has a leader, or entries.
LeadersTaken == \A i \in Server : leader[i] => term[i] >= 1 /\ Reached(term[i]) \in Majorities
EntriesTaken ==
  \A i \in Server : \A x \in 1 .. Len(log[i]) : Reached(log[i][x].term) \in Majorities

OneLeader == \A i, j \in Server : leader[i] /\ leader[j] /\ term[i] = term[j] => i = j

\* Two logs with entries of one term are the same up to the earlier of them.
LogsMatch ==
  \A i, j \in Server : \A x \in 1 .. Len(log[i]) : \A y \in 1 .. Len(log[j]) :
    log[i][x].term = log[j][y].term /\ y <= x => \A z \in 1 .. y : log[i][z] = log[j][z]

\* A leader has all entries of its term.
LeaderHasAll ==
  \A i, j \in Server : \A x \in 1 .. Len(log[j]) :
    leader[i] /\ log[j][x].term = term[i] => x <= Len(log[i]) /\ log[i][x].term = term[i]

\* Who has accepted a leader's entries has come to its term.
MatchBounded ==
  \A i, j \in Server : leader[i] /\ matchIndex[i][j] > 0 =>
    matchIndex[i][j] <= Len(log[i]) /\ term[j] >= term[i]

LogInv ==
  /\ LogTypes /\ TermsAscend /\ LeadersTaken /\ EntriesTaken /\ OneLeader
  /\ LogsMatch /\ LeaderHasAll /\ MatchBounded

-----------------------------------------------------------------------------
(* What is committed.  g is a sequence of entries; its term is the last    *)
(* one's.                                                                  *)

Holds(i, g) == Len(g) <= Len(log[i]) /\ \A x \in 1 .. Len(g) : log[i][x] = g[x]
TermOf(g) == g[Len(g)].term

\* k leads in a term after t or has entries of one.
Beyond(k, t) ==
  \/ leader[k] /\ term[k] > t
  \/ \E y \in 1 .. Len(log[k]) : log[k][y].term > t

\* Whoever has gone beyond g has it.
Kept(g) == \A k \in Server : Beyond(k, TermOf(g)) => Holds(k, g)

\* A majority has g, and whoever has gone beyond it: g is never lost.
Safe(g) ==
  /\ g \in Seq(Entry) /\ Len(g) > 0
  /\ {q \in Server : Holds(q, g)} \in Majorities
  /\ Kept(g)

\* A majority has left the leader's term before it accepted entry x, which is
\* then never committed by this leader.
Blocked(i, x) == {q \in Server : term[q] > term[i] /\ matchIndex[i][q] < x} \in Majorities

\* What is known of an entry of the leader's own term: it is blocked, or those
\* that have accepted it have it still, and so has whoever went beyond it.
Undecided(i, x) ==
  \/ Blocked(i, x)
  \/ /\ Kept(Prefix(i, x))
     /\ \A q \in Server : matchIndex[i][q] >= x => Holds(q, Prefix(i, x))

LeadersKnow ==
  \A i \in Server : \A x \in 1 .. Len(log[i]) : leader[i] /\ OwnTerm(i, x) => Undecided(i, x)

\* What server i has committed is part of something safe, of a term i has
\* come to.
CommittedIn(i, g) ==
  /\ Safe(g) /\ TermOf(g) <= term[i]
  /\ commitIndex[i] <= Len(g) /\ commitIndex[i] <= Len(log[i])
  /\ \A x \in 1 .. commitIndex[i] : log[i][x] = g[x]

CommitsAreSafe == \A i \in Server : commitIndex[i] = 0 \/ \E g \in Seq(Entry) : CommittedIn(i, g)

GroupInv == LogInv /\ LeadersKnow /\ CommitsAreSafe

-----------------------------------------------------------------------------
(* Sequences and majorities.                                               *)

LEMMA PrefixIs ==
  ASSUME LogTypes, NEW i \in Server, NEW n \in 0 .. Len(log[i])
  PROVE  /\ Prefix(i, n) \in Seq(Entry) /\ Len(Prefix(i, n)) = n
         /\ \A z \in 1 .. n : Prefix(i, n)[z] = log[i][z]
<1>1. log[i] \in Seq(Entry)
  BY DEF LogTypes
<1> QED BY <1>1, SubSeqProperties DEF Prefix

LEMMA AgreesIs ==
  ASSUME LogTypes, NEW i \in Server, NEW j \in Server, NEW n \in 0 .. Len(log[i])
  PROVE  Agrees(i, j, n) <=> n <= Len(log[j]) /\ \A z \in 1 .. n : log[j][z] = log[i][z]
<1>1. log[j] \in Seq(Entry) /\ Len(log[j]) \in Nat /\ n \in Nat
  BY DEF LogTypes
<1>2. ASSUME n <= Len(log[j]), \A z \in 1 .. n : log[j][z] = log[i][z]
      PROVE  Prefix(j, n) = Prefix(i, n)
  <2>1. /\ Prefix(j, n) \in Seq(Entry) /\ Len(Prefix(j, n)) = n
        /\ \A z \in 1 .. n : Prefix(j, n)[z] = log[j][z]
    BY <1>1, <1>2, PrefixIs
  <2> QED BY <1>2, <2>1, PrefixIs, SeqEqual
<1>3. ASSUME n <= Len(log[j]), Prefix(j, n) = Prefix(i, n)
      PROVE  \A z \in 1 .. n : log[j][z] = log[i][z]
  <2>1. \A z \in 1 .. n : Prefix(j, n)[z] = log[j][z]
    BY <1>1, <1>3, PrefixIs
  <2> QED BY <1>3, <2>1, PrefixIs
<1> QED BY <1>1, <1>2, <1>3 DEF Agrees

LEMMA AppendIs ==
  ASSUME NEW S, NEW s \in Seq(S), NEW e \in S
  PROVE  /\ Append(s, e) \in Seq(S) /\ Len(Append(s, e)) = Len(s) + 1 /\ Len(s) \in Nat
         /\ \A z \in 1 .. Len(s) : Append(s, e)[z] = s[z]
         /\ Append(s, e)[Len(s) + 1] = e
BY AppendProperties

LEMMA MajorityGrows ==
  ASSUME NEW Q \in Majorities, NEW R \in SUBSET Server, Q \subseteq R
  PROVE  R \in Majorities
<1>1. /\ IsFiniteSet(Server) /\ IsFiniteSet(R) /\ Cardinality(Q) <= Cardinality(R)
      /\ Cardinality(Q) \in Nat /\ Cardinality(R) \in Nat /\ Cardinality(Server) \in Nat
  BY GroupAssumption, FS_Subset, FS_CardinalityType DEF Majorities
<1> QED BY <1>1 DEF Majorities

LEMMA MajoritiesMeet ==
  ASSUME NEW Q \in Majorities, NEW R \in Majorities
  PROVE  \E q \in Server : q \in Q /\ q \in R
<1>1. Q \subseteq Server /\ R \subseteq Server
  BY DEF Majorities
<1>2. /\ IsFiniteSet(Server) /\ Cardinality(Q) \in Nat /\ Cardinality(R) \in Nat
      /\ Cardinality(Server) \in Nat
  BY <1>1, GroupAssumption, FS_Subset, FS_CardinalityType
<1>3. Cardinality(Q) + Cardinality(R) > Cardinality(Server)
  BY <1>2 DEF Majorities
<1>4. Q \cap R # {}
  BY <1>1, <1>2, <1>3, FS_MajoritiesIntersect
<1> QED BY <1>1, <1>4

\* Terms only grow.
LEMMA ReachedGrows ==
  ASSUME LogTypes, LogTypes', \A k \in Server : term'[k] >= term[k], NEW t \in Int
  PROVE  Reached(t) \subseteq Reached(t)' /\ (Reached(t) \in Majorities => Reached(t)' \in Majorities)
<1>1. Reached(t) \subseteq Reached(t)'
  <2>1. \A k \in Server : term[k] \in Int /\ term'[k] \in Int
    BY DEF LogTypes
  <2> QED BY <2>1 DEF Reached
<1>2. Reached(t)' \in SUBSET Server
  BY DEF Reached
<1> QED BY <1>1, <1>2, MajorityGrows

-----------------------------------------------------------------------------
(* What the steps of the group do, as the proofs use it.                   *)

\* No log changes and nobody begins to lead.
Quiet ==
  /\ log' = log
  /\ \A k \in Server : /\ term'[k] >= term[k]
                       /\ leader'[k] => leader[k] /\ term'[k] = term[k]
                                        /\ matchIndex'[k] = matchIndex[k]

Elected(i, Q) ==
  /\ i \in Server /\ Q \in Majorities /\ i \in Q /\ ~leader[i] /\ log' = log
  /\ \A q \in Q : term[q] < term[i] + 1 /\ UpToDate(i, q) /\ term'[q] = term[i] + 1
  /\ \A q \in Q : leader'[q] => q = i
  /\ \A q \in Server : matchIndex'[i][q] = 0
  /\ \A k \in Server \ Q :
       term'[k] = term[k] /\ leader'[k] = leader[k] /\ matchIndex'[k] = matchIndex[k]

Appended(i) ==
  /\ leader[i] /\ UNCHANGED <<term, leader, matchIndex>>
  /\ Len(log'[i]) = Len(log[i]) + 1 /\ log'[i][Len(log[i]) + 1].term = term[i]
  /\ \A z \in 1 .. Len(log[i]) : log'[i][z] = log[i][z]
  /\ \A k \in Server : k # i => log'[k] = log[k]

Delivered(i, j, n) ==
  /\ leader[i] /\ j # i /\ n <= Len(log[i])
  /\ term[j] <= term[i] /\ term'[j] = term[i] /\ ~leader'[j]
  /\ \A k \in Server : k # j => term'[k] = term[k] /\ leader'[k] = leader[k] /\ log'[k] = log[k]
  /\ n <= Len(log'[j]) /\ \A z \in 1 .. n : log'[j][z] = log[i][z]
  /\ \/ log'[j] = log[j]
     \/ /\ Len(log'[j]) = n
        /\ n <= Len(log[j]) => \E z \in 1 .. n : log[j][z] # log[i][z]
  /\ \A k, q \in Server : leader'[k] =>
       \/ matchIndex'[k][q] = matchIndex[k][q]
       \/ k = i /\ q = j /\ matchIndex'[k][q] = n

LEMMA AdoptTypes ==
  ASSUME LogTypes, NEW Q \in SUBSET Server, NEW t \in 0 .. MaxTerm, Adopt(Q, t)
  PROVE  term' \in [Server -> 0 .. MaxTerm] /\ \A k \in Server : term'[k] = IF k \in Q THEN t ELSE term[k]
BY DEF LogTypes, Adopt

LEMMA ForgottenTypes ==
  ASSUME LogTypes, NEW Q \in SUBSET Server
  PROVE  /\ Forgotten(Q) \in [Server -> [Server -> Nat]]
         /\ \A k \in Server \ Q : Forgotten(Q)[k] = matchIndex[k]
         /\ \A k \in Q : \A q \in Server : Forgotten(Q)[k][q] = 0
BY DEF LogTypes, Forgotten

LEMMA QuietActions ==
  ASSUME LogTypes, NEW i \in Server,
         \/ Campaign(i) \/ \E j \in Server : StepDown(i, j)
         \/ \E x \in 1 .. Len(log[i]) : Commit(i, x)
         \/ Reboot(i)
  PROVE  LogTypes' /\ Quiet
<1>1. {i} \in SUBSET Server /\ \A k \in Server : term[k] \in Nat /\ term[k] <= MaxTerm
  BY GroupAssumption DEF LogTypes
<1>2. CASE Campaign(i)
  <2>1. term[i] + 1 \in 0 .. MaxTerm /\ Adopt({i}, term[i] + 1) /\ ~leader[i]
        /\ UNCHANGED <<leader, log, commitIndex, matchIndex>>
    BY <1>1, <1>2, GroupAssumption DEF Campaign
  <2>2. /\ term' \in [Server -> 0 .. MaxTerm]
        /\ \A k \in Server : term'[k] = IF k = i THEN term[i] + 1 ELSE term[k]
    BY <1>1, <2>1 DEF Adopt, LogTypes
  <2>3. LogTypes'
    BY <2>1, <2>2 DEF LogTypes
  <2>4. Quiet
    BY <1>1, <2>1, <2>2 DEF Quiet
  <2> QED BY <2>3, <2>4
<1>3. ASSUME NEW j \in Server, StepDown(i, j) PROVE LogTypes' /\ Quiet
  <2>1. /\ term[j] \in 0 .. MaxTerm /\ Adopt({i}, term[j]) /\ term[j] > term[i]
        /\ leader' = [leader EXCEPT ![i] = FALSE] /\ matchIndex' = Forgotten({i})
        /\ UNCHANGED <<log, commitIndex>>
    BY <1>3 DEF StepDown, LogTypes
  <2>2. /\ term' \in [Server -> 0 .. MaxTerm]
        /\ \A k \in Server : term'[k] = IF k = i THEN term[j] ELSE term[k]
    BY <1>1, <2>1, AdoptTypes
  <2>3. LogTypes'
    BY <1>1, <2>1, <2>2, ForgottenTypes DEF LogTypes
  <2>4. \A k \in Server : leader'[k] => k # i /\ leader[k] /\ matchIndex'[k] = matchIndex[k]
    BY <1>1, <2>1, ForgottenTypes DEF LogTypes
  <2>5. \A k \in Server : term'[k] >= term[k] /\ (k # i => term'[k] = term[k])
    BY <1>1, <2>1, <2>2
  <2>6. Quiet
    BY <2>1, <2>4, <2>5 DEF Quiet
  <2> QED BY <2>3, <2>6
<1>4. ASSUME NEW x \in 1 .. Len(log[i]), Commit(i, x) PROVE LogTypes' /\ Quiet
  <2>1. UNCHANGED <<term, leader, log, matchIndex>> /\ commitIndex' = [commitIndex EXCEPT ![i] = x]
    BY <1>4 DEF Commit
  <2> QED BY <1>1, <2>1 DEF LogTypes, Quiet
<1>5. CASE Reboot(i)
  <2>1. /\ UNCHANGED <<term, log>> /\ commitIndex' = [commitIndex EXCEPT ![i] = 0]
        /\ leader' = [leader EXCEPT ![i] = FALSE] /\ matchIndex' = Forgotten({i})
    BY <1>5 DEF Reboot
  <2>2. LogTypes'
    BY <1>1, <2>1, ForgottenTypes DEF LogTypes
  <2>3. \A k \in Server : leader'[k] => k # i /\ leader[k] /\ matchIndex'[k] = matchIndex[k]
    BY <1>1, <2>1, ForgottenTypes DEF LogTypes
  <2>4. \A k \in Server : term'[k] >= term[k] /\ term'[k] = term[k]
    BY <1>1, <2>1
  <2>5. Quiet
    BY <2>1, <2>3, <2>4 DEF Quiet
  <2> QED BY <2>2, <2>5
<1> QED BY <1>2, <1>3, <1>4, <1>5

LEMMA ElectAction ==
  ASSUME LogTypes, NEW i \in Server, NEW Q \in Majorities, Elect(i, Q)
  PROVE  LogTypes' /\ Elected(i, Q) /\ UNCHANGED commitIndex
<1>1. Q \in SUBSET Server /\ \A k \in Server : term[k] \in Nat /\ term[k] <= MaxTerm
  BY GroupAssumption DEF LogTypes, Majorities
<1>2. /\ term[i] + 1 \in 0 .. MaxTerm /\ Adopt(Q, term[i] + 1) /\ ~leader[i] /\ i \in Q
      /\ \A q \in Q : term[q] < term[i] + 1 /\ UpToDate(i, q)
      /\ leader' = [q \in Server |-> IF q \in Q THEN q = i ELSE leader[q]]
      /\ matchIndex' = Forgotten(Q) /\ UNCHANGED <<log, commitIndex>>
  BY <1>1, GroupAssumption DEF Elect
<1>3. /\ term' \in [Server -> 0 .. MaxTerm]
      /\ \A k \in Server : term'[k] = IF k \in Q THEN term[i] + 1 ELSE term[k]
  BY <1>1, <1>2, AdoptTypes
<1>4. /\ leader' \in [Server -> BOOLEAN]
      /\ \A k \in Server : leader'[k] = IF k \in Q THEN k = i ELSE leader[k]
  BY <1>2 DEF LogTypes
<1>5. LogTypes'
  BY <1>1, <1>2, <1>3, <1>4, ForgottenTypes DEF LogTypes
<1>6. /\ \A q \in Server : matchIndex'[i][q] = 0
      /\ \A k \in Server \ Q : matchIndex'[k] = matchIndex[k]
  BY <1>1, <1>2, ForgottenTypes
<1>7. \A q \in Q : term'[q] = term[i] + 1 /\ (leader'[q] => q = i)
  BY <1>1, <1>3, <1>4
<1>8. \A k \in Server \ Q : term'[k] = term[k] /\ leader'[k] = leader[k]
  BY <1>3, <1>4
<1> QED BY <1>2, <1>5, <1>6, <1>7, <1>8 DEF Elected

LEMMA AppendAction ==
  ASSUME LogTypes, NEW i \in Server, leader[i], NEW op \in Ops, AppendEntry(i, op),
         UNCHANGED <<term, leader, commitIndex, matchIndex>>
  PROVE  LogTypes' /\ Appended(i) /\ log'[i] = Append(log[i], [term |-> term[i], op |-> op])
<1>1. log[i] \in Seq(Entry) /\ [term |-> term[i], op |-> op] \in Entry
  <2>1. log[i] \in Seq(Entry) /\ term[i] \in Nat
    BY GroupAssumption DEF LogTypes
  <2> QED BY <2>1 DEF Entry
<1>2. /\ log'[i] = Append(log[i], [term |-> term[i], op |-> op])
      /\ \A k \in Server : k # i => log'[k] = log[k]
  BY DEF LogTypes, AppendEntry
<1>3. /\ Append(log[i], [term |-> term[i], op |-> op]) \in Seq(Entry)
      /\ Len(log'[i]) = Len(log[i]) + 1 /\ log'[i][Len(log[i]) + 1].term = term[i]
      /\ \A z \in 1 .. Len(log[i]) : log'[i][z] = log[i][z]
  BY <1>1, <1>2, AppendIs
<1>4. LogTypes'
  BY <1>3 DEF LogTypes, AppendEntry
<1> QED BY <1>2, <1>3, <1>4 DEF Appended

LEMMA AppendEntriesAction ==
  ASSUME LogTypes, NEW i \in Server, NEW j \in Server, NEW n \in 0 .. Len(log[i]),
         NEW commit \in 0 .. commitIndex[i], AppendEntries(i, j, n, commit)
  PROVE  LogTypes' /\ Delivered(i, j, n)
<1>1. /\ {j} \in SUBSET Server /\ term[i] \in 0 .. MaxTerm /\ commit \in Nat /\ n \in Nat
      /\ commitIndex[j] \in Nat /\ Len(log[i]) \in Nat /\ Len(log[j]) \in Nat
  BY DEF LogTypes
<1>2. /\ leader[i] /\ j # i /\ term[j] <= term[i] /\ Adopt({j}, term[i])
      /\ leader' = [leader EXCEPT ![j] = FALSE]
      /\ log' = [log EXCEPT ![j] = IF Agrees(i, j, n) THEN log[j] ELSE Prefix(i, n)]
      /\ commitIndex' = [commitIndex EXCEPT ![j] = IF commit > commitIndex[j] THEN commit
                                                   ELSE commitIndex[j]]
  BY DEF AppendEntries
<1>3. /\ term' \in [Server -> 0 .. MaxTerm]
      /\ \A k \in Server : term'[k] = IF k = j THEN term[i] ELSE term[k]
  BY <1>1, <1>2 DEF Adopt, LogTypes
<1>4. /\ matchIndex' \in [Server -> [Server -> Nat]]
      /\ \A k, q \in Server : k # j =>
           \/ matchIndex'[k][q] = matchIndex[k][q]
           \/ k = i /\ q = j /\ matchIndex'[k][q] = n
  <2>1. PICK m : m = Forgotten({j})
    OBVIOUS
  <2>2. m \in [Server -> [Server -> Nat]] /\ \A k \in Server : k # j => m[k] = matchIndex[k]
    BY <1>1, <2>1, ForgottenTypes
  <2>3. matchIndex' = [m EXCEPT ![i][j] = IF Counts(i, n) /\ n > m[i][j] THEN n ELSE m[i][j]]
    BY <2>1 DEF AppendEntries
  <2> QED BY <1>1, <2>2, <2>3
<1>5. log[j] \in Seq(Entry) /\ Prefix(i, n) \in Seq(Entry) /\ Len(Prefix(i, n)) = n
      /\ \A z \in 1 .. n : Prefix(i, n)[z] = log[i][z]
  BY PrefixIs DEF LogTypes
<1>6. LogTypes'
  BY <1>1, <1>2, <1>3, <1>4, <1>5 DEF LogTypes
<1>7. \A k \in Server : k # j => leader'[k] = leader[k] /\ log'[k] = log[k]
  BY <1>2 DEF LogTypes
<1>8. ~leader'[j]
  BY <1>2 DEF LogTypes
<1>9. log'[j] = IF Agrees(i, j, n) THEN log[j] ELSE Prefix(i, n)
  BY <1>2 DEF LogTypes
<1>10. /\ n <= Len(log'[j]) /\ \A z \in 1 .. n : log'[j][z] = log[i][z]
       /\ \/ log'[j] = log[j]
          \/ /\ Len(log'[j]) = n
             /\ n <= Len(log[j]) => \E z \in 1 .. n : log[j][z] # log[i][z]
  BY <1>1, <1>5, <1>9, AgreesIs
<1> QED BY <1>1, <1>2, <1>3, <1>4, <1>6, <1>7, <1>8, <1>10 DEF Delivered

-----------------------------------------------------------------------------
(* LogInv is kept.                                                         *)

TermsGrow == \A k \in Server : term'[k] >= term[k]

\* Every log is now the beginning of what some log was.
Inherited ==
  \A k \in Server : \E m \in Server :
    /\ term[m] <= term'[k] /\ Len(log'[k]) <= Len(log[m])
    /\ \A z \in 1 .. Len(log'[k]) : log'[k][z] = log[m][z]

LEMMA LogNumbers ==
  ASSUME LogTypes
  PROVE  \A i \in Server : /\ term[i] \in Nat /\ Len(log[i]) \in Nat /\ log[i] \in Seq(Entry)
                           /\ \A x \in 1 .. Len(log[i]) : log[i][x].term \in Nat /\ log[i][x] \in Entry
                           /\ \A q \in Server : matchIndex[i][q] \in Nat
<1> TAKE i \in Server
<1>1. log[i] \in Seq(Entry) /\ \A x \in 1 .. Len(log[i]) : log[i][x] \in Entry
  BY DEF LogTypes
<1>2. \A x \in 1 .. Len(log[i]) : log[i][x].term \in Nat
  BY <1>1 DEF Entry
<1> QED BY <1>1, <1>2 DEF LogTypes

LEMMA LogNumbersNext ==
  ASSUME LogTypes'
  PROVE  \A i \in Server : /\ term'[i] \in Nat /\ Len(log'[i]) \in Nat /\ log'[i] \in Seq(Entry)
                           /\ \A x \in 1 .. Len(log'[i]) : log'[i][x].term \in Nat
                           /\ \A q \in Server : matchIndex'[i][q] \in Nat
<1> TAKE i \in Server
<1>1. log'[i] \in Seq(Entry) /\ \A x \in 1 .. Len(log'[i]) : log'[i][x] \in Entry
  BY DEF LogTypes
<1>2. \A x \in 1 .. Len(log'[i]) : log'[i][x].term \in Nat
  BY <1>1 DEF Entry
<1> QED BY <1>1, <1>2 DEF LogTypes

LEMMA QuietInherits ==
  ASSUME LogTypes, Quiet
  PROVE  TermsGrow /\ Inherited
BY LogNumbers DEF Quiet, TermsGrow, Inherited

LEMMA ElectedInherits ==
  ASSUME LogTypes, NEW i, NEW Q, Elected(i, Q)
  PROVE  TermsGrow /\ Inherited
<1>1. TermsGrow
  <2>1. \A k \in Server : k \in Q \/ k \in Server \ Q
    OBVIOUS
  <2>2. \A k \in Server : term'[k] >= term[k]
    BY <2>1, LogNumbers DEF Elected
  <2> QED BY <2>2 DEF TermsGrow
<1> QED BY <1>1, LogNumbers DEF Elected, TermsGrow, Inherited

LEMMA DeliveredInherits ==
  ASSUME LogTypes, NEW i \in Server, NEW j \in Server, NEW n \in Nat, Delivered(i, j, n)
  PROVE  TermsGrow /\ Inherited
<1>1. TermsGrow
  BY LogNumbers DEF Delivered, TermsGrow
<1>2. \A k \in Server : k # j => term[k] <= term'[k] /\ log'[k] = log[k]
  BY LogNumbers DEF Delivered
<1>3. \E m \in Server :
        /\ term[m] <= term'[j] /\ Len(log'[j]) <= Len(log[m])
        /\ \A z \in 1 .. Len(log'[j]) : log'[j][z] = log[m][z]
  <2>1. CASE log'[j] = log[j]
    <3>1. term[j] <= term'[j] /\ Len(log[j]) <= Len(log[j])
      BY LogNumbers DEF Delivered
    <3> QED BY <2>1, <3>1
  <2>2. CASE Len(log'[j]) = n
    <3>1. /\ term[i] <= term'[j] /\ Len(log'[j]) <= Len(log[i])
          /\ \A z \in 1 .. Len(log'[j]) : log'[j][z] = log[i][z]
      BY <2>2, LogNumbers DEF Delivered
    <3> QED BY <3>1
  <2> QED BY <2>1, <2>2 DEF Delivered
<1>4. \A k \in Server : k # j =>
        /\ term[k] <= term'[k] /\ Len(log'[k]) <= Len(log[k])
        /\ \A z \in 1 .. Len(log'[k]) : log'[k][z] = log[k][z]
  BY <1>2, LogNumbers
<1> QED BY <1>1, <1>3, <1>4 DEF Inherited

\* What is inherited is as good as it was.
LEMMA InheritedLogs ==
  ASSUME LogInv, LogTypes', TermsGrow, Inherited
  PROVE  TermsAscend' /\ LogsMatch' /\ EntriesTaken'
<1>1. PICK from \in [Server -> Server] : \A k \in Server :
        /\ term[from[k]] <= term'[k] /\ Len(log'[k]) <= Len(log[from[k]])
        /\ \A z \in 1 .. Len(log'[k]) : log'[k][z] = log[from[k]][z]
  <2> DEFINE Src(k, m) == /\ term[m] <= term'[k] /\ Len(log'[k]) <= Len(log[m])
                          /\ \A z \in 1 .. Len(log'[k]) : log'[k][z] = log[m][z]
             f == [k \in Server |-> CHOOSE m \in Server : Src(k, m)]
  <2>1. \A k \in Server : \E m \in Server : Src(k, m)
    BY DEF Inherited
  <2> HIDE DEF Src
  <2>2. f \in [Server -> Server] /\ \A k \in Server : Src(k, f[k])
    BY <2>1
  <2> HIDE DEF f
  <2>3. \A k \in Server :
        /\ term[f[k]] <= term'[k] /\ Len(log'[k]) <= Len(log[f[k]])
        /\ \A z \in 1 .. Len(log'[k]) : log'[k][z] = log[f[k]][z]
    BY <2>2 DEF Src
  <2> QED BY <2>2, <2>3
<1>2. LogTypes
  BY DEF LogInv
<1>3. \A k \in Server : /\ from[k] \in Server /\ Len(log'[k]) \in Nat /\ Len(log[from[k]]) \in Nat
                        /\ term'[k] \in Nat /\ term[from[k]] \in Nat
                        /\ \A z \in 1 .. Len(log'[k]) :
                             z \in 1 .. Len(log[from[k]]) /\ log[from[k]][z].term \in Nat
  <2>1. \A k \in Server : Len(log'[k]) \in Nat /\ term'[k] \in Nat
    BY DEF LogTypes
  <2> QED BY <1>1, <1>2, <2>1, LogNumbers
<1>4. TermsAscend'
  <2> SUFFICES ASSUME NEW i \in Server, NEW x \in 1 .. Len(log'[i])
               PROVE  /\ 1 <= log'[i][x].term /\ log'[i][x].term <= term'[i]
                      /\ \A y \in 1 .. x : log'[i][y].term <= log'[i][x].term
    BY DEF TermsAscend
  <2>1. PICK a \in Server : a = from[i]
    BY <1>3
  <2>2. x \in 1 .. Len(log[a]) /\ log'[i][x] = log[a][x] /\ log[a][x].term \in Nat
    BY <1>1, <1>3, <2>1
  <2>3. /\ 1 <= log[a][x].term /\ log[a][x].term <= term[a]
        /\ \A y \in 1 .. x : log[a][y].term <= log[a][x].term
    BY <2>2 DEF LogInv, TermsAscend
  <2>4. \A y \in 1 .. x : log'[i][y] = log[a][y]
    BY <1>1, <1>3, <2>1
  <2>5. term[a] <= term'[i] /\ term[a] \in Nat /\ term'[i] \in Nat
    BY <1>1, <1>3, <2>1
  <2> QED BY <2>2, <2>3, <2>4, <2>5
<1>5. LogsMatch'
  <2> SUFFICES ASSUME NEW i \in Server, NEW j \in Server, NEW x \in 1 .. Len(log'[i]),
                      NEW y \in 1 .. Len(log'[j]), log'[i][x].term = log'[j][y].term, y <= x,
                      NEW z \in 1 .. y
               PROVE  log'[i][z] = log'[j][z]
    BY DEF LogsMatch
  <2>1. PICK a \in Server, b \in Server : a = from[i] /\ b = from[j]
    BY <1>3
  <2>2. /\ x \in 1 .. Len(log[a]) /\ y \in 1 .. Len(log[b])
        /\ log'[i][x] = log[a][x] /\ log'[j][y] = log[b][y]
    BY <1>1, <1>3, <2>1
  <2>3. log[a][z] = log[b][z]
    BY <2>2 DEF LogInv, LogsMatch
  <2>4. z \in 1 .. Len(log'[i]) /\ z \in 1 .. Len(log'[j])
    BY <1>3
  <2> QED BY <1>1, <2>1, <2>3, <2>4
<1>6. EntriesTaken'
  <2> SUFFICES ASSUME NEW i \in Server, NEW x \in 1 .. Len(log'[i])
               PROVE  {q \in Server : term'[q] >= log'[i][x].term} \in Majorities
    BY DEF EntriesTaken, Reached
  <2>1. PICK t : t = log'[i][x].term
    OBVIOUS
  <2>2. t \in Nat /\ Reached(t) \in Majorities
    <3>1. PICK a \in Server : a = from[i]
      BY <1>3
    <3>2. x \in 1 .. Len(log[a]) /\ t = log[a][x].term /\ t \in Nat
      BY <1>1, <1>3, <2>1, <3>1
    <3> QED BY <3>2 DEF LogInv, EntriesTaken
  <2>3. Reached(t)' \in Majorities
    BY <1>2, <2>2, ReachedGrows DEF TermsGrow
  <2> QED BY <2>1, <2>3 DEF Reached
<1> QED BY <1>4, <1>5, <1>6

LEMMA QuietLog ==
  ASSUME LogInv, LogTypes', Quiet
  PROVE  LogInv'
<1>1. LogTypes /\ TermsGrow /\ TermsAscend' /\ LogsMatch' /\ EntriesTaken'
  BY QuietInherits, InheritedLogs DEF LogInv
<1>2. LeadersTaken'
  <2> SUFFICES ASSUME NEW i \in Server, leader'[i]
               PROVE  term'[i] >= 1 /\ {q \in Server : term'[q] >= term'[i]} \in Majorities
    BY DEF LeadersTaken, Reached
  <2>1. leader[i] /\ term'[i] = term[i]
    BY DEF Quiet
  <2>2. PICK t : t = term[i]
    OBVIOUS
  <2>3. t \in Nat /\ t >= 1 /\ Reached(t) \in Majorities
    BY <1>1, <2>1, <2>2, LogNumbers DEF LogInv, LeadersTaken
  <2>4. Reached(t)' \in Majorities
    BY <1>1, <2>3, ReachedGrows DEF TermsGrow
  <2> QED BY <2>1, <2>2, <2>3, <2>4 DEF Reached
<1>3. OneLeader' /\ LeaderHasAll'
  BY DEF LogInv, Quiet, OneLeader, LeaderHasAll
<1>4. MatchBounded'
  <2> SUFFICES ASSUME NEW i \in Server, NEW j \in Server, leader'[i], matchIndex'[i][j] > 0
               PROVE  matchIndex'[i][j] <= Len(log'[i]) /\ term'[j] >= term'[i]
    BY DEF MatchBounded
  <2>1. leader[i] /\ term'[i] = term[i] /\ matchIndex'[i] = matchIndex[i] /\ log' = log
    BY DEF Quiet
  <2>2. matchIndex[i][j] <= Len(log[i]) /\ term[j] >= term[i]
    BY <2>1 DEF LogInv, MatchBounded
  <2>3. term'[j] >= term[j] /\ term[j] \in Nat /\ term[i] \in Nat /\ term'[j] \in Int
    BY <1>1 DEF TermsGrow, LogTypes
  <2> QED BY <2>1, <2>2, <2>3
<1> QED BY <1>1, <1>2, <1>3, <1>4 DEF LogInv

\* Nothing is known of a term that a majority has not come to: no leader, no
\* entry.
LEMMA NewTerm ==
  ASSUME LogInv, NEW Q \in Majorities, NEW t \in Nat, \A q \in Q : term[q] < t
  PROVE  /\ Reached(t) \notin Majorities
         /\ \A i \in Server : leader[i] => term[i] < t
         /\ \A i \in Server : \A x \in 1 .. Len(log[i]) : log[i][x].term < t
<1>1. LogTypes /\ \A q \in Server : term[q] \in Nat
  BY LogNumbers DEF LogInv
<1>2. ASSUME NEW u \in Nat, u >= t, Reached(u) \in Majorities PROVE FALSE
  <2>1. PICK q \in Server : q \in Q /\ q \in Reached(u)
    BY <1>2, MajoritiesMeet
  <2> QED BY <1>1, <1>2, <2>1 DEF Reached
<1>3. \A i \in Server : leader[i] => term[i] < t
  BY <1>1, <1>2 DEF LogInv, LeadersTaken
<1>4. \A i \in Server : \A x \in 1 .. Len(log[i]) : log[i][x].term < t
  BY <1>1, <1>2, LogNumbers DEF LogInv, EntriesTaken
<1> QED BY <1>2, <1>3, <1>4

LEMMA ElectedLog ==
  ASSUME LogInv, LogTypes', NEW i \in Server, NEW Q \in Majorities, Elected(i, Q)
  PROVE  LogInv'
<1>1. LogTypes /\ TermsGrow /\ TermsAscend' /\ LogsMatch' /\ EntriesTaken'
  BY ElectedInherits, InheritedLogs DEF LogInv
<1>2. PICK t \in Nat : t = term[i] + 1
  BY <1>1, LogNumbers
<1>3. /\ \A k \in Server : leader[k] => term[k] < t
      /\ \A k \in Server : \A x \in 1 .. Len(log[k]) : log[k][x].term < t
  BY <1>2, NewTerm DEF Elected
<1>4. /\ \A k \in Server : leader'[k] => IF k = i THEN term'[k] = t ELSE
           /\ k \notin Q /\ leader[k] /\ term'[k] = term[k] /\ matchIndex'[k] = matchIndex[k]
      /\ log' = log /\ t >= 1
  <2>1. \A k \in Server : leader'[k] /\ k # i => k \in Server \ Q
    BY DEF Elected
  <2>2. \A k \in Server \ Q :
          term'[k] = term[k] /\ leader'[k] = leader[k] /\ matchIndex'[k] = matchIndex[k]
    BY DEF Elected
  <2>3. term'[i] = t /\ log' = log /\ t >= 1
    BY <1>1, <1>2, LogNumbers DEF Elected
  <2> QED BY <2>1, <2>2, <2>3
<1>5. LeadersTaken'
  <2> SUFFICES ASSUME NEW k \in Server, leader'[k]
               PROVE  term'[k] >= 1 /\ {q \in Server : term'[q] >= term'[k]} \in Majorities
    BY DEF LeadersTaken, Reached
  <2>1. CASE k = i
    <3>1. Q \subseteq {q \in Server : term'[q] >= t}
      BY <1>2 DEF Elected, Majorities
    <3>2. {q \in Server : term'[q] >= t} \in Majorities
      BY <3>1, MajorityGrows
    <3> QED BY <1>4, <2>1, <3>2
  <2>2. CASE k # i
    <3>1. PICK u : u = term[k]
      OBVIOUS
    <3>2. u \in Nat /\ u >= 1 /\ Reached(u) \in Majorities
      BY <1>1, <1>4, <2>2, <3>1, LogNumbers DEF LogInv, LeadersTaken
    <3>3. Reached(u)' \in Majorities
      BY <1>1, <3>2, ReachedGrows DEF TermsGrow
    <3> QED BY <1>4, <2>2, <3>1, <3>2, <3>3 DEF Reached
  <2> QED BY <2>1, <2>2
<1>6. OneLeader'
  <2> SUFFICES ASSUME NEW k \in Server, NEW m \in Server, leader'[k], leader'[m],
                      term'[k] = term'[m]
               PROVE  k = m
    BY DEF OneLeader
  <2>1. ASSUME NEW h \in Server, leader'[h], h # i PROVE term'[h] < t /\ leader[h] /\ term'[h] = term[h]
    BY <1>3, <1>4, <2>1
  <2> QED BY <1>1, <1>4, <2>1, LogNumbers DEF LogInv, OneLeader
<1>7. LeaderHasAll'
  BY <1>1, <1>3, <1>4, LogNumbers DEF LogInv, LeaderHasAll
<1>8. MatchBounded'
  <2> SUFFICES ASSUME NEW k \in Server, NEW j \in Server, leader'[k], matchIndex'[k][j] > 0
               PROVE  matchIndex'[k][j] <= Len(log'[k]) /\ term'[j] >= term'[k]
    BY DEF MatchBounded
  <2>1. k # i
    BY DEF Elected
  <2>2. matchIndex[k][j] <= Len(log[k]) /\ term[j] >= term[k]
    BY <1>4, <2>1 DEF LogInv, MatchBounded
  <2>3. term'[j] >= term[j] /\ term[j] \in Nat /\ term[k] \in Nat /\ term'[j] \in Int
    BY <1>1 DEF TermsGrow, LogTypes
  <2> QED BY <1>4, <2>1, <2>2, <2>3
<1> QED BY <1>1, <1>5, <1>6, <1>7, <1>8 DEF LogInv

LEMMA AppendedLog ==
  ASSUME LogInv, LogTypes', NEW i \in Server, Appended(i)
  PROVE  LogInv'
<1>1. LogTypes /\ UNCHANGED <<term, leader, matchIndex>> /\ leader[i]
  BY DEF LogInv, Appended
<1>2. PICK L \in Nat : L = Len(log[i])
  BY <1>1, LogNumbers
<1>3. /\ Len(log'[i]) = L + 1 /\ log'[i][L + 1].term = term[i]
      /\ \A z \in 1 .. L : log'[i][z] = log[i][z]
      /\ \A k \in Server : k # i => log'[k] = log[k]
  BY <1>2 DEF Appended
<1>4. \A k \in Server : /\ Len(log[k]) \in Nat /\ Len(log'[k]) \in Nat /\ term[k] \in Nat
                        /\ \A z \in 1 .. Len(log[k]) : log[k][z].term \in Nat
  BY <1>1, LogNumbers DEF LogTypes
<1>5. \* an entry is the new one or an old one
      \A k \in Server : \A x \in 1 .. Len(log'[k]) :
        \/ k = i /\ x = L + 1 /\ log'[k][x].term = term[i]
        \/ /\ x \in 1 .. Len(log[k])
           /\ \A z \in 1 .. x : log'[k][z] = log[k][z]
  <2> TAKE k \in Server
  <2> TAKE x \in 1 .. Len(log'[k])
  <2>1. CASE k # i
    <3>1. log'[k] = log[k]
      BY <1>3, <2>1
    <3> QED BY <3>1
  <2>2. CASE k = i
    <3>1. x = L + 1 \/ x \in 1 .. L
      BY <1>3, <2>2
    <3>2. x \in 1 .. L => \A z \in 1 .. x : log'[i][z] = log[i][z]
      BY <1>3
    <3> QED BY <1>2, <1>3, <2>2, <3>1, <3>2
  <2> QED BY <2>1, <2>2
<1>6. TermsAscend'
  <2> SUFFICES ASSUME NEW k \in Server, NEW x \in 1 .. Len(log'[k])
               PROVE  /\ 1 <= log'[k][x].term /\ log'[k][x].term <= term'[k]
                      /\ \A y \in 1 .. x : log'[k][y].term <= log'[k][x].term
    BY DEF TermsAscend
  <2>1. CASE k = i /\ x = L + 1
    <3>1. term[i] >= 1
      BY <1>1 DEF LogInv, LeadersTaken
    <3>2. \A y \in 1 .. L : log[i][y].term <= term[i]
      BY <1>2 DEF LogInv, TermsAscend
    <3>3. \A y \in 1 .. x : y \in 1 .. L \/ y = L + 1
      BY <2>1
    <3> QED BY <1>1, <1>3, <1>4, <2>1, <3>1, <3>2, <3>3
  <2>2. CASE x \in 1 .. Len(log[k]) /\ \A z \in 1 .. x : log'[k][z] = log[k][z]
    <3>1. /\ 1 <= log[k][x].term /\ log[k][x].term <= term[k]
          /\ \A y \in 1 .. x : log[k][y].term <= log[k][x].term
      BY <2>2 DEF LogInv, TermsAscend
    <3>2. log'[k][x] = log[k][x]
      BY <1>4, <2>2
    <3> QED BY <1>1, <2>2, <3>1, <3>2
  <2> QED BY <1>5, <2>1, <2>2
<1>7. LeadersTaken'
  BY <1>1 DEF LogInv, LeadersTaken, Reached
<1>8. EntriesTaken'
  <2> SUFFICES ASSUME NEW k \in Server, NEW x \in 1 .. Len(log'[k])
               PROVE  {q \in Server : term'[q] >= log'[k][x].term} \in Majorities
    BY DEF EntriesTaken, Reached
  <2>1. CASE k = i /\ x = L + 1
    BY <1>1, <1>3, <2>1 DEF LogInv, LeadersTaken, Reached
  <2>2. CASE x \in 1 .. Len(log[k]) /\ \A z \in 1 .. x : log'[k][z] = log[k][z]
    <3>1. log'[k][x] = log[k][x]
      BY <1>4, <2>2
    <3> QED BY <1>1, <2>2, <3>1 DEF LogInv, EntriesTaken, Reached
  <2> QED BY <1>5, <2>1, <2>2
<1>9. OneLeader'
  BY <1>1 DEF LogInv, OneLeader
<1>10. LogsMatch'
  <2> SUFFICES ASSUME NEW k \in Server, NEW m \in Server, NEW x \in 1 .. Len(log'[k]),
                      NEW y \in 1 .. Len(log'[m]), log'[k][x].term = log'[m][y].term, y <= x
               PROVE  \A z \in 1 .. y : log'[k][z] = log'[m][z]
    BY DEF LogsMatch
  <2>0. x \in Nat /\ y \in Nat /\ x >= 1 /\ y >= 1
    BY <1>4
  <2>1. CASE k = i /\ x = L + 1 /\ m = i
    BY <2>1
  <2>2. CASE k = i /\ x = L + 1 /\ y \in 1 .. Len(log[m]) /\ \A z \in 1 .. y : log'[m][z] = log[m][z]
    <3>1. log[m][y].term = term[i]
      BY <1>3, <2>0, <2>2
    <3>2. y \in 1 .. L /\ log[i][y].term = term[i]
      BY <1>1, <1>2, <2>0, <2>2, <3>1 DEF LogInv, LeaderHasAll
    <3>3. \A z \in 1 .. y : log[i][z] = log[m][z]
      BY <1>2, <2>0, <2>2, <3>1, <3>2 DEF LogInv, LogsMatch
    <3> QED BY <1>3, <2>2, <3>2, <3>3
  <2>3. CASE m = i /\ y = L + 1 /\ x \in 1 .. Len(log[k]) /\ \A z \in 1 .. x : log'[k][z] = log[k][z]
    <3>1. log[k][x].term = term[i]
      BY <1>3, <2>0, <2>3
    <3>2. x <= L
      BY <1>1, <1>2, <2>3, <3>1 DEF LogInv, LeaderHasAll
    <3> QED BY <2>0, <2>3, <3>2
  <2>4. CASE /\ x \in 1 .. Len(log[k]) /\ \A z \in 1 .. x : log'[k][z] = log[k][z]
             /\ y \in 1 .. Len(log[m]) /\ \A z \in 1 .. y : log'[m][z] = log[m][z]
    <3>1. log'[k][x] = log[k][x] /\ log'[m][y] = log[m][y]
      BY <2>0, <2>4
    <3>2. LogsMatch /\ log[k][x].term = log[m][y].term
      BY <3>1 DEF LogInv
    <3>3. \A z \in 1 .. y : log[k][z] = log[m][z]
      BY <2>4, <3>2 DEF LogsMatch
    <3>4. \A z \in 1 .. y : log'[k][z] = log[k][z] /\ log'[m][z] = log[m][z]
      BY <2>0, <2>4
    <3> QED BY <3>3, <3>4
  <2> QED BY <1>5, <2>1, <2>2, <2>3, <2>4
<1>11. LeaderHasAll'
  <2> SUFFICES ASSUME NEW k \in Server, NEW m \in Server, NEW x \in 1 .. Len(log'[m]),
                      leader'[k], log'[m][x].term = term'[k]
               PROVE  x <= Len(log'[k]) /\ log'[k][x].term = term'[k]
    BY DEF LeaderHasAll
  <2>1. CASE m = i /\ x = L + 1
    <3>1. k = i
      BY <1>1, <1>3, <2>1 DEF LogInv, OneLeader
    <3> QED BY <1>3, <2>1, <3>1
  <2>2. CASE x \in 1 .. Len(log[m]) /\ \A z \in 1 .. x : log'[m][z] = log[m][z]
    <3>1. leader[k] /\ log[m][x].term = term[k]
      BY <1>1, <1>4, <2>2
    <3>2. x <= Len(log[k]) /\ log[k][x].term = term[k]
      BY <2>2, <3>1 DEF LogInv, LeaderHasAll
    <3> QED BY <1>1, <1>2, <1>3, <1>4, <2>2, <3>2
  <2> QED BY <1>5, <2>1, <2>2
<1>12. MatchBounded'
  <2>1. \A k \in Server : Len(log[k]) <= Len(log'[k])
    BY <1>2, <1>3, <1>4
  <2>2. \A k, q \in Server : matchIndex[k][q] \in Nat
    BY <1>1, LogNumbers
  <2> QED BY <1>1, <1>4, <2>1, <2>2 DEF LogInv, MatchBounded
<1> QED BY <1>1, <1>6, <1>7, <1>8, <1>9, <1>10, <1>11, <1>12 DEF LogInv

LEMMA DeliveredLog ==
  ASSUME LogInv, LogTypes', NEW i \in Server, NEW j \in Server, NEW n \in Nat, Delivered(i, j, n)
  PROVE  LogInv'
<1>1. LogTypes /\ TermsGrow /\ TermsAscend' /\ LogsMatch' /\ EntriesTaken'
  BY DeliveredInherits, InheritedLogs DEF LogInv
<1>2. \A k \in Server : leader'[k] =>
        k # j /\ leader[k] /\ term'[k] = term[k] /\ log'[k] = log[k]
  BY DEF Delivered
<1>3. \A k \in Server : /\ term[k] \in Nat /\ term'[k] \in Nat /\ term'[k] >= term[k]
                        /\ Len(log[k]) \in Nat /\ Len(log'[k]) \in Nat
  <2>1. \A k \in Server : term'[k] \in Nat /\ Len(log'[k]) \in Nat
    BY DEF LogTypes
  <2> QED BY <1>1, <2>1, LogNumbers DEF TermsGrow
<1>4. LeadersTaken'
  <2> SUFFICES ASSUME NEW k \in Server, leader'[k]
               PROVE  term'[k] >= 1 /\ {q \in Server : term'[q] >= term'[k]} \in Majorities
    BY DEF LeadersTaken, Reached
  <2>1. PICK u : u = term[k]
    OBVIOUS
  <2>2. u \in Nat /\ u >= 1 /\ Reached(u) \in Majorities
    BY <1>2, <1>3, <2>1 DEF LogInv, LeadersTaken
  <2>3. Reached(u)' \in Majorities
    BY <1>1, <2>2, ReachedGrows DEF TermsGrow
  <2> QED BY <1>2, <2>1, <2>2, <2>3 DEF Reached
<1>5. OneLeader'
  BY <1>2 DEF LogInv, OneLeader
<1>6. LeaderHasAll'
  <2> SUFFICES ASSUME NEW k \in Server, NEW m \in Server, NEW x \in 1 .. Len(log'[m]),
                      leader'[k], log'[m][x].term = term'[k]
               PROVE  x <= Len(log'[k]) /\ log'[k][x].term = term'[k]
    BY DEF LeaderHasAll
  <2>1. PICK h \in Server : x \in 1 .. Len(log[h]) /\ log'[m][x] = log[h][x]
    <3>1. CASE m # j \/ log'[j] = log[j]
      <4>1. log'[m] = log[m]
        BY <3>1 DEF Delivered
      <4> QED BY <4>1
    <3>2. CASE m = j /\ Len(log'[j]) = n
      <4>1. x \in 1 .. Len(log[i]) /\ log'[m][x] = log[i][x]
        BY <1>3, <3>2 DEF Delivered
      <4> QED BY <4>1
    <3> QED BY <3>1, <3>2 DEF Delivered
  <2>2. leader[k] /\ log[h][x].term = term[k]
    BY <1>2, <2>1
  <2>3. x <= Len(log[k]) /\ log[k][x].term = term[k]
    BY <2>1, <2>2 DEF LogInv, LeaderHasAll
  <2> QED BY <1>2, <2>3
<1>7. MatchBounded'
  <2> SUFFICES ASSUME NEW k \in Server, NEW q \in Server, leader'[k], matchIndex'[k][q] > 0
               PROVE  matchIndex'[k][q] <= Len(log'[k]) /\ term'[q] >= term'[k]
    BY DEF MatchBounded
  <2>1. CASE matchIndex'[k][q] = matchIndex[k][q]
    <3>1. matchIndex[k][q] <= Len(log[k]) /\ term[q] >= term[k]
      BY <1>2, <2>1 DEF LogInv, MatchBounded
    <3> QED BY <1>2, <1>3, <2>1, <3>1
  <2>2. CASE k = i /\ q = j /\ matchIndex'[k][q] = n
    <3>1. n <= Len(log[i]) /\ term'[j] = term[i]
      BY DEF Delivered
    <3> QED BY <1>2, <1>3, <2>2, <3>1
  <2> QED BY <2>1, <2>2 DEF Delivered
<1> QED BY <1>1, <1>4, <1>5, <1>6, <1>7 DEF LogInv

-----------------------------------------------------------------------------
(* What is kept stays kept.  Here g is any sequence of entries that some   *)
(* server has.                                                             *)

IsKept(g) ==
  /\ g \in Seq(Entry) /\ Len(g) > 0 /\ \E h \in Server : Holds(h, g)
  /\ Kept(g)

\* g is made as logs are.
LEMMA HeldFacts ==
  ASSUME LogInv, NEW g \in Seq(Entry), Len(g) > 0, NEW h \in Server, Holds(h, g)
  PROVE  /\ Len(g) \in Nat /\ TermOf(g) \in Nat /\ TermOf(g) <= term[h] /\ TermOf(g) >= 1
         /\ Len(g) \in 1 .. Len(log[h]) /\ log[h][Len(g)].term = TermOf(g)
         /\ \A y \in 1 .. Len(log[h]) : log[h][y].term > TermOf(g) => y > Len(g)
<1>1. LogTypes /\ Len(g) \in Nat /\ Len(g) \in 1 .. Len(log[h]) /\ log[h][Len(g)] = g[Len(g)]
  BY LogNumbers DEF LogInv, Holds
<1>2. /\ TermOf(g) = log[h][Len(g)].term /\ TermOf(g) \in Nat
  BY <1>1, LogNumbers DEF TermOf
<1>3. TermOf(g) <= term[h] /\ TermOf(g) >= 1
  BY <1>1, <1>2 DEF LogInv, TermsAscend
<1>4. ASSUME NEW y \in 1 .. Len(log[h]), log[h][y].term > TermOf(g) PROVE y > Len(g)
  <2>1. y <= Len(g) => log[h][y].term <= log[h][Len(g)].term
    BY <1>1 DEF LogInv, TermsAscend
  <2>2. log[h][y].term \in Nat
    BY <1>1, LogNumbers
  <2> QED BY <1>1, <1>2, <1>4, <2>1, <2>2
<1> QED BY <1>1, <1>2, <1>3, <1>4

\* A leader of g's term or a later one has g.
LEMMA LeaderHolds ==
  ASSUME LogInv, NEW g, IsKept(g), NEW m \in Server, leader[m], term[m] >= TermOf(g)
  PROVE  Holds(m, g)
<1>1. LogTypes /\ term[m] \in Nat
  BY LogNumbers DEF LogInv
<1>2. PICK h \in Server : Holds(h, g)
  BY DEF IsKept
<1>3. /\ Len(g) \in Nat /\ TermOf(g) \in Nat /\ Len(g) \in 1 .. Len(log[h])
      /\ log[h][Len(g)].term = TermOf(g)
  BY <1>2, HeldFacts DEF IsKept
<1>4. CASE term[m] > TermOf(g)
  BY <1>4 DEF IsKept, Kept, Beyond
<1>5. CASE term[m] = TermOf(g)
  <2>1. Len(g) <= Len(log[m]) /\ log[m][Len(g)].term = TermOf(g)
    BY <1>3, <1>5 DEF LogInv, LeaderHasAll
  <2>2. Len(g) \in 1 .. Len(log[m])
    BY <1>1, <1>3, <2>1, LogNumbers
  <2>3. \A z \in 1 .. Len(g) : log[m][z] = log[h][z]
    BY <1>3, <2>1, <2>2 DEF LogInv, LogsMatch
  <2> QED BY <1>2, <2>1, <2>3 DEF Holds
<1> QED BY <1>1, <1>3, <1>4, <1>5

\* Whoever has a newer log than one that has g, has g.
LEMMA UpToDateHolds ==
  ASSUME LogInv, NEW g, IsKept(g), NEW i \in Server, NEW q \in Server, Holds(q, g), UpToDate(i, q)
  PROVE  Holds(i, g)
<1>1. LogTypes /\ Len(log[q]) \in Nat /\ Len(log[i]) \in Nat /\ log[i] \in Seq(Entry)
  BY LogNumbers DEF LogInv
<1>2. /\ Len(g) \in Nat /\ TermOf(g) \in Nat /\ TermOf(g) >= 1
      /\ Len(g) \in 1 .. Len(log[q]) /\ log[q][Len(g)].term = TermOf(g)
  BY HeldFacts DEF IsKept
<1>3. PICK L \in Nat : L = Len(log[q])
  BY <1>1
<1>4. /\ L \in 1 .. Len(log[q]) /\ LastTerm(q) = log[q][L].term /\ log[q][L].term \in Nat
      /\ TermOf(g) <= LastTerm(q)
  <2>1. L \in 1 .. Len(log[q]) /\ log[q] # <<>>
    BY <1>1, <1>2, <1>3
  <2>2. log[q][Len(g)].term <= log[q][L].term
    BY <1>2, <1>3, <2>1 DEF LogInv, TermsAscend
  <2> QED BY <1>1, <1>2, <1>3, <2>1, <2>2, LogNumbers DEF LastTerm
<1>5. PICK M \in Nat : M = Len(log[i])
  BY <1>1
<1>6. M \in 1 .. Len(log[i]) /\ LastTerm(i) = log[i][M].term /\ log[i][M].term \in Nat
  <2>1. LastTerm(i) >= LastTerm(q)
    <3>1. LastTerm(i) \in Nat
      BY <1>1, LogNumbers DEF LastTerm
    <3> QED BY <1>4, <3>1 DEF UpToDate
  <2>2. log[i] # <<>>
    BY <1>2, <1>4, <2>1 DEF LastTerm
  <2> QED BY <1>1, <1>5, <2>2, LogNumbers DEF LastTerm
<1>7. CASE LastTerm(i) > TermOf(g)
  BY <1>6, <1>7 DEF IsKept, Kept, Beyond
<1>8. CASE ~(LastTerm(i) > TermOf(g))
  <2>1. LastTerm(i) = LastTerm(q) /\ L <= M
    BY <1>2, <1>3, <1>4, <1>5, <1>6, <1>8 DEF UpToDate
  <2>2. \A z \in 1 .. L : log[i][z] = log[q][z]
    BY <1>4, <1>6, <2>1 DEF LogInv, LogsMatch
  <2> QED BY <1>1, <1>2, <1>3, <1>5, <2>1, <2>2 DEF Holds
<1> QED BY <1>7, <1>8

\* No step takes g from who has it, and who goes beyond it has it.  In an
\* election this takes one voter that has g.
StaysKept(g) ==
  /\ g \in Seq(Entry)
  /\ \A k \in Server : Holds(k, g) => Holds(k, g)'
  /\ \A k \in Server : Beyond(k, TermOf(g))' => Holds(k, g)'

LEMMA QuietKeeps ==
  ASSUME LogInv, LogTypes', NEW g, IsKept(g), Quiet
  PROVE  StaysKept(g)
<1>1. \A k \in Server : Holds(k, g) => Holds(k, g)'
  BY DEF Quiet, Holds
<1>2. \A k \in Server : Beyond(k, TermOf(g))' => Beyond(k, TermOf(g))
  BY DEF Quiet, Beyond, TermOf
<1> QED BY <1>1, <1>2 DEF IsKept, Kept, StaysKept

LEMMA ElectedKeeps ==
  ASSUME LogInv, LogTypes', NEW g, IsKept(g), NEW i \in Server, NEW Q \in Majorities, Elected(i, Q),
         NEW q \in Q, Holds(q, g)
  PROVE  StaysKept(g)
<1>1. \A k \in Server : Holds(k, g) => Holds(k, g)'
  BY DEF Elected, Holds
<1>2. q \in Server /\ UpToDate(i, q)
  BY DEF Majorities, Elected
<1>3. Holds(i, g)
  BY <1>2, UpToDateHolds
<1>4. \A k \in Server : k # i /\ Beyond(k, TermOf(g))' => Beyond(k, TermOf(g))
  <2> SUFFICES ASSUME NEW k \in Server, k # i, Beyond(k, TermOf(g))' PROVE Beyond(k, TermOf(g))
    OBVIOUS
  <2>1. leader'[k] => k \in Server \ Q
    BY DEF Elected
  <2>2. leader'[k] => leader[k] /\ term'[k] = term[k]
    BY <2>1 DEF Elected
  <2>3. log' = log
    BY DEF Elected
  <2> QED BY <2>2, <2>3 DEF Beyond, TermOf
<1> QED BY <1>1, <1>3, <1>4 DEF IsKept, Kept, StaysKept

LEMMA AppendedKeeps ==
  ASSUME LogInv, LogTypes', NEW g, IsKept(g), NEW i \in Server, Appended(i)
  PROVE  StaysKept(g)
<1>1. \A k \in Server : Len(log[k]) \in Nat /\ Len(log'[k]) \in Nat
  BY LogNumbers, LogNumbersNext DEF LogInv
<1>2. PICK L \in Nat : L = Len(log[i])
  BY <1>1
<1>3. /\ Len(log'[i]) = L + 1 /\ log'[i][L + 1].term = term[i]
      /\ \A z \in 1 .. L : log'[i][z] = log[i][z]
      /\ \A k \in Server : k # i => log'[k] = log[k]
      /\ UNCHANGED <<term, leader>> /\ leader[i]
  BY <1>2 DEF Appended
<1>4. \A k \in Server : Holds(k, g) => Holds(k, g)'
  <2> SUFFICES ASSUME NEW k \in Server, Holds(k, g)
               PROVE  Len(g) <= Len(log'[k]) /\ \A x \in 1 .. Len(g) : log'[k][x] = g[x]
    BY DEF Holds
  <2>1. Len(g) \in Nat
    BY DEF IsKept
  <2>2. CASE k # i
    BY <1>3, <2>2 DEF Holds
  <2>3. CASE k = i
    BY <1>2, <1>3, <2>1, <2>3 DEF Holds
  <2> QED BY <2>2, <2>3
<1>5. \A k \in Server : Beyond(k, TermOf(g))' => Beyond(k, TermOf(g))
  <2> SUFFICES ASSUME NEW k \in Server, Beyond(k, TermOf(g))' PROVE Beyond(k, TermOf(g))
    OBVIOUS
  <2>1. \/ leader'[k] /\ term'[k] > TermOf(g)
        \/ \E y \in 1 .. Len(log'[k]) : log'[k][y].term > TermOf(g)
    BY DEF Beyond, TermOf
  <2>2. CASE leader'[k] /\ term'[k] > TermOf(g)
    BY <1>3, <2>2 DEF Beyond
  <2>3. ASSUME NEW y \in 1 .. Len(log'[k]), log'[k][y].term > TermOf(g) PROVE Beyond(k, TermOf(g))
    <3>1. CASE k # i
      BY <1>3, <2>3, <3>1 DEF Beyond
    <3>2. CASE k = i
      <4>1. y = L + 1 \/ y \in 1 .. L
        BY <1>3, <2>3, <3>2
      <4> QED BY <1>2, <1>3, <2>3, <3>2, <4>1 DEF Beyond
    <3> QED BY <3>1, <3>2
  <2> QED BY <2>1, <2>2, <2>3
<1> QED BY <1>4, <1>5 DEF IsKept, Kept, StaysKept

LEMMA DeliveredKeeps ==
  ASSUME LogInv, LogTypes', NEW g, IsKept(g), NEW i \in Server, NEW j \in Server, NEW n \in Nat,
         Delivered(i, j, n)
  PROVE  StaysKept(g)
<1>1. /\ \A k \in Server : Len(log[k]) \in Nat /\ Len(log'[k]) \in Nat /\ term[k] \in Nat
      /\ Len(g) \in Nat /\ g \in Seq(Entry) /\ Len(g) > 0
  <2>1. \A k \in Server : Len(log'[k]) \in Nat
    BY DEF LogTypes
  <2> QED BY <2>1, LogNumbers DEF LogInv, IsKept
<1>2. TermOf(g) \in Nat
  <2>1. PICK h \in Server : Holds(h, g)
    BY DEF IsKept
  <2> QED BY <1>1, <2>1, HeldFacts
<1>3. \A k \in Server : k # j => leader'[k] = leader[k] /\ term'[k] = term[k] /\ log'[k] = log[k]
  BY DEF Delivered
<1>4. Holds(j, g) => Len(g) <= Len(log'[j]) /\ \A x \in 1 .. Len(g) : log'[j][x] = g[x]
  <2> SUFFICES ASSUME Holds(j, g)
               PROVE  Len(g) <= Len(log'[j]) /\ \A x \in 1 .. Len(g) : log'[j][x] = g[x]
    OBVIOUS
  <2>1. term[i] >= TermOf(g) /\ leader[i]
    BY <1>1, <1>2, HeldFacts DEF Delivered
  <2>2. Holds(i, g)
    BY <2>1, LeaderHolds
  <2>3. CASE log'[j] = log[j]
    BY <2>3 DEF Holds
  <2>4. CASE Len(log'[j]) = n /\ (n <= Len(log[j]) => \E z \in 1 .. n : log[j][z] # log[i][z])
    <3>1. n < Len(g) => FALSE
      BY <1>1, <2>2, <2>4 DEF Holds
    <3> QED BY <1>1, <2>2, <2>4, <3>1 DEF Holds, Delivered
  <2> QED BY <2>3, <2>4 DEF Delivered
<1>5. (\E y \in 1 .. Len(log'[j]) : log'[j][y].term > TermOf(g)) =>
        Len(g) <= Len(log'[j]) /\ \A x \in 1 .. Len(g) : log'[j][x] = g[x]
  <2> SUFFICES ASSUME NEW y \in 1 .. Len(log'[j]), log'[j][y].term > TermOf(g)
               PROVE  Len(g) <= Len(log'[j]) /\ \A x \in 1 .. Len(g) : log'[j][x] = g[x]
    OBVIOUS
  <2>1. CASE log'[j] = log[j]
    BY <2>1, <1>4 DEF IsKept, Kept, Beyond
  <2>2. CASE Len(log'[j]) = n
    <3>1. y \in 1 .. Len(log[i]) /\ log[i][y].term > TermOf(g) /\ y <= n
      BY <1>1, <2>2 DEF Delivered
    <3>2. Holds(i, g)
      BY <3>1 DEF IsKept, Kept, Beyond
    <3>3. y > Len(g)
      BY <1>1, <3>1, <3>2, HeldFacts
    <3> QED BY <1>1, <2>2, <3>1, <3>2, <3>3 DEF Holds, Delivered
  <2> QED BY <2>1, <2>2 DEF Delivered
<1>6. \A k \in Server : Holds(k, g) => Holds(k, g)'
  BY <1>3, <1>4 DEF Holds
<1>7. \A k \in Server : Beyond(k, TermOf(g))' => Holds(k, g)'
  <2> SUFFICES ASSUME NEW k \in Server, Beyond(k, TermOf(g))'
               PROVE  Len(g) <= Len(log'[k]) /\ \A x \in 1 .. Len(g) : log'[k][x] = g[x]
    BY DEF Holds
  <2>1. \/ leader'[k] /\ term'[k] > TermOf(g)
        \/ \E y \in 1 .. Len(log'[k]) : log'[k][y].term > TermOf(g)
    BY DEF Beyond, TermOf
  <2>2. CASE k # j
    <3>1. Beyond(k, TermOf(g))
      BY <1>3, <2>1, <2>2 DEF Beyond
    <3> QED BY <1>3, <2>2, <3>1 DEF IsKept, Kept, Holds
  <2>3. CASE k = j
    BY <1>5, <2>1, <2>3 DEF Delivered
  <2> QED BY <2>2, <2>3
<1> QED BY <1>1, <1>6, <1>7 DEF StaysKept

-----------------------------------------------------------------------------
(* What is safe stays safe.                                                *)

GroupMoves ==
  \/ Quiet
  \/ \E i \in Server :
       \/ \E Q \in Majorities : Elected(i, Q)
       \/ Appended(i)
       \/ \E j \in Server : \E n \in Nat : Delivered(i, j, n)

LEMMA MovesLog ==
  ASSUME LogInv, LogTypes', GroupMoves
  PROVE  LogInv' /\ TermsGrow
<1>1. ASSUME NEW i \in Server, Appended(i) PROVE TermsGrow
  BY <1>1, LogNumbers DEF LogInv, Appended, TermsGrow
<1> QED BY <1>1, QuietLog, ElectedLog, AppendedLog, DeliveredLog, QuietInherits, ElectedInherits,
        DeliveredInherits DEF GroupMoves, LogInv

\* g stays kept, if there is one who has it in every majority that votes.
LEMMA MovesKeep ==
  ASSUME LogInv, LogTypes', NEW g, IsKept(g), GroupMoves,
         \A i \in Server, Q \in Majorities : Elected(i, Q) => \E q \in Q : Holds(q, g)
  PROVE  StaysKept(g)
BY QuietKeeps, ElectedKeeps, AppendedKeeps, DeliveredKeeps DEF GroupMoves

LEMMA SafeIsKept ==
  ASSUME NEW g, Safe(g)
  PROVE  IsKept(g)
<1>1. PICK Q : Q = {q \in Server : Holds(q, g)}
  OBVIOUS
<1>2. Q \in Majorities
  BY <1>1 DEF Safe
<1>3. \E q \in Server : q \in Q
  BY <1>2, MajoritiesMeet
<1> QED BY <1>1, <1>3 DEF Safe, IsKept

LEMMA SafeStays ==
  ASSUME LogInv, LogTypes', NEW g, Safe(g), GroupMoves
  PROVE  Safe(g)'
<1>1. PICK Q : Q = {q \in Server : Holds(q, g)}
  OBVIOUS
<1>2. Q \in Majorities
  BY <1>1 DEF Safe
<1>3. \A i \in Server, R \in Majorities : Elected(i, R) => \E q \in R : Holds(q, g)
  BY <1>1, <1>2, MajoritiesMeet
<1>4. StaysKept(g)
  BY <1>3, SafeIsKept, MovesKeep
<1>5. PICK R : R = {q \in Server : Holds(q, g)'}
  OBVIOUS
<1>6. R \in Majorities
  <2>1. Q \subseteq R /\ R \in SUBSET Server
    BY <1>1, <1>4, <1>5 DEF StaysKept
  <2> QED BY <1>2, <2>1, MajorityGrows
<1>7. {q \in Server : Holds(q, g)}' = R
  BY <1>5
<1>8. Majorities' = Majorities
  BY DEF Majorities
<1>9. Kept(g)'
  BY <1>4 DEF StaysKept, Kept, TermOf
<1> QED BY <1>6, <1>7, <1>8, <1>9 DEF Safe

\* Of two things that are safe one is the beginning of the other.
LEMMA SafeAgree ==
  ASSUME LogInv, NEW g, NEW h, Safe(g), Safe(h)
  PROVE  \A x \in 1 .. Len(g) : x <= Len(h) => g[x] = h[x]
<1>1. PICK Q \in Majorities : \A q \in Server : q \in Q <=> Holds(q, g)
  BY DEF Safe
<1>2. PICK R \in Majorities : \A q \in Server : q \in R <=> Holds(q, h)
  BY DEF Safe
<1>3. PICK q \in Server, r \in Server : /\ Holds(q, g) /\ Holds(r, h)
  BY <1>1, <1>2, MajoritiesMeet
<1>4. /\ Len(g) \in 1 .. Len(log[q]) /\ log[q][Len(g)].term = TermOf(g) /\ TermOf(g) \in Nat
      /\ Len(h) \in 1 .. Len(log[r]) /\ log[r][Len(h)].term = TermOf(h) /\ TermOf(h) \in Nat
      /\ Len(g) \in Nat /\ Len(h) \in Nat
  BY <1>3, HeldFacts DEF Safe
<1>5. \E k \in Server : Holds(k, g) /\ Holds(k, h)
  <2>1. CASE TermOf(g) > TermOf(h)
    <3>1. Holds(q, h)
      BY <1>4, <2>1 DEF Safe, Kept, Beyond
    <3> QED BY <1>3, <3>1
  <2>2. CASE TermOf(h) > TermOf(g)
    <3>1. Holds(r, g)
      BY <1>4, <2>2 DEF Safe, Kept, Beyond
    <3> QED BY <1>3, <3>1
  <2>3. CASE TermOf(g) = TermOf(h)
    BY <1>1, <1>2, MajoritiesMeet
  <2> QED BY <1>4, <2>1, <2>2, <2>3
<1> QED BY <1>4, <1>5 DEF Holds

-----------------------------------------------------------------------------
(* What leaders know of the entries of their own terms.                    *)

\* Who leads after a step led before it, and only its own calls make it count
\* anybody in; or it has just been elected, and has no entry of its term.
LEMMA LeaderMoves ==
  ASSUME LogInv, LogTypes', GroupMoves, NEW i \in Server, leader'[i],
         NEW x \in 1 .. Len(log'[i]), log'[i][x].term = term'[i]
  PROVE  /\ leader[i] /\ term'[i] = term[i] /\ Len(log[i]) <= Len(log'[i])
         /\ \A z \in 1 .. Len(log[i]) : log'[i][z] = log[i][z]
         /\ x \in 1 .. Len(log[i]) \/ (Appended(i) /\ x = Len(log[i]) + 1)
         /\ \A q \in Server : \/ matchIndex'[i][q] = matchIndex[i][q]
                              \/ \E n \in Nat : Delivered(i, q, n) /\ matchIndex'[i][q] = n
<1>0. LogTypes /\ \A k \in Server : term[k] \in Nat /\ Len(log[k]) \in Nat
  BY LogNumbers DEF LogInv
<1>1. ASSUME Quiet
      PROVE  leader[i] /\ term'[i] = term[i] /\ matchIndex'[i] = matchIndex[i] /\ log' = log
  BY <1>1 DEF Quiet
<1>2. ASSUME NEW k \in Server, NEW Q \in Majorities, Elected(k, Q)
      PROVE  leader[i] /\ term'[i] = term[i] /\ matchIndex'[i] = matchIndex[i] /\ log' = log
  <2>1. i # k
    <3>1. \A q \in Q : term[q] < term[k] + 1
      BY <1>2 DEF Elected
    <3>2. \A y \in 1 .. Len(log[k]) : log[k][y].term < term[k] + 1
      <4>1. PICK t \in Nat : t = term[k] + 1
        BY <1>0
      <4>2. \A q \in Q : term[q] < t
        BY <3>1, <4>1
      <4> QED BY <4>1, <4>2, NewTerm
    <3>3. k \in Q /\ term'[k] = term[k] + 1 /\ log' = log
      BY <1>2 DEF Elected
    <3>4. SUFFICES ASSUME i = k PROVE FALSE
      OBVIOUS
    <3>5. x \in 1 .. Len(log[k]) /\ log[k][x].term = term[k] + 1
      BY <3>3, <3>4
    <3> QED BY <1>0, <3>2, <3>5
  <2>2. i \in Server \ Q
    BY <1>2, <2>1 DEF Elected
  <2> QED BY <1>2, <2>2 DEF Elected
<1>3. ASSUME NEW k \in Server, Appended(k)
      PROVE  /\ leader[i] /\ term'[i] = term[i] /\ matchIndex'[i] = matchIndex[i]
             /\ Len(log[i]) <= Len(log'[i]) /\ \A z \in 1 .. Len(log[i]) : log'[i][z] = log[i][z]
             /\ x \in 1 .. Len(log[i]) \/ (Appended(i) /\ x = Len(log[i]) + 1)
  <2>1. CASE k = i
    <3>1. Len(log'[i]) = Len(log[i]) + 1
      BY <1>3, <2>1 DEF Appended
    <3>2. x \in 1 .. Len(log[i]) \/ x = Len(log[i]) + 1
      BY <1>0, <3>1
    <3>3. Len(log[i]) <= Len(log'[i])
      BY <1>0, <3>1
    <3>4. leader[i] /\ term'[i] = term[i] /\ matchIndex'[i] = matchIndex[i]
      BY <1>3, <2>1 DEF Appended
    <3>5. Appended(i) /\ \A z \in 1 .. Len(log[i]) : log'[i][z] = log[i][z]
      BY <1>3, <2>1 DEF Appended
    <3> QED BY <3>2, <3>3, <3>4, <3>5
  <2>2. CASE k # i
    <3>1. leader[i] /\ term'[i] = term[i] /\ matchIndex'[i] = matchIndex[i]
      BY <1>3 DEF Appended
    <3>2. log'[i] = log[i]
      BY <1>3, <2>2 DEF Appended
    <3>3. Len(log[i]) <= Len(log'[i]) /\ x \in 1 .. Len(log[i])
      BY <1>0, <3>2
    <3> QED BY <3>1, <3>2, <3>3
  <2> QED BY <2>1, <2>2
<1>4. ASSUME NEW k \in Server, NEW j \in Server, NEW n \in Nat, Delivered(k, j, n)
      PROVE  /\ leader[i] /\ term'[i] = term[i] /\ log'[i] = log[i]
             /\ \A q \in Server : \/ matchIndex'[i][q] = matchIndex[i][q]
                                  \/ Delivered(i, q, n) /\ matchIndex'[i][q] = n
  <2>1. i # j
    BY <1>4 DEF Delivered
  <2>2. \A q \in Server : \/ matchIndex'[i][q] = matchIndex[i][q]
                          \/ i = k /\ q = j /\ matchIndex'[i][q] = n
    BY <1>4 DEF Delivered
  <2>3. leader'[i] = leader[i] /\ term'[i] = term[i] /\ log'[i] = log[i]
    BY <1>4, <2>1 DEF Delivered
  <2> QED BY <1>4, <2>2, <2>3
<1>5. ASSUME log'[i] = log[i]
      PROVE  /\ Len(log[i]) <= Len(log'[i]) /\ \A z \in 1 .. Len(log[i]) : log'[i][z] = log[i][z]
             /\ x \in 1 .. Len(log[i])
  BY <1>0, <1>5
<1>6. CASE Quiet
  BY <1>1, <1>5, <1>6
<1>7. CASE \E k \in Server : \E Q \in Majorities : Elected(k, Q)
  <2>1. leader[i] /\ term'[i] = term[i] /\ matchIndex'[i] = matchIndex[i] /\ log' = log
    BY <1>2, <1>7
  <2> QED BY <1>5, <2>1
<1>8. CASE \E k \in Server : Appended(k)
  <2>1. PICK k \in Server : Appended(k)
    BY <1>8
  <2>2. /\ leader[i] /\ term'[i] = term[i] /\ matchIndex'[i] = matchIndex[i]
        /\ Len(log[i]) <= Len(log'[i]) /\ \A z \in 1 .. Len(log[i]) : log'[i][z] = log[i][z]
        /\ x \in 1 .. Len(log[i]) \/ (Appended(i) /\ x = Len(log[i]) + 1)
    BY <1>3, <2>1
  <2> QED BY <2>2
<1>9. CASE \E k, j \in Server : \E n \in Nat : Delivered(k, j, n)
  <2>1. PICK k \in Server, j \in Server, n \in Nat : Delivered(k, j, n)
    BY <1>9
  <2>2. /\ leader[i] /\ term'[i] = term[i] /\ log'[i] = log[i]
        /\ \A q \in Server : \/ matchIndex'[i][q] = matchIndex[i][q]
                             \/ Delivered(i, q, n) /\ matchIndex'[i][q] = n
    BY <1>4, <2>1
  <2> QED BY <1>5, <2>2
<1> QED BY <1>6, <1>7, <1>8, <1>9 DEF GroupMoves

LEMMA LeadersKnowStays ==
  ASSUME LogInv, LeadersKnow, LogTypes', GroupMoves
  PROVE  LeadersKnow'
<1>1. LogTypes /\ LogInv' /\ TermsGrow /\ Majorities' = Majorities
  BY MovesLog DEF LogInv, Majorities
<1>2. \A k \in Server : term[k] \in Nat /\ term'[k] \in Nat /\ term'[k] >= term[k]
  <2>1. \A k \in Server : term'[k] \in Nat
    BY DEF LogTypes
  <2> QED BY <1>1, <2>1, LogNumbers DEF TermsGrow
<1> SUFFICES ASSUME NEW i \in Server, NEW x \in 1 .. Len(log'[i]), leader'[i],
                    log'[i][x].term = term'[i]
             PROVE  Undecided(i, x)'
  BY DEF LeadersKnow, OwnTerm
<1>3. PICK L \in Nat, t \in Nat : L = Len(log[i]) /\ t = term[i]
  BY <1>1, LogNumbers
<1>4. /\ leader[i] /\ term'[i] = t /\ L <= Len(log'[i]) /\ Len(log'[i]) \in Nat
      /\ \A z \in 1 .. L : log'[i][z] = log[i][z]
      /\ x \in 1 .. L \/ (Appended(i) /\ x = L + 1)
      /\ \A q \in Server : \/ matchIndex'[i][q] = matchIndex[i][q]
                           \/ \E n \in Nat : Delivered(i, q, n) /\ matchIndex'[i][q] = n
  <2>1. Len(log'[i]) \in Nat
    BY DEF LogTypes
  <2> QED BY <1>3, <2>1, LeaderMoves
<1>5. PICK g : g = Prefix(i, x)'
  OBVIOUS
<1>6. g \in Seq(Entry) /\ Len(g) = x /\ x \in Nat /\ TermOf(g) = t /\ \A z \in 1 .. x : g[z] = log'[i][z]
  <2>1. /\ SubSeq(log'[i], 1, x) \in Seq(Entry) /\ Len(SubSeq(log'[i], 1, x)) = x
        /\ \A z \in 1 .. x : SubSeq(log'[i], 1, x)[z] = log'[i][z]
    <3>1. log'[i] \in Seq(Entry) /\ \A z \in 1 .. x : log'[i][z] \in Entry
      BY <1>4 DEF LogTypes
    <3> QED BY <1>4, <3>1, SubSeqProperties
  <2> QED BY <1>4, <1>5, <2>1 DEF Prefix, TermOf
<1>7. SUFFICES Blocked(i, x)' \/ (Kept(g)' /\ \A q \in Server : matchIndex'[i][q] >= x => Holds(q, g)')
  BY <1>5 DEF Undecided, Kept, Holds, TermOf
<1> DEFINE B == {q \in Server : term'[q] > t /\ matchIndex'[i][q] < x}
<1>8. Blocked(i, x)' <=> B \in Majorities
  BY <1>1, <1>4 DEF Blocked
<1>9. \A q \in Server : matchIndex[i][q] \in Nat /\ matchIndex'[i][q] \in Nat
  <2>1. \A q \in Server : matchIndex'[i][q] \in Nat
    BY DEF LogTypes
  <2> QED BY <1>1, <2>1, LogNumbers
<1>10. CASE x \in 1 .. L
  <2>1. g = Prefix(i, x) /\ log[i][x].term = t /\ Holds(i, g)
    <3>1. /\ Prefix(i, x) \in Seq(Entry) /\ Len(Prefix(i, x)) = x
          /\ \A z \in 1 .. x : Prefix(i, x)[z] = log[i][z]
      BY <1>1, <1>3, <1>10, PrefixIs
    <3>2. \A z \in 1 .. x : g[z] = log[i][z]
      BY <1>4, <1>6, <1>10
    <3>3. g = Prefix(i, x)
      BY <1>6, <3>1, <3>2, SeqEqual
    <3> QED BY <1>3, <1>4, <1>6, <1>10, <3>2, <3>3 DEF Holds
  <2>2. Undecided(i, x)
    BY <1>3, <1>4, <1>10, <2>1 DEF LeadersKnow, OwnTerm
  <2>3. CASE Blocked(i, x)
    <3>1. PICK A \in Majorities : A = {q \in Server : term[q] > t /\ matchIndex[i][q] < x}
      BY <1>3, <2>3 DEF Blocked
    <3>2. ASSUME NEW q \in Server, term[q] > t, matchIndex[i][q] < x
          PROVE  term'[q] > t /\ matchIndex'[i][q] < x
      <4>1. ASSUME NEW n \in Nat, Delivered(i, q, n) PROVE FALSE
        BY <1>2, <1>3, <3>2, <4>1 DEF Delivered
      <4> QED BY <1>2, <1>4, <3>2, <4>1
    <3>3. A \subseteq B /\ B \in SUBSET Server
      BY <3>1, <3>2
    <3> HIDE DEF B
    <3> QED BY <1>8, <3>1, <3>3, MajorityGrows
  <2>4. CASE Kept(g) /\ \A q \in Server : matchIndex[i][q] >= x => Holds(q, g)
    <3>1. IsKept(g)
      BY <1>6, <2>1, <2>4 DEF IsKept
    <3>2. CASE \A k \in Server, Q \in Majorities : Elected(k, Q) => \E q \in Q : Holds(q, g)
      <4>1. StaysKept(g)
        BY <3>1, <3>2, MovesKeep
      <4>2. ASSUME NEW q \in Server, matchIndex'[i][q] >= x PROVE Holds(q, g)'
        <5>1. CASE matchIndex'[i][q] = matchIndex[i][q]
          BY <2>4, <4>1, <4>2, <5>1 DEF StaysKept
        <5>2. ASSUME NEW n \in Nat, Delivered(i, q, n), matchIndex'[i][q] = n PROVE Holds(q, g)'
          <6>1. n >= x /\ n <= Len(log'[q]) /\ \A z \in 1 .. n : log'[q][z] = log[i][z]
            BY <4>2, <5>2 DEF Delivered
          <6>2. Len(g) <= Len(log'[q])
            <7>1. Len(log'[q]) \in Nat
              BY DEF LogTypes
            <7> QED BY <1>6, <6>1, <7>1
          <6>3. \A z \in 1 .. x : log'[q][z] = g[z]
            <7>1. \A z \in 1 .. x : z \in 1 .. n /\ z \in 1 .. L
              BY <1>6, <1>10, <6>1
            <7>2. \A z \in 1 .. x : log'[q][z] = log[i][z] /\ log'[i][z] = log[i][z]
              BY <1>4, <6>1, <7>1
            <7> QED BY <1>6, <7>2
          <6> QED BY <1>6, <6>2, <6>3 DEF Holds
        <5> QED BY <1>4, <5>1, <5>2
      <4>3. Kept(g)'
        BY <4>1 DEF StaysKept, Kept, TermOf
      <4> QED BY <1>7, <4>2, <4>3
    <3>3. ASSUME NEW k \in Server, NEW Q \in Majorities, Elected(k, Q),
                 \A q \in Q : ~Holds(q, g)
          PROVE  Blocked(i, x)'
      <4>1. \A q \in Q : q \in Server /\ term[q] < term[k] + 1 /\ term'[q] = term[k] + 1
        BY <3>3 DEF Elected, Majorities
      <4>2. t < term[k] + 1
        BY <1>2, <1>3, <1>4, <4>1, NewTerm
      <4>3. \A q \in Q : matchIndex[i][q] < x
        BY <1>6, <1>9, <2>4, <3>3, <4>1
      <4>4. \A q \in Q : ~(\E n \in Nat : Delivered(i, q, n))
        <5>1. ASSUME NEW q \in Q, NEW n \in Nat, Delivered(i, q, n) PROVE FALSE
          BY <1>2, <1>3, <4>1, <4>2, <5>1 DEF Delivered
        <5> QED BY <5>1
      <4>5. Q \subseteq B /\ B \in SUBSET Server
        BY <1>4, <4>1, <4>2, <4>3, <4>4
      <4> HIDE DEF B
      <4> QED BY <1>8, <4>5, MajorityGrows
    <3> QED BY <3>2, <3>3
  <2> QED BY <2>1, <2>2, <2>3, <2>4 DEF Undecided
<1>11. CASE Appended(i) /\ x = L + 1
  <2>1. \A q \in Server : matchIndex'[i][q] < x
    <3>1. matchIndex' = matchIndex
      BY <1>11 DEF Appended
    <3>2. \A q \in Server : matchIndex[i][q] > 0 => matchIndex[i][q] <= L
      BY <1>3, <1>4 DEF LogInv, MatchBounded
    <3> QED BY <1>9, <1>11, <3>1, <3>2
  <2>2. CASE \A k \in Server : ~Beyond(k, t)'
    <3>1. Kept(g)'
      BY <1>6, <2>2 DEF Kept, TermOf
    <3> QED BY <1>6, <1>7, <1>9, <2>1, <3>1
  <2>3. ASSUME NEW k \in Server, Beyond(k, t)' PROVE Blocked(i, x)'
    <3>1. PICK u : u > t /\ u \in Nat /\ Reached(u)' \in Majorities
      <4>1. CASE leader'[k] /\ term'[k] > t
        <5>1. {q \in Server : term'[q] >= term'[k]} \in Majorities
          BY <1>1, <4>1 DEF LogInv, LeadersTaken, Reached, Majorities
        <5>2. PICK u : u = term'[k]
          OBVIOUS
        <5> QED BY <1>2, <4>1, <5>1, <5>2 DEF Reached
      <4>2. ASSUME NEW y \in 1 .. Len(log'[k]), log'[k][y].term > t
            PROVE  \E u : u > t /\ u \in Nat /\ Reached(u)' \in Majorities
        <5>1. {q \in Server : term'[q] >= log'[k][y].term} \in Majorities
          BY <1>1, <4>2 DEF LogInv, EntriesTaken, Reached, Majorities
        <5>2. PICK u : u = log'[k][y].term
          OBVIOUS
        <5>3. log'[k][y].term \in Nat
          BY LogNumbersNext
        <5> QED BY <4>2, <5>1, <5>2, <5>3 DEF Reached
      <4> QED BY <2>3, <4>1, <4>2 DEF Beyond
    <3>2. Reached(u)' \subseteq B /\ B \in SUBSET Server
      BY <1>2, <2>1, <3>1 DEF Reached
    <3> HIDE DEF B
    <3> QED BY <1>8, <3>1, <3>2, MajorityGrows
  <2> QED BY <1>7, <2>2, <2>3
<1> QED BY <1>4, <1>10, <1>11

-----------------------------------------------------------------------------
(* What is committed is safe.                                              *)

\* The commit rule: the entry is not blocked, so the majority that accepted it
\* has it still.
LEMMA CommitIsSafe ==
  ASSUME LogInv, LeadersKnow, NEW i \in Server, leader[i], NEW x \in 1 .. Len(log[i]),
         OwnTerm(i, x), Matched(i, x) \in Majorities
  PROVE  /\ Safe(Prefix(i, x)) /\ TermOf(Prefix(i, x)) = term[i] /\ Len(Prefix(i, x)) = x
         /\ \A z \in 1 .. x : log[i][z] = Prefix(i, x)[z]
<1>1. LogTypes /\ term[i] \in Nat /\ x \in Nat /\ Len(log[i]) \in Nat
      /\ \A q \in Server : matchIndex[i][q] \in Nat
  BY LogNumbers DEF LogInv
<1>2. /\ Prefix(i, x) \in Seq(Entry) /\ Len(Prefix(i, x)) = x
      /\ \A z \in 1 .. x : Prefix(i, x)[z] = log[i][z]
  BY <1>1, PrefixIs
<1>3. PICK g \in Seq(Entry) : g = Prefix(i, x)
  BY <1>2
<1>4. ~Blocked(i, x)
  <2>1. ASSUME Blocked(i, x) PROVE FALSE
    <3>1. PICK B \in Majorities : B = {q \in Server : term[q] > term[i] /\ matchIndex[i][q] < x}
      BY <2>1 DEF Blocked
    <3>2. PICK q \in Server : q \in B /\ q \in Matched(i, x)
      BY <3>1, MajoritiesMeet
    <3> QED BY <1>1, <3>1, <3>2 DEF Matched
  <2> QED BY <2>1
<1>5. Kept(g) /\ \A q \in Server : matchIndex[i][q] >= x => Holds(q, g)
  BY <1>3, <1>4 DEF LeadersKnow, Undecided
<1>6. Holds(i, g)
  BY <1>1, <1>2, <1>3 DEF Holds
<1>7. {q \in Server : Holds(q, g)} \in Majorities
  <2>1. Matched(i, x) \subseteq {q \in Server : Holds(q, g)}
    BY <1>5, <1>6 DEF Matched
  <2> QED BY <2>1, MajorityGrows
<1>8. TermOf(g) = term[i]
  <2>1. x \in 1 .. x
    BY <1>1
  <2> QED BY <1>2, <1>3, <2>1 DEF TermOf, OwnTerm
<1> QED BY <1>1, <1>2, <1>3, <1>5, <1>7, <1>8 DEF Safe

\* A server keeps what it has committed: a leader whose call it follows has it.
LEMMA CommittedStays ==
  ASSUME LogInv, LogTypes', GroupMoves, NEW i \in Server, NEW g \in Seq(Entry), CommittedIn(i, g)
  PROVE  /\ Safe(g)' /\ TermOf(g) <= term'[i]
         /\ commitIndex[i] <= Len(g) /\ commitIndex[i] <= Len(log'[i])
         /\ \A x \in 1 .. commitIndex[i] : log'[i][x] = g[x]
<1>1. LogTypes /\ Len(g) \in Nat /\ commitIndex[i] \in Nat
  BY DEF LogInv, LogTypes
<1>2. PICK c \in Nat : c = commitIndex[i]
  BY <1>1
<1>3. /\ Safe(g) /\ IsKept(g) /\ TermOf(g) <= term[i] /\ c <= Len(g) /\ c <= Len(log[i])
      /\ \A x \in 1 .. c : log[i][x] = g[x]
  BY <1>2, SafeIsKept DEF CommittedIn
<1>4. Len(log[i]) \in Nat /\ Len(log'[i]) \in Nat /\ term[i] \in Nat /\ term'[i] \in Nat
  BY <1>1, LogNumbers, LogNumbersNext
<1>5. TermOf(g) \in Nat
  <2>1. PICK h \in Server : Holds(h, g)
    BY <1>3 DEF IsKept
  <2> QED BY <1>3, <2>1, HeldFacts DEF IsKept
<1>6. Safe(g)' /\ TermOf(g) <= term'[i]
  BY <1>3, <1>4, <1>5, SafeStays, MovesLog DEF TermsGrow
<1>7. c <= Len(log'[i]) /\ \A x \in 1 .. c : log'[i][x] = g[x]
  <2>1. CASE log'[i] = log[i]
    BY <1>3, <2>1
  <2>2. CASE Appended(i)
    BY <1>3, <1>4, <2>2 DEF Appended
  <2>3. ASSUME NEW k \in Server, NEW n \in Nat, Delivered(k, i, n)
        PROVE  c <= Len(log'[i]) /\ \A x \in 1 .. c : log'[i][x] = g[x]
    <3>1. term[k] \in Nat /\ Len(log[k]) \in Nat
      BY <1>1, LogNumbers
    <3>2. leader[k] /\ term[k] >= TermOf(g)
      BY <1>3, <1>4, <1>5, <2>3, <3>1 DEF Delivered
    <3>3. Holds(k, g)
      BY <1>3, <3>2, LeaderHolds
    <3>4. CASE Len(log'[i]) = n /\ (n <= Len(log[i]) => \E z \in 1 .. n : log[i][z] # log[k][z])
      <4>1. n < c => FALSE
        BY <1>1, <1>3, <1>4, <3>3, <3>4 DEF Holds
      <4>2. \A x \in 1 .. c : log'[i][x] = log[k][x] /\ log[k][x] = g[x]
        BY <1>1, <1>3, <2>3, <3>3, <4>1 DEF Holds, Delivered
      <4> QED BY <3>4, <4>1, <4>2
    <3> QED BY <2>1, <2>3, <3>4 DEF Delivered
  <2>4. CASE Quiet
    BY <2>1, <2>4 DEF Quiet
  <2>5. CASE \E k \in Server : \E Q \in Majorities : Elected(k, Q)
    BY <2>1, <2>5 DEF Elected
  <2>6. CASE \E k \in Server : Appended(k)
    BY <2>1, <2>2, <2>6 DEF Appended
  <2>7. CASE \E k, j \in Server : \E n \in Nat : Delivered(k, j, n)
    BY <2>1, <2>3, <2>7 DEF Delivered
  <2> QED BY <2>4, <2>5, <2>6, <2>7 DEF GroupMoves
<1> QED BY <1>2, <1>3, <1>6, <1>7

\* Commit indexes that do not grow.
LEMMA CommitsStay ==
  ASSUME LogInv, CommitsAreSafe, LogTypes', GroupMoves, NEW i \in Server,
         commitIndex'[i] = commitIndex[i] \/ commitIndex'[i] = 0
  PROVE  commitIndex'[i] = 0 \/ \E g \in Seq(Entry) : CommittedIn(i, g)'
<1>1. SUFFICES ASSUME commitIndex[i] # 0, commitIndex'[i] = commitIndex[i]
               PROVE  \E g \in Seq(Entry) : CommittedIn(i, g)'
  OBVIOUS
<1>2. PICK g \in Seq(Entry) : CommittedIn(i, g)
  BY <1>1 DEF CommitsAreSafe
<1>3. CommittedIn(i, g)'
  BY <1>1, <1>2, CommittedStays DEF CommittedIn, TermOf
<1> QED BY <1>3

\* A leader accepts an operation.
Accepts(i, op) ==
  leader[i] /\ AppendEntry(i, op) /\ UNCHANGED <<term, leader, commitIndex, matchIndex>>

GroupSteps ==
  \/ GroupNext \/ UNCHANGED group
  \/ \E i \in Server : Reboot(i) \/ \E op \in Ops : Accepts(i, op)

LEMMA GroupKeeps ==
  ASSUME GroupInv, GroupSteps
  PROVE  GroupInv' /\ GroupMoves /\ LogTypes'
<1>0. LogInv /\ LogTypes /\ LeadersKnow /\ CommitsAreSafe
  BY DEF GroupInv, LogInv
<1>1. SUFFICES LogTypes' /\ GroupMoves /\ CommitsAreSafe'
  BY <1>0, MovesLog, LeadersKnowStays DEF GroupInv
<1>2. ASSUME LogTypes', GroupMoves,
             \A k \in Server : commitIndex'[k] = commitIndex[k] \/ commitIndex'[k] = 0
      PROVE  CommitsAreSafe'
  <2>1. \A k \in Server : commitIndex'[k] = 0 \/ \E g \in Seq(Entry) : CommittedIn(k, g)'
    BY <1>0, <1>2, CommitsStay
  <2> QED BY <2>1 DEF CommitsAreSafe
<1>3. ASSUME NEW i \in Server, Campaign(i) \/ (\E j \in Server : StepDown(i, j)) \/ Reboot(i)
      PROVE  LogTypes' /\ GroupMoves /\ CommitsAreSafe'
  <2>1. LogTypes' /\ Quiet
    BY <1>0, <1>3, QuietActions
  <2>2. \A k \in Server : commitIndex'[k] = commitIndex[k] \/ commitIndex'[k] = 0
    BY <1>0, <1>3 DEF Campaign, StepDown, Reboot, LogTypes
  <2> QED BY <1>2, <2>1, <2>2 DEF GroupMoves
<1>4. ASSUME NEW i \in Server, NEW Q \in Majorities, Elect(i, Q)
      PROVE  LogTypes' /\ GroupMoves /\ CommitsAreSafe'
  <2>1. LogTypes' /\ Elected(i, Q) /\ UNCHANGED commitIndex
    BY <1>0, <1>4, ElectAction
  <2> QED BY <1>2, <2>1 DEF GroupMoves
<1>5. ASSUME NEW i \in Server, NEW op \in Ops, Accepts(i, op)
      PROVE  LogTypes' /\ GroupMoves /\ CommitsAreSafe'
  <2>1. LogTypes' /\ Appended(i) /\ UNCHANGED commitIndex
    BY <1>0, <1>5, AppendAction DEF Accepts
  <2> QED BY <1>2, <2>1 DEF GroupMoves
<1>6. ASSUME NEW i \in Server, NEW x \in 1 .. Len(log[i]), Commit(i, x)
      PROVE  LogTypes' /\ GroupMoves /\ CommitsAreSafe'
  <2>1. LogTypes' /\ Quiet /\ GroupMoves
    BY <1>0, <1>6, QuietActions DEF GroupMoves
  <2>2. /\ leader[i] /\ OwnTerm(i, x) /\ Matched(i, x) \in Majorities
        /\ commitIndex' = [commitIndex EXCEPT ![i] = x] /\ UNCHANGED <<term, leader, log, matchIndex>>
    BY <1>6 DEF Commit, Counts
  <2>3. PICK g \in Seq(Entry) : g = Prefix(i, x)
    BY <1>0, LogNumbers, PrefixIs
  <2>4. /\ Safe(g) /\ TermOf(g) = term[i] /\ Len(g) = x
        /\ \A z \in 1 .. x : log[i][z] = g[z]
    BY <1>0, <2>2, <2>3, CommitIsSafe
  <2>5. Safe(g)'
    BY <1>0, <2>1, <2>4, SafeStays
  <2>6. CommittedIn(i, g)'
    <3>1. commitIndex'[i] = x /\ term'[i] = term[i] /\ log' = log
      BY <1>0, <2>2 DEF LogTypes
    <3>2. x <= Len(g) /\ x <= Len(log[i]) /\ TermOf(g) <= term[i]
      BY <1>0, <2>4, LogNumbers
    <3> QED BY <2>4, <2>5, <3>1, <3>2 DEF CommittedIn, TermOf
  <2>7. \A k \in Server : k # i => commitIndex'[k] = commitIndex[k]
    BY <1>0, <2>2 DEF LogTypes
  <2>8. \A k \in Server : commitIndex'[k] = 0 \/ \E h \in Seq(Entry) : CommittedIn(k, h)'
    BY <1>0, <2>1, <2>6, <2>7, CommitsStay
  <2> QED BY <2>1, <2>8 DEF CommitsAreSafe
<1>7. ASSUME NEW i \in Server, NEW j \in Server, NEW n \in 0 .. Len(log[i]),
             NEW commit \in 0 .. commitIndex[i], commit <= n, AppendEntries(i, j, n, commit)
      PROVE  LogTypes' /\ GroupMoves /\ CommitsAreSafe'
  <2>0. n \in Nat /\ commit \in Nat /\ commitIndex[i] \in Nat /\ commitIndex[j] \in Nat
    BY <1>0 DEF LogTypes
  <2>1. LogTypes' /\ Delivered(i, j, n) /\ GroupMoves
    BY <1>0, <1>7, <2>0, AppendEntriesAction DEF GroupMoves
  <2>2. /\ commitIndex'[j] = IF commit > commitIndex[j] THEN commit ELSE commitIndex[j]
        /\ \A k \in Server : k # j => commitIndex'[k] = commitIndex[k]
    BY <1>0, <1>7 DEF AppendEntries, LogTypes
  <2>3. CASE commitIndex'[j] = commitIndex[j]
    BY <1>2, <2>1, <2>2, <2>3
  <2>4. CASE commitIndex'[j] = commit /\ commit > 0
    <3>1. commitIndex[i] # 0
      BY <2>0, <2>4
    <3>2. PICK g \in Seq(Entry) : CommittedIn(i, g)
      BY <1>0, <3>1 DEF CommitsAreSafe
    <3>3. Safe(g)'
      BY <1>0, <2>1, <3>2, SafeStays DEF CommittedIn
    <3>4. /\ TermOf(g) <= term[i] /\ term'[j] = term[i] /\ commit <= Len(g)
          /\ n <= Len(log'[j]) /\ \A x \in 1 .. commit : log'[j][x] = log[i][x] /\ log[i][x] = g[x]
      <4>1. TermOf(g) <= term[i] /\ commit <= Len(g) /\ \A x \in 1 .. commit : log[i][x] = g[x]
        BY <2>0, <3>2 DEF CommittedIn
      <4>2. term'[j] = term[i] /\ n <= Len(log'[j]) /\ \A x \in 1 .. commit : log'[j][x] = log[i][x]
        BY <1>7, <2>0, <2>1 DEF Delivered
      <4> QED BY <4>1, <4>2
    <3>5. commit <= Len(log'[j])
      BY <1>7, <2>0, <2>1, <3>4, LogNumbersNext
    <3>6. CommittedIn(j, g)'
      BY <2>4, <3>3, <3>4, <3>5 DEF CommittedIn, TermOf
    <3>7. \A k \in Server : commitIndex'[k] = 0 \/ \E h \in Seq(Entry) : CommittedIn(k, h)'
      BY <1>0, <2>1, <2>2, <3>6, CommitsStay
    <3> QED BY <2>1, <3>7 DEF CommitsAreSafe
  <2> QED BY <2>0, <2>2, <2>3, <2>4
<1>8. CASE UNCHANGED group
  <2>1. UNCHANGED <<term, leader, log, commitIndex, matchIndex>>
    BY <1>8 DEF group
  <2>2. LogTypes'
    BY <1>0, <2>1 DEF LogTypes
  <2>3. Quiet
    BY <1>0, <2>1, LogNumbers DEF Quiet
  <2> QED BY <1>2, <2>1, <2>2, <2>3 DEF GroupMoves
<1> QED BY <1>3, <1>4, <1>5, <1>6, <1>7, <1>8 DEF GroupSteps, GroupNext

LEMMA GroupStarts ==
  ASSUME GroupInit
  PROVE  GroupInv
<1>1. /\ \A i \in Server : /\ term[i] = 0 /\ ~leader[i] /\ log[i] = <<>> /\ commitIndex[i] = 0
                           /\ \A j \in Server : matchIndex[i][j] = 0
      /\ \A i \in Server : \A x \in 1 .. Len(log[i]) : FALSE
  BY DEF GroupInit
<1>2. LogTypes
  <2>1. <<>> \in Seq(Entry) /\ 0 \in 0 .. MaxTerm
    BY GroupAssumption
  <2> QED BY <2>1 DEF GroupInit, LogTypes
<1>3. LogInv
  BY <1>1, <1>2 DEF LogInv, TermsAscend, LeadersTaken, EntriesTaken, OneLeader, LogsMatch,
                    LeaderHasAll, MatchBounded
<1>4. LeadersKnow /\ CommitsAreSafe
  BY <1>1 DEF LeadersKnow, CommitsAreSafe
<1> QED BY <1>3, <1>4 DEF GroupInv

-----------------------------------------------------------------------------
(* The invariant of the servers above the group.                           *)

Calls == [at : {"idle", "waiting", "leaving"}, n : 0 .. MaxSubmits,
          on : Server \cup {None}, index : 0 .. MaxLog, term : Nat,
          id : Nat, channel : Ops \cup {None}]

CallTypes ==
  /\ opId \in [Server -> Nat]
  /\ pending \in [Server -> [1 .. MaxLog -> Caller \cup {None}]]
  /\ applied \in [Server -> 0 .. MaxLog]
  /\ call \in [Caller -> Calls]
  /\ outcome \in [Request -> [err : Errors, result : Request \cup {None}]]
  /\ submitted \in Seq(Request) /\ executed \in Seq(Request)

\* A call that is not idle is one of its caller's, on a server, at an index.
InCall ==
  \A c \in Caller : call[c].at # "idle" =>
    call[c].on \in Server /\ call[c].index \in 1 .. MaxLog /\ call[c].n >= 1

Registered ==
  \A i \in Server : \A x \in 1 .. MaxLog : pending[i][x] # None =>
    /\ call[pending[i][x]].at # "idle"
    /\ call[pending[i][x]].on = i /\ call[pending[i][x]].index = x

Sized == \A i \in Server : Len(log[i]) <= MaxLog

\* What is logged has been submitted, and a log has it once.
LogsAsked ==
  \A i \in Server : \A x \in 1 .. Len(log[i]) :
    log[i][x].op.req[2] <= call[log[i][x].op.req[1]].n
LogsOnce ==
  \A i \in Server : \A x, y \in 1 .. Len(log[i]) :
    log[i][x].op.req = log[i][y].op.req => x = y

\* What has been executed is the beginning of something safe.
Executes(g) ==
  /\ Safe(g) /\ Len(executed) <= Len(g)
  /\ \A z \in 1 .. Len(executed) : executed[z] = g[z].op.req
ExecutedIsSafe == executed = <<>> \/ \E g \in Seq(Entry) : Executes(g)

\* A reader is within what its server knows to be committed, and has been
\* there before or is the first.
ReadersFollow ==
  \A i \in Server : applied[i] <= commitIndex[i] /\ applied[i] <= Len(executed)

ServersInv ==
  /\ GroupInv /\ CallTypes /\ InCall /\ Registered /\ Sized
  /\ LogsAsked /\ LogsOnce /\ ExecutedIsSafe /\ ReadersFollow

\* The operations that are in a log or a channel, and whose they are: while
\* opId is never reset, a waiting call's pair of server and id is its own.
Known(op) ==
  \/ \E i \in Server : \E x \in 1 .. Len(log[i]) : op = log[i][x].op
  \/ \E c \in Caller : op = call[c].channel /\ op # None
IdsUsed == \A op \in Ops : Known(op) => op.id < opId[op.me]
CallIdsUsed == \A c \in Caller : call[c].at = "waiting" => call[c].id < opId[call[c].on]
IdsOwn ==
  \A c \in Caller : \A op \in Ops :
    Known(op) /\ call[c].at = "waiting" /\ op.me = call[c].on /\ op.id = call[c].id =>
      op.req = Req(c)

AnswersInv == IdsUsed /\ CallIdsUsed /\ IdsOwn /\ AnswersOwn

-----------------------------------------------------------------------------
(* Types.                                                                  *)

LEMMA GroupGives ==
  ASSUME GroupInv
  PROVE  GroupTypes
<1>1. LogTypes /\ TermsAscend /\ CommitsAreSafe
  BY DEF GroupInv, LogInv
<1>2. \A i \in Server : \A x \in 1 .. Len(log[i]) : log[i][x].term \in 1 .. MaxTerm
  <2> SUFFICES ASSUME NEW i \in Server, NEW x \in 1 .. Len(log[i])
               PROVE  log[i][x].term \in 1 .. MaxTerm
    OBVIOUS
  <2>1. log[i][x].term \in Nat /\ 1 <= log[i][x].term /\ log[i][x].term <= term[i]
    BY <1>1, LogNumbers DEF TermsAscend
  <2>2. term[i] \in Nat /\ term[i] <= MaxTerm
    BY <1>1, GroupAssumption DEF LogTypes
  <2> QED BY <2>1, <2>2, GroupAssumption
<1>3. \A i \in Server : commitIndex[i] <= Len(log[i])
  BY <1>1, LogNumbers DEF CommitsAreSafe, CommittedIn
<1> QED BY <1>1, <1>2, <1>3, GroupAssumption DEF LogTypes, GroupTypes

LEMMA CallTypesGive ==
  ASSUME CallTypes
  PROVE  /\ \A c \in Caller : /\ c # None /\ call[c] \in Calls /\ call[c].n \in 0 .. MaxSubmits
                              /\ call[c].channel \in Ops \cup {None}
                              /\ call[c].id \in Nat /\ call[c].index \in 0 .. MaxLog
                              /\ call[c].term \in Nat /\ call[c].on \in Server \cup {None}
         /\ MaxSubmits \in Nat /\ MaxLog \in Nat
BY CallerAssumption, GroupAssumption DEF CallTypes, Calls

\* A log entry's operation.
LEMMA OpsTyped ==
  ASSUME LogTypes, NEW i \in Server, NEW x \in 1 .. Len(log[i])
  PROVE  /\ log[i][x].op \in Ops /\ log[i][x].op.req \in Request
         /\ log[i][x].op.req[1] \in Caller /\ log[i][x].op.req[2] \in 1 .. MaxSubmits
         /\ log[i][x].op.me \in Server /\ log[i][x].op.id \in Nat
<1>1. log[i][x].op \in Ops
  BY LogNumbers DEF Entry
<1> QED BY <1>1 DEF Ops, Request

LEMMA NoCallTyped ==
  ASSUME NEW n \in 0 .. MaxSubmits
  PROVE  NoCall(n) \in Calls /\ NoCall(n).at = "idle" /\ NoCall(n).n = n
         /\ NoCall(n).on = None /\ NoCall(n).channel = None
BY GroupAssumption DEF NoCall, Calls

LEMMA CalledTyped ==
  ASSUME NEW n \in 0 .. MaxSubmits, NEW i \in Server, NEW x \in 1 .. MaxLog, NEW t \in Nat,
         NEW id \in Nat
  PROVE  /\ Called(n, i, x, t, id) \in Calls
         /\ Called(n, i, x, t, id).at = "waiting" /\ Called(n, i, x, t, id).n = n
         /\ Called(n, i, x, t, id).on = i /\ Called(n, i, x, t, id).index = x
         /\ Called(n, i, x, t, id).id = id /\ Called(n, i, x, t, id).channel = None
BY GroupAssumption DEF Calls, Called

\* What a step may do to a call, whatever else it does.
LEMMA SubmitCalls ==
  ASSUME CallTypes, LogTypes, NEW c \in Caller, NEW i \in Server, Submit(c, i)
  PROVE  \E n \in 1 .. MaxSubmits, x \in 1 .. MaxLog :
           /\ n = call[c].n + 1 /\ x = Len(log[i]) + 1 /\ call[c].at = "idle"
           /\ call' = [call EXCEPT ![c] = Called(n, i, x, term[i], opId[i])]
           /\ pending' = [pending EXCEPT ![i][x] = c]
           /\ submitted' = Append(submitted, <<c, n>>) /\ <<c, n>> \in Request
           /\ Accepts(i, [me |-> i, id |-> opId[i], req |-> <<c, n>>])
           /\ [me |-> i, id |-> opId[i], req |-> <<c, n>>] \in Ops
<1>1. PICK n, x : n = call[c].n + 1 /\ x = Len(log[i]) + 1
  OBVIOUS
<1>2. n \in 1 .. MaxSubmits /\ x \in 1 .. MaxLog
  <2>1. call[c].n \in Nat /\ call[c].n < MaxSubmits /\ Len(log[i]) \in Nat /\ x <= MaxLog
    BY <1>1, CallTypesGive, LogNumbers DEF Submit, Proposes
  <2> QED BY <1>1, <2>1, CallTypesGive
<1>3. <<c, n>> \in Request /\ opId[i] \in Nat
  BY <1>2 DEF Request, CallTypes
<1>4. [me |-> i, id |-> opId[i], req |-> <<c, n>>] \in Ops
  BY <1>3 DEF Ops
<1>5. /\ call' = [call EXCEPT ![c] = Called(n, i, x, term[i], opId[i])]
      /\ pending' = [pending EXCEPT ![i][x] = c]
      /\ submitted' = Append(submitted, <<c, n>>)
      /\ AppendEntry(i, [me |-> i, id |-> opId[i], req |-> <<c, n>>])
      /\ leader[i] /\ call[c].at = "idle" /\ UNCHANGED <<term, leader, commitIndex, matchIndex>>
  BY <1>1 DEF Submit, Proposes
<1> QED BY <1>1, <1>2, <1>3, <1>4, <1>5 DEF Accepts

LEMMA PendingTyped ==
  ASSUME CallTypes, NEW i \in Server, NEW x \in 1 .. MaxLog
  PROVE  pending[i][x] \in Caller \cup {None}
<1>1. pending[i] \in [1 .. MaxLog -> Caller \cup {None}]
  BY DEF CallTypes
<1> QED BY <1>1

CallsInv == CallTypes /\ InCall /\ Registered

LEMMA SubmitTypes ==
  ASSUME CallsInv, LogTypes, NEW c \in Caller, NEW i \in Server, Submit(c, i)
  PROVE  CallsInv'
<1>0. CallTypes /\ InCall /\ Registered
  BY DEF CallsInv
<1>1. PICK n \in 1 .. MaxSubmits, x \in 1 .. MaxLog :
        /\ n = call[c].n + 1 /\ x = Len(log[i]) + 1 /\ call[c].at = "idle"
        /\ call' = [call EXCEPT ![c] = Called(n, i, x, term[i], opId[i])]
        /\ pending' = [pending EXCEPT ![i][x] = c]
        /\ submitted' = Append(submitted, <<c, n>>) /\ <<c, n>> \in Request
  BY <1>0, SubmitCalls
<1>2. opId[i] \in Nat /\ term[i] \in Nat
  BY <1>0, LogNumbers DEF CallTypes
<1>3. /\ opId' = [opId EXCEPT ![i] = opId[i] + 1] /\ UNCHANGED <<applied, executed, outcome>>
  BY DEF Submit, Proposes
<1>4. PICK r : r = Called(n, i, x, term[i], opId[i])
  OBVIOUS
<1>5. r \in Calls /\ r.at = "waiting" /\ r.n = n /\ r.on = i /\ r.index = x
  <2>1. n \in 0 .. MaxSubmits
    OBVIOUS
  <2> QED BY <1>2, <1>4, <2>1, CalledTyped
<1>6. call' \in [Caller -> Calls] /\ call'[c] = r /\ \A d \in Caller : d # c => call'[d] = call[d]
  BY <1>0, <1>1, <1>4, <1>5 DEF CallTypes
<1>7. /\ pending' \in [Server -> [1 .. MaxLog -> Caller \cup {None}]] /\ pending'[i][x] = c
      /\ \A k \in Server : \A y \in 1 .. MaxLog : k # i \/ y # x => pending'[k][y] = pending[k][y]
  BY <1>0, <1>1 DEF CallTypes
<1>8. CallTypes'
  <2>1. submitted' \in Seq(Request)
    BY <1>0, <1>1, AppendIs DEF CallTypes
  <2>2. opId' \in [Server -> Nat]
    BY <1>0, <1>2, <1>3 DEF CallTypes
  <2> QED BY <1>0, <1>3, <1>6, <1>7, <2>1, <2>2 DEF CallTypes
<1>9. InCall'
  BY <1>0, <1>5, <1>6 DEF InCall
<1>10. Registered'
  <2> SUFFICES ASSUME NEW k \in Server, NEW y \in 1 .. MaxLog, pending'[k][y] # None
               PROVE  /\ call'[pending'[k][y]].at # "idle"
                      /\ call'[pending'[k][y]].on = k /\ call'[pending'[k][y]].index = y
    BY DEF Registered
  <2>1. CASE k = i /\ y = x
    BY <1>5, <1>6, <1>7, <2>1
  <2>2. CASE k # i \/ y # x
    <3>1. PICK d : d = pending[k][y]
      OBVIOUS
    <3>2. pending'[k][y] = d /\ d \in Caller
      <4>1. d \in Caller \cup {None}
        BY <1>0, <3>1, PendingTyped
      <4>2. pending'[k][y] = d
        BY <1>7, <2>2, <3>1
      <4> QED BY <4>1, <4>2
    <3>3. call[d].at # "idle" /\ call[d].on = k /\ call[d].index = y
      BY <1>0, <3>1, <3>2 DEF Registered
    <3> QED BY <1>1, <1>6, <3>2, <3>3
  <2> QED BY <2>1, <2>2
<1> QED BY <1>8, <1>9, <1>10 DEF CallsInv

LEMMA SubmitElsewhereTypes ==
  ASSUME CallsInv, NEW c \in Caller, NEW i \in Server, SubmitElsewhere(c, i)
  PROVE  /\ CallsInv' /\ UNCHANGED group
         /\ \A d \in Caller : call'[d] = IF d = c THEN NoCall(call[c].n + 1) ELSE call[d]
<1>0. CallTypes /\ InCall /\ Registered
  BY DEF CallsInv
<1>1. /\ call[c].at = "idle" /\ call[c].n < MaxSubmits /\ opId' = [opId EXCEPT ![i] = opId[i] + 1]
      /\ call' = [call EXCEPT ![c] = NoCall(call[c].n + 1)]
      /\ outcome' = [outcome EXCEPT ![<<c, call[c].n + 1>>].err = "ErrWrongLeader"]
      /\ UNCHANGED <<group, applied, executed, pending, submitted>>
  BY DEF SubmitElsewhere, Proposes, group
<1>2. PICK n \in 1 .. MaxSubmits : n = call[c].n + 1
  BY <1>0, <1>1, CallTypesGive
<1>3. PICK r : r = NoCall(n)
  OBVIOUS
<1>4. r \in Calls /\ r.at = "idle"
  BY <1>2, <1>3, NoCallTyped
<1>5. call' \in [Caller -> Calls] /\ call'[c] = r /\ \A d \in Caller : d # c => call'[d] = call[d]
  BY <1>0, <1>1, <1>2, <1>3, <1>4 DEF CallTypes
<1>6. <<c, n>> \in Request
  BY DEF Request
<1>7. outcome' \in [Request -> [err : Errors, result : Request \cup {None}]]
  <2>1. outcome' = [outcome EXCEPT ![<<c, n>>] = [outcome[<<c, n>>] EXCEPT !.err = "ErrWrongLeader"]]
    BY <1>1, <1>2
  <2>2. [outcome[<<c, n>>] EXCEPT !.err = "ErrWrongLeader"] \in [err : Errors, result : Request \cup {None}]
    BY <1>0, <1>6 DEF CallTypes, Errors
  <2> QED BY <1>0, <1>6, <2>1, <2>2 DEF CallTypes
<1>8. CallTypes'
  <2>1. opId' \in [Server -> Nat]
    BY <1>0, <1>1 DEF CallTypes
  <2> QED BY <1>0, <1>1, <1>5, <1>7, <2>1 DEF CallTypes
<1>9. InCall'
  BY <1>0, <1>4, <1>5 DEF InCall
<1>10. Registered'
  <2> SUFFICES ASSUME NEW k \in Server, NEW y \in 1 .. MaxLog, pending'[k][y] # None
               PROVE  /\ call'[pending'[k][y]].at # "idle"
                      /\ call'[pending'[k][y]].on = k /\ call'[pending'[k][y]].index = y
    BY DEF Registered
  <2>1. PICK d : d = pending[k][y]
    OBVIOUS
  <2>2. pending'[k][y] = d /\ d \in Caller
    <3>1. d \in Caller \cup {None}
      BY <1>0, <2>1, PendingTyped
    <3>2. pending'[k][y] = d
      BY <1>1, <2>1
    <3> QED BY <3>1, <3>2
  <2>3. call[d].at # "idle" /\ call[d].on = k /\ call[d].index = y
    BY <1>0, <1>1, <2>1, <2>2 DEF Registered
  <2> QED BY <1>1, <1>5, <2>2, <2>3
<1> QED BY <1>1, <1>2, <1>3, <1>5, <1>8, <1>9, <1>10 DEF CallsInv

\* Receive and GiveUp.
ReturnsWith(c, err, result) ==
  /\ call[c].at = "waiting" /\ err \in Errors /\ result \in Request \cup {None}
  /\ Outcome(c, err, result) /\ Returning(c)
  /\ UNCHANGED <<group, rsm, history>>

LEMMA ReceiveReturns ==
  ASSUME CallTypes, NEW c \in Caller, Receive(c) \/ GiveUp(c)
  PROVE  \/ /\ ReturnsWith(c, "OK", call[c].channel.req) /\ Own(c)
            /\ call[c].channel # None /\ call[c].channel \in Ops
         \/ ReturnsWith(c, "ErrWrongLeader", None)
         \/ ReturnsWith(c, "ErrMaybe", None)
<1>1. CASE Receive(c)
  <2>1. call[c].channel \in Ops /\ call[c].channel.req \in Request
    <3>1. call[c].channel \in Ops
      BY <1>1, CallTypesGive DEF Receive
    <3> QED BY <3>1 DEF Ops
  <2> QED BY <1>1, <2>1 DEF Receive, ReturnsWith, Errors
<1>2. CASE GiveUp(c)
  BY <1>2 DEF GiveUp, GivesUp, ReturnsWith, Errors
<1> QED BY <1>1, <1>2

LEMMA ReturnTypes ==
  ASSUME CallsInv, NEW c \in Caller, NEW err, NEW result, ReturnsWith(c, err, result)
  PROVE  /\ CallsInv' /\ Req(c) \in Request /\ UNCHANGED <<group, rsm, history>>
         /\ outcome' = [outcome EXCEPT ![Req(c)] = [err |-> err, result |-> result]]
         /\ \A d \in Caller : call'[d] = IF d = c THEN [call[c] EXCEPT !.at = "leaving"] ELSE call[d]
<1>0. CallTypes /\ InCall /\ Registered
  BY DEF CallsInv
<1>1. /\ call[c].at = "waiting" /\ err \in Errors /\ result \in Request \cup {None}
      /\ outcome' = [outcome EXCEPT ![Req(c)] = [err |-> err, result |-> result]]
      /\ call' = [call EXCEPT ![c] = [call[c] EXCEPT !.at = "leaving"]]
      /\ UNCHANGED <<group, opId, pending, applied, submitted, executed>>
  BY DEF ReturnsWith, Outcome, Returning, rsm, history
<1>2. call[c].n \in 1 .. MaxSubmits
  BY <1>0, <1>1, CallTypesGive DEF InCall
<1>3. Req(c) \in Request
  BY <1>2 DEF Request, Req
<1>4. PICK r : r = [call[c] EXCEPT !.at = "leaving"]
  OBVIOUS
<1>5. /\ r \in Calls /\ r.at = "leaving" /\ r.n = call[c].n /\ r.on = call[c].on
      /\ r.index = call[c].index
  BY <1>0, <1>4, CallTypesGive DEF Calls
<1>6. call' \in [Caller -> Calls] /\ call'[c] = r /\ \A d \in Caller : d # c => call'[d] = call[d]
  BY <1>0, <1>1, <1>4, <1>5 DEF CallTypes
<1>7. outcome' \in [Request -> [err : Errors, result : Request \cup {None}]]
  BY <1>0, <1>1, <1>3 DEF CallTypes
<1>8. CallTypes'
  BY <1>0, <1>1, <1>6, <1>7 DEF CallTypes
<1>9. InCall'
  <2>1. \A d \in Caller : /\ call'[d].on = call[d].on /\ call'[d].index = call[d].index
                          /\ call'[d].n = call[d].n /\ (call'[d].at # "idle" => call[d].at # "idle")
    BY <1>1, <1>5, <1>6
  <2> QED BY <1>0, <2>1 DEF InCall
<1>10. Registered'
  <2> SUFFICES ASSUME NEW k \in Server, NEW y \in 1 .. MaxLog, pending'[k][y] # None
               PROVE  /\ call'[pending'[k][y]].at # "idle"
                      /\ call'[pending'[k][y]].on = k /\ call'[pending'[k][y]].index = y
    BY DEF Registered
  <2>1. PICK d : d = pending[k][y]
    OBVIOUS
  <2>2. pending'[k][y] = d /\ d \in Caller
    <3>1. d \in Caller \cup {None}
      BY <1>0, <2>1, PendingTyped
    <3>2. pending'[k][y] = d
      BY <1>1, <2>1
    <3> QED BY <3>1, <3>2
  <2>3. call[d].at # "idle" /\ call[d].on = k /\ call[d].index = y
    BY <1>0, <1>1, <2>1, <2>2 DEF Registered
  <2> QED BY <1>1, <1>5, <1>6, <2>2, <2>3
<1> QED BY <1>1, <1>3, <1>4, <1>6, <1>8, <1>9, <1>10 DEF CallsInv, ReturnsWith

LEMMA LeaveTypes ==
  ASSUME CallsInv, NEW c \in Caller, Leave(c)
  PROVE  /\ CallsInv' /\ UNCHANGED <<group, opId, applied, outcome, history>>
         /\ \A d \in Caller : call'[d] = IF d = c THEN NoCall(call[c].n) ELSE call[d]
<1>0. CallTypes /\ InCall /\ Registered
  BY DEF CallsInv
<1>1. PICK i \in Server, x \in 1 .. MaxLog : i = call[c].on /\ x = call[c].index
  BY <1>0 DEF Leave, InCall
<1>2. /\ call[c].at = "leaving" /\ pending' = [pending EXCEPT ![i][x] = None]
      /\ call' = [call EXCEPT ![c] = NoCall(call[c].n)]
      /\ UNCHANGED <<group, opId, applied, outcome, submitted, executed>>
  BY <1>1 DEF Leave, Unregister, history
<1>3. PICK r : r = NoCall(call[c].n)
  OBVIOUS
<1>4. r \in Calls /\ r.at = "idle"
  BY <1>0, <1>3, NoCallTyped, CallTypesGive
<1>5. call' \in [Caller -> Calls] /\ call'[c] = r /\ \A d \in Caller : d # c => call'[d] = call[d]
  BY <1>0, <1>2, <1>3, <1>4 DEF CallTypes
<1>6. /\ pending' \in [Server -> [1 .. MaxLog -> Caller \cup {None}]] /\ pending'[i][x] = None
      /\ \A k \in Server : \A y \in 1 .. MaxLog : k # i \/ y # x => pending'[k][y] = pending[k][y]
  BY <1>0, <1>2 DEF CallTypes
<1>7. CallTypes'
  BY <1>0, <1>2, <1>5, <1>6 DEF CallTypes
<1>8. InCall'
  BY <1>0, <1>4, <1>5 DEF InCall
<1>9. Registered'
  <2> SUFFICES ASSUME NEW k \in Server, NEW y \in 1 .. MaxLog, pending'[k][y] # None
               PROVE  /\ call'[pending'[k][y]].at # "idle"
                      /\ call'[pending'[k][y]].on = k /\ call'[pending'[k][y]].index = y
    BY DEF Registered
  <2>1. PICK d : d = pending[k][y]
    OBVIOUS
  <2>2. (k # i \/ y # x) /\ pending'[k][y] = d
    BY <1>6, <2>1
  <2>3. d \in Caller
    <3>1. d \in Caller \cup {None}
      BY <1>0, <2>1, PendingTyped
    <3> QED BY <2>2, <3>1
  <2>4. call[d].at # "idle" /\ call[d].on = k /\ call[d].index = y
    BY <1>0, <2>1, <2>2, <2>3 DEF Registered
  <2>5. d # c
    BY <1>1, <2>2, <2>4
  <2> QED BY <1>5, <2>2, <2>3, <2>4, <2>5
<1> QED BY <1>2, <1>3, <1>5, <1>7, <1>8, <1>9 DEF CallsInv, history

\* The entry the reader takes.
LEMMA ReaderTypes ==
  ASSUME CallsInv, LogTypes, GroupTypes, Sized, NEW i \in Server, Reader(i)
  PROVE  /\ CallsInv' /\ UNCHANGED <<group, opId, outcome, submitted>>
         /\ \E x \in 1 .. MaxLog :
              /\ x = applied[i] + 1 /\ x <= commitIndex[i] /\ x \in 1 .. Len(log[i])
              /\ applied' = [applied EXCEPT ![i] = x]
              /\ executed' = IF x > Len(executed) THEN Append(executed, log[i][x].op.req) ELSE executed
              /\ \A d \in Caller :
                   \/ call'[d] = call[d]
                   \/ call'[d] = [call[d] EXCEPT !.channel = log[i][x].op]
<1>0. CallTypes /\ InCall /\ Registered
  BY DEF CallsInv
<1>1. PICK x : x = applied[i] + 1
  OBVIOUS
<1>2. x \in 1 .. MaxLog /\ x <= commitIndex[i] /\ x \in 1 .. Len(log[i])
  <2>1. applied[i] \in Nat /\ MaxLog \in Nat /\ Len(log[i]) \in Nat /\ commitIndex[i] \in Nat
    BY <1>0, GroupAssumption, LogNumbers DEF CallTypes, LogTypes
  <2>2. x <= commitIndex[i] /\ commitIndex[i] <= Len(log[i]) /\ Len(log[i]) <= MaxLog
    BY <1>1 DEF Reader, Committed, GroupTypes, Sized
  <2> QED BY <1>1, <2>1, <2>2
<1>3. PICK c : c = pending[i][x]
  OBVIOUS
<1>4. c \in Caller \cup {None}
  BY <1>0, <1>2, <1>3, PendingTyped
<1>5. PICK op : op = log[i][x].op
  OBVIOUS
<1>6. op \in Ops /\ op.req \in Request
  BY <1>2, <1>5, OpsTyped
<1>7. /\ applied' = [applied EXCEPT ![i] = x]
      /\ pending' = [pending EXCEPT ![i][x] = None]
      /\ call' = IF c = None THEN call ELSE [call EXCEPT ![c] = [call[c] EXCEPT !.channel = op]]
      /\ executed' = IF x > Len(executed) THEN Append(executed, op.req) ELSE executed
      /\ UNCHANGED <<group, opId, outcome, submitted>>
  BY <1>1, <1>3, <1>5 DEF Reader
<1>8. \A d \in Caller : [call[d] EXCEPT !.channel = op] \in Calls
  BY <1>0, <1>6, CallTypesGive DEF Calls
<1>9. call' \in [Caller -> Calls]
  BY <1>0, <1>4, <1>7, <1>8 DEF CallTypes
<1>10. \A d \in Caller : call'[d] = call[d] \/ call'[d] = [call[d] EXCEPT !.channel = op]
  BY <1>0, <1>4, <1>7 DEF CallTypes
<1>11. \A d \in Caller : /\ call'[d].at = call[d].at /\ call'[d].on = call[d].on
                         /\ call'[d].index = call[d].index /\ call'[d].n = call[d].n
  <2>1. ASSUME NEW r \in Calls
        PROVE  LET s == [r EXCEPT !.channel = op] IN
               s.at = r.at /\ s.on = r.on /\ s.index = r.index /\ s.n = r.n
    BY DEF Calls
  <2> QED BY <1>0, <1>10, <2>1, CallTypesGive
<1>12. /\ pending' \in [Server -> [1 .. MaxLog -> Caller \cup {None}]] /\ pending'[i][x] = None
       /\ \A k \in Server : \A y \in 1 .. MaxLog : k # i \/ y # x => pending'[k][y] = pending[k][y]
  BY <1>0, <1>2, <1>7 DEF CallTypes
<1>13. CallTypes'
  <2>1. executed' \in Seq(Request)
    BY <1>0, <1>6, <1>7, AppendIs DEF CallTypes
  <2>2. applied' \in [Server -> 0 .. MaxLog]
    BY <1>0, <1>2, <1>7 DEF CallTypes
  <2> QED BY <1>0, <1>7, <1>9, <1>12, <2>1, <2>2 DEF CallTypes
<1>14. InCall'
  BY <1>0, <1>11 DEF InCall
<1>15. Registered'
  <2> SUFFICES ASSUME NEW k \in Server, NEW y \in 1 .. MaxLog, pending'[k][y] # None
               PROVE  /\ call'[pending'[k][y]].at # "idle"
                      /\ call'[pending'[k][y]].on = k /\ call'[pending'[k][y]].index = y
    BY DEF Registered
  <2>1. PICK d : d = pending[k][y]
    OBVIOUS
  <2>2. pending'[k][y] = d
    BY <1>12, <2>1
  <2>3. d \in Caller
    <3>1. d \in Caller \cup {None}
      BY <1>0, <2>1, PendingTyped
    <3> QED BY <2>2, <3>1
  <2>4. call[d].at # "idle" /\ call[d].on = k /\ call[d].index = y
    BY <1>0, <2>1, <2>2, <2>3 DEF Registered
  <2> QED BY <1>11, <2>2, <2>3, <2>4
<1> QED BY <1>1, <1>2, <1>5, <1>7, <1>10, <1>13, <1>14, <1>15 DEF CallsInv

LEMMA CrashTypes ==
  ASSUME CallsInv, NEW i \in Server, Crash(i)
  PROVE  /\ CallsInv' /\ Reboot(i) /\ i \in Restartable /\ UNCHANGED <<outcome, history>>
         /\ applied' = [applied EXCEPT ![i] = 0]
         /\ \A d \in Caller : call'[d].n = call[d].n
<1>0. CallTypes /\ InCall /\ Registered
  BY DEF CallsInv
<1>1. /\ opId' = [opId EXCEPT ![i] = 0]
      /\ pending' = [pending EXCEPT ![i] = [x \in 1 .. MaxLog |-> None]]
      /\ applied' = [applied EXCEPT ![i] = 0]
      /\ call' = [c \in Caller |-> IF call[c].on = i THEN NoCall(call[c].n) ELSE call[c]]
      /\ UNCHANGED <<outcome, submitted, executed>>
  BY DEF Crash, history
<1>2. \A c \in Caller : NoCall(call[c].n) \in Calls /\ NoCall(call[c].n).at = "idle"
                        /\ NoCall(call[c].n).n = call[c].n
  BY <1>0, NoCallTyped, CallTypesGive
<1>3. call' \in [Caller -> Calls]
  BY <1>0, <1>1, <1>2 DEF CallTypes
<1>4. \A c \in Caller : /\ call[c].on # i => call'[c] = call[c]
                        /\ call[c].on = i => call'[c].at = "idle"
                        /\ call'[c].n = call[c].n
  BY <1>1, <1>2
<1>5. /\ pending' \in [Server -> [1 .. MaxLog -> Caller \cup {None}]]
      /\ \A y \in 1 .. MaxLog : pending'[i][y] = None
      /\ \A k \in Server : k # i => pending'[k] = pending[k]
  BY <1>0, <1>1 DEF CallTypes
<1>6. CallTypes'
  <2>1. 0 \in 0 .. MaxLog
    BY GroupAssumption
  <2>2. opId' \in [Server -> Nat] /\ applied' \in [Server -> 0 .. MaxLog]
    BY <1>0, <1>1, <2>1 DEF CallTypes
  <2> QED BY <1>0, <1>1, <1>3, <1>5, <2>2 DEF CallTypes
<1>7. InCall'
  BY <1>0, <1>4 DEF InCall
<1>8. Registered'
  <2> SUFFICES ASSUME NEW k \in Server, NEW y \in 1 .. MaxLog, pending'[k][y] # None
               PROVE  /\ call'[pending'[k][y]].at # "idle"
                      /\ call'[pending'[k][y]].on = k /\ call'[pending'[k][y]].index = y
    BY DEF Registered
  <2>1. PICK d : d = pending[k][y]
    OBVIOUS
  <2>2. k # i /\ pending'[k][y] = d
    BY <1>5, <2>1
  <2>3. d \in Caller
    <3>1. d \in Caller \cup {None}
      BY <1>0, <2>1, PendingTyped
    <3> QED BY <2>2, <3>1
  <2>4. call[d].at # "idle" /\ call[d].on = k /\ call[d].index = y
    BY <1>0, <2>1, <2>2, <2>3 DEF Registered
  <2> QED BY <1>4, <2>2, <2>3, <2>4
<1> QED BY <1>1, <1>4, <1>6, <1>7, <1>8 DEF CallsInv, Crash, history

-----------------------------------------------------------------------------
(* What is in the logs has been submitted, and a log has it once.          *)

\* All that the group does of itself.
LEMMA GroupInherits ==
  ASSUME LogTypes, GroupNext \/ UNCHANGED group \/ \E i \in Server : Reboot(i)
  PROVE  LogTypes' /\ Inherited
<1>1. ASSUME NEW i \in Server, \/ Campaign(i) \/ \E j \in Server : StepDown(i, j)
                               \/ \E x \in 1 .. Len(log[i]) : Commit(i, x)
                               \/ Reboot(i)
      PROVE  LogTypes' /\ Inherited
  BY <1>1, QuietActions, QuietInherits
<1>2. ASSUME NEW i \in Server, NEW Q \in Majorities, Elect(i, Q)
      PROVE  LogTypes' /\ Inherited
  BY <1>2, ElectAction, ElectedInherits
<1>3. ASSUME NEW i \in Server, NEW j \in Server, NEW n \in 0 .. Len(log[i]),
             NEW commit \in 0 .. commitIndex[i], AppendEntries(i, j, n, commit)
      PROVE  LogTypes' /\ Inherited
  BY <1>3, AppendEntriesAction, DeliveredInherits
<1>4. CASE UNCHANGED group
  <2>1. UNCHANGED <<term, leader, log, commitIndex, matchIndex>>
    BY <1>4 DEF group
  <2>2. LogTypes'
    BY <2>1 DEF LogTypes
  <2>3. Quiet
    BY <2>1, LogNumbers DEF Quiet
  <2> QED BY <2>2, <2>3, QuietInherits
<1> QED BY <1>1, <1>2, <1>3, <1>4 DEF GroupNext

LogsInv == Sized /\ LogsAsked /\ LogsOnce

LEMMA InheritedOps ==
  ASSUME LogTypes, LogTypes', Inherited, LogsInv, CallTypes, CallTypes',
         \A c \in Caller : call'[c].n >= call[c].n
  PROVE  LogsInv'
<1>1. \A c \in Caller : call[c].n \in Nat /\ call'[c].n \in Nat
  <2>1. \A c \in Caller : call'[c].n \in Nat
    BY CallerAssumption DEF CallTypes, Calls
  <2> QED BY <2>1, CallTypesGive
<1>2. ASSUME NEW k \in Server
      PROVE  /\ Len(log'[k]) <= MaxLog
             /\ \A x \in 1 .. Len(log'[k]) : log'[k][x].op.req[2] <= call'[log'[k][x].op.req[1]].n
             /\ \A x, y \in 1 .. Len(log'[k]) : log'[k][x].op.req = log'[k][y].op.req => x = y
  <2>1. PICK m \in Server : /\ Len(log'[k]) <= Len(log[m])
                            /\ \A z \in 1 .. Len(log'[k]) : log'[k][z] = log[m][z]
    BY DEF Inherited
  <2>2. Len(log'[k]) \in Nat /\ Len(log[m]) \in Nat /\ MaxLog \in Nat /\ Len(log[m]) <= MaxLog
    BY LogNumbers, LogNumbersNext, GroupAssumption DEF LogsInv, Sized
  <2>3. \A z \in 1 .. Len(log'[k]) : z \in 1 .. Len(log[m])
    BY <2>1, <2>2
  <2>4. ASSUME NEW x \in 1 .. Len(log'[k])
        PROVE  log'[k][x].op.req[2] <= call'[log'[k][x].op.req[1]].n
    <3>1. PICK r : r = log[m][x].op.req
      OBVIOUS
    <3>2. log'[k][x].op.req = r /\ r[1] \in Caller /\ r[2] \in Nat
      BY <2>1, <2>3, <3>1, OpsTyped
    <3>3. r[2] <= call[r[1]].n
      BY <2>3, <3>1 DEF LogsInv, LogsAsked
    <3>4. call'[r[1]].n >= call[r[1]].n /\ call[r[1]].n \in Nat /\ call'[r[1]].n \in Nat
      BY <1>1, <3>2
    <3> QED BY <3>2, <3>3, <3>4
  <2>5. \A x, y \in 1 .. Len(log'[k]) : log'[k][x].op.req = log'[k][y].op.req => x = y
    BY <2>1, <2>3 DEF LogsInv, LogsOnce
  <2> QED BY <2>1, <2>2, <2>4, <2>5
<1> QED BY <1>2 DEF LogsInv, Sized, LogsAsked, LogsOnce

\* A log with the operation of a Submit.
LEMMA SubmitLogs ==
  ASSUME CallsInv, LogTypes, LogsInv, NEW c \in Caller, NEW i \in Server, Submit(c, i)
  PROVE  LogsInv' /\ \A d \in Caller : call'[d].n >= call[d].n
<1>0. CallTypes /\ CallTypes' /\ \A d \in Caller : call[d].n \in Nat
  <2>1. CallTypes' /\ CallTypes
    BY SubmitTypes DEF CallsInv
  <2> QED BY <2>1, CallTypesGive
<1>1. PICK n \in 1 .. MaxSubmits, x \in 1 .. MaxLog :
        /\ n = call[c].n + 1 /\ x = Len(log[i]) + 1
        /\ call' = [call EXCEPT ![c] = Called(n, i, x, term[i], opId[i])]
        /\ Accepts(i, [me |-> i, id |-> opId[i], req |-> <<c, n>>])
        /\ [me |-> i, id |-> opId[i], req |-> <<c, n>>] \in Ops
  BY <1>0, SubmitCalls
<1>2. PICK op \in Ops : op = [me |-> i, id |-> opId[i], req |-> <<c, n>>]
  BY <1>1
<1>3. /\ log'[i] = Append(log[i], [term |-> term[i], op |-> op])
      /\ \A k \in Server : k # i => log'[k] = log[k]
      /\ log[i] \in Seq(Entry) /\ [term |-> term[i], op |-> op] \in Entry
  <2>1. AppendEntry(i, op) /\ leader[i] /\ term[i] \in Nat
    BY <1>1, <1>2, LogNumbers DEF Accepts
  <2> QED BY <2>1 DEF AppendEntry, LogTypes, Entry
<1>4. /\ Len(log'[i]) = x /\ Len(log[i]) \in Nat /\ x \in Nat
      /\ \A z \in 1 .. Len(log[i]) : log'[i][z] = log[i][z]
      /\ log'[i][x].op.req = <<c, n>>
  <2>1. log'[i][x] = [term |-> term[i], op |-> op] /\ Len(log'[i]) = x
        /\ \A z \in 1 .. Len(log[i]) : log'[i][z] = log[i][z]
    BY <1>1, <1>3, AppendIs
  <2> QED BY <1>2, <2>1, LogNumbers
<1>5. \A d \in Caller : call'[d].n = IF d = c THEN n ELSE call[d].n
  BY <1>0, <1>1 DEF Called, CallTypes
<1>6. \A d \in Caller : call'[d].n >= call[d].n
  BY <1>0, <1>1, <1>5
<1>7. \A k \in Server : \A z \in 1 .. Len(log'[k]) :
        \/ /\ z \in 1 .. Len(log[k]) /\ log'[k][z] = log[k][z] /\ log'[k][z].op.req # <<c, n>>
           /\ log'[k][z].op.req[2] <= call'[log'[k][z].op.req[1]].n
        \/ k = i /\ z = x /\ log'[k][z].op.req = <<c, n>>
  <2> SUFFICES ASSUME NEW k \in Server, NEW z \in 1 .. Len(log'[k]), ~(k = i /\ z = x)
               PROVE  /\ z \in 1 .. Len(log[k]) /\ log'[k][z] = log[k][z] /\ log'[k][z].op.req # <<c, n>>
                      /\ log'[k][z].op.req[2] <= call'[log'[k][z].op.req[1]].n
    BY <1>4
  <2>1. z \in 1 .. Len(log[k]) /\ log'[k][z] = log[k][z]
    <3>1. CASE k = i
      <4>1. z \in 1 .. Len(log[i])
        BY <1>1, <1>4, <3>1
      <4> QED BY <1>4, <3>1, <4>1
    <3>2. CASE k # i
      BY <1>3, <3>2
    <3> QED BY <3>1, <3>2
  <2>2. PICK r : r = log[k][z].op.req
    OBVIOUS
  <2>3. r[1] \in Caller /\ r[2] \in Nat /\ r[2] <= call[r[1]].n
    BY <2>1, <2>2, OpsTyped DEF LogsInv, LogsAsked
  <2>4. r # <<c, n>>
    BY <1>0, <1>1, <2>3
  <2>5. r[2] <= call'[r[1]].n
    <3>1. call'[r[1]].n >= call[r[1]].n /\ call[r[1]].n \in Nat /\ call'[r[1]].n \in Nat
      BY <1>0, <1>1, <1>5, <1>6, <2>3
    <3> QED BY <2>3, <3>1
  <2> QED BY <2>1, <2>2, <2>4, <2>5
<1>8. Sized'
  <2>1. \A k \in Server : Len(log'[k]) <= MaxLog
    <3>1. x <= MaxLog
      BY <1>1, <1>4, GroupAssumption
    <3> QED BY <1>3, <1>4, <3>1 DEF LogsInv, Sized
  <2> QED BY <2>1 DEF Sized
<1>9. LogsAsked'
  <2>1. n <= call'[c].n
    BY <1>0, <1>1, <1>5
  <2> QED BY <1>7, <2>1 DEF LogsAsked
<1>10. LogsOnce'
  <2> SUFFICES ASSUME NEW k \in Server, NEW y \in 1 .. Len(log'[k]), NEW z \in 1 .. Len(log'[k]),
                      log'[k][y].op.req = log'[k][z].op.req
               PROVE  y = z
    BY DEF LogsOnce
  <2>1. CASE log'[k][y].op.req = <<c, n>>
    BY <1>7, <2>1
  <2>2. CASE log'[k][y].op.req # <<c, n>>
    <3>1. /\ y \in 1 .. Len(log[k]) /\ log'[k][y] = log[k][y]
          /\ z \in 1 .. Len(log[k]) /\ log'[k][z] = log[k][z]
      BY <1>7, <2>2
    <3> QED BY <3>1 DEF LogsInv, LogsOnce
  <2> QED BY <2>1, <2>2
<1> QED BY <1>6, <1>8, <1>9, <1>10 DEF LogsInv

-----------------------------------------------------------------------------
(* What is executed is safe.                                               *)

LEMMA CommitsGrow ==
  ASSUME LogTypes, GroupNext \/ UNCHANGED group
  PROVE  \A k \in Server : commitIndex'[k] >= commitIndex[k]
<1>1. commitIndex \in [Server -> Nat]
  BY DEF LogTypes
<1>2. ASSUME NEW i \in Server, NEW x \in 1 .. Len(log[i]), Commit(i, x)
      PROVE  \A k \in Server : commitIndex'[k] >= commitIndex[k]
  <2>1. x \in Nat /\ x > commitIndex[i] /\ commitIndex' = [commitIndex EXCEPT ![i] = x]
    BY <1>2 DEF Commit, Counts
  <2> QED BY <1>1, <2>1
<1>3. ASSUME NEW i \in Server, NEW j \in Server, NEW n \in 0 .. Len(log[i]),
             NEW commit \in 0 .. commitIndex[i], AppendEntries(i, j, n, commit)
      PROVE  \A k \in Server : commitIndex'[k] >= commitIndex[k]
  <2>1. commitIndex' = [commitIndex EXCEPT ![j] = IF commit > commitIndex[j] THEN commit
                                                  ELSE commitIndex[j]]
    BY <1>3 DEF AppendEntries
  <2>2. commit \in Nat
    BY <1>1
  <2> QED BY <1>1, <2>1, <2>2
<1>4. UNCHANGED commitIndex => \A k \in Server : commitIndex'[k] >= commitIndex[k]
  BY <1>1
<1> QED BY <1>2, <1>3, <1>4 DEF GroupNext, group, Campaign, StepDown, Elect

LEMMA ExecutedStays ==
  ASSUME GroupInv, GroupSteps, ExecutedIsSafe, executed' = executed
  PROVE  ExecutedIsSafe'
<1>1. LogInv /\ LogTypes' /\ GroupMoves
  BY GroupKeeps DEF GroupInv
<1>2. ASSUME NEW g \in Seq(Entry), Executes(g) PROVE Executes(g)'
  BY <1>1, <1>2, SafeStays DEF Executes
<1> QED BY <1>2 DEF ExecutedIsSafe

LEMMA ReaderExecutes ==
  ASSUME GroupInv, ExecutedIsSafe, ReadersFollow, CallTypes, UNCHANGED group,
         NEW i \in Server, NEW x \in 1 .. Len(log[i]), x = applied[i] + 1, x <= commitIndex[i],
         applied' = [applied EXCEPT ![i] = x],
         executed' = IF x > Len(executed) THEN Append(executed, log[i][x].op.req) ELSE executed
  PROVE  ExecutedIsSafe' /\ ReadersFollow'
<1>1. LogInv /\ LogTypes /\ GroupSteps /\ LogTypes' /\ GroupMoves
  <2>1. GroupSteps
    BY DEF GroupSteps
  <2> QED BY <2>1, GroupKeeps DEF GroupInv, LogInv
<1>2. PICK N \in Nat : N = Len(executed)
  BY DEF CallTypes
<1>3. /\ x \in Nat /\ x >= 1 /\ commitIndex[i] \in Nat /\ applied[i] \in Nat
      /\ executed \in Seq(Request) /\ commitIndex' = commitIndex
      /\ \A k \in Server : applied[k] \in Nat /\ applied[k] <= commitIndex[k] /\ applied[k] <= N
  <2>1. commitIndex' = commitIndex /\ \A k \in Server : commitIndex[k] \in Nat
    BY <1>1 DEF LogTypes, group
  <2>2. executed \in Seq(Request) /\ \A k \in Server : applied[k] \in 0 .. MaxLog
    BY DEF CallTypes
  <2>3. \A k \in Server : applied[k] \in Nat
    BY <2>2, GroupAssumption
  <2>4. \A k \in Server : applied[k] <= commitIndex[k] /\ applied[k] <= N
    BY <1>2 DEF ReadersFollow
  <2> QED BY <2>1, <2>2, <2>3, <2>4
<1>4. PICK r \in Request : r = log[i][x].op.req
  BY <1>1, OpsTyped
<1>5. CASE ~(x > N)
  <2>1. executed' = executed
    BY <1>2, <1>5
  <2>2. ReadersFollow'
    BY <1>2, <1>3, <1>5, <2>1 DEF ReadersFollow, CallTypes
  <2> QED BY <1>1, <2>1, <2>2, ExecutedStays
<1>6. CASE x > N
  <2>1. N = x - 1
    BY <1>3, <1>6
  <2>2. /\ Len(executed') = x /\ executed'[x] = r
        /\ \A z \in 1 .. N : executed'[z] = executed[z]
    <3>1. executed' = Append(executed, r)
      BY <1>2, <1>4, <1>6
    <3>2. x = Len(executed) + 1
      BY <1>2, <1>3, <2>1
    <3> QED BY <1>2, <1>3, <3>1, <3>2, AppendIs
  <2>3. ReadersFollow'
    BY <1>3, <2>1, <2>2 DEF ReadersFollow, CallTypes
  <2>4. PICK g \in Seq(Entry) : CommittedIn(i, g)
    <3>1. commitIndex[i] # 0
      BY <1>3
    <3> QED BY <3>1 DEF GroupInv, CommitsAreSafe
  <2>5. /\ Safe(g) /\ Len(g) \in Nat /\ x <= Len(g) /\ g[x] = log[i][x]
    BY <1>3, <2>4 DEF CommittedIn
  <2>6. \A z \in 1 .. N : executed[z] = g[z].op.req
    <3>1. CASE executed = <<>>
      BY <1>2, <3>1
    <3>2. ASSUME NEW h \in Seq(Entry), Executes(h)
          PROVE  \A z \in 1 .. N : executed[z] = g[z].op.req
      <4>1. Safe(h) /\ N <= Len(h) /\ Len(h) \in Nat /\ \A z \in 1 .. N : executed[z] = h[z].op.req
        BY <1>2, <3>2 DEF Executes
      <4>2. \A z \in 1 .. Len(h) : z <= Len(g) => h[z] = g[z]
        BY <1>1, <2>5, <4>1, SafeAgree
      <4>3. \A z \in 1 .. N : z \in 1 .. Len(h) /\ z <= Len(g)
        BY <1>3, <2>1, <2>5, <4>1
      <4> QED BY <4>1, <4>2, <4>3
    <3> QED BY <3>1, <3>2 DEF ExecutedIsSafe
  <2>7. Safe(g)'
    BY <1>1, <2>5, SafeStays
  <2>8. Executes(g)'
    <3>1. \A z \in 1 .. x : executed'[z] = g[z].op.req
      <4>1. \A z \in 1 .. x : z = x \/ z \in 1 .. N
        BY <1>3, <2>1
      <4> QED BY <1>4, <2>2, <2>5, <2>6, <4>1
    <3> QED BY <2>2, <2>5, <2>7, <3>1 DEF Executes
  <2> QED BY <2>3, <2>8 DEF ExecutedIsSafe
<1> QED BY <1>2, <1>3, <1>5, <1>6

\* The servers agree, and what has been executed has been logged once.
LEMMA ServersAgree ==
  ASSUME ServersInv
  PROVE  ReplicasAgree
<1>1. /\ LogInv /\ LogTypes /\ CallTypes /\ ReadersFollow /\ ExecutedIsSafe /\ LogsOnce
      /\ CommitsAreSafe
  BY DEF ServersInv, GroupInv, LogInv
<1>2. \A i \in Server : applied[i] \in Nat /\ commitIndex[i] \in Nat
  BY <1>1 DEF CallTypes, LogTypes
<1>3. CASE executed = <<>>
  <2>1. \A i \in Server : applied[i] = 0
    BY <1>1, <1>2, <1>3 DEF ReadersFollow
  <2> QED BY <1>3, <2>1 DEF ReplicasAgree
<1>4. ASSUME NEW h \in Seq(Entry), Executes(h) PROVE ReplicasAgree
  <2>1. PICK N \in Nat : N = Len(executed)
    BY <1>1 DEF CallTypes
  <2>2. /\ Safe(h) /\ N <= Len(h) /\ Len(h) \in Nat /\ \A z \in 1 .. N : executed[z] = h[z].op.req
    BY <1>4, <2>1 DEF Executes
  <2>3. ASSUME NEW i \in Server, NEW x \in 1 .. applied[i] PROVE log[i][x].op.req = executed[x]
    <3>1. x \in Nat /\ x <= commitIndex[i] /\ x <= N /\ commitIndex[i] # 0
      BY <1>1, <1>2, <2>1 DEF ReadersFollow
    <3>2. PICK g \in Seq(Entry) : CommittedIn(i, g)
      BY <1>1, <3>1 DEF CommitsAreSafe
    <3>3. Safe(g) /\ Len(g) \in Nat /\ x \in 1 .. Len(g) /\ log[i][x] = g[x]
      BY <1>2, <3>1, <3>2 DEF CommittedIn
    <3>4. g[x] = h[x]
      BY <1>1, <2>2, <3>1, <3>3, SafeAgree
    <3> QED BY <2>2, <3>1, <3>3, <3>4
  <2>4. ASSUME NEW x \in 1 .. N, NEW y \in 1 .. N, executed[x] = executed[y] PROVE x = y
    <3>1. PICK q \in Server : Holds(q, h)
      BY <2>2, SafeIsKept DEF IsKept
    <3>2. /\ x \in 1 .. Len(log[q]) /\ log[q][x] = h[x]
          /\ y \in 1 .. Len(log[q]) /\ log[q][y] = h[y]
      <4>1. Len(log[q]) \in Nat
        BY <1>1, LogNumbers
      <4> QED BY <2>2, <3>1, <4>1 DEF Holds
    <3> QED BY <1>1, <2>2, <2>4, <3>2 DEF LogsOnce
  <2> QED BY <2>1, <2>3, <2>4 DEF ReplicasAgree
<1> QED BY <1>1, <1>3, <1>4 DEF ExecutedIsSafe

-----------------------------------------------------------------------------
(* The servers' invariant is inductive.                                    *)

LEMMA ServersStart ==
  ASSUME Init
  PROVE  ServersInv
<1>1. GroupInv /\ \A i \in Server : log[i] = <<>>
  BY GroupStarts DEF Init, GroupInit
<1>2. CallTypes
  <2>1. 0 \in 0 .. MaxSubmits /\ 0 \in 0 .. MaxLog
    BY GroupAssumption, CallerAssumption
  <2>2. call \in [Caller -> Calls]
    BY <2>1, NoCallTyped DEF Init
  <2>3. <<>> \in Seq(Request) /\ Unreturned \in [err : Errors, result : Request \cup {None}]
    BY DEF Unreturned, Errors
  <2> QED BY <2>1, <2>2, <2>3 DEF Init, CallTypes
<1>3. InCall /\ Registered
  <2>1. \A c \in Caller : call[c].at = "idle"
    BY DEF Init, NoCall
  <2>2. \A i \in Server : \A x \in 1 .. MaxLog : pending[i][x] = None
    BY DEF Init
  <2> QED BY <2>1, <2>2 DEF InCall, Registered
<1>4. Sized /\ LogsAsked /\ LogsOnce
  <2>1. \A i \in Server : Len(log[i]) = 0 /\ \A x \in 1 .. Len(log[i]) : FALSE
    BY <1>1
  <2> QED BY <2>1, GroupAssumption DEF Sized, LogsAsked, LogsOnce
<1>5. ExecutedIsSafe /\ ReadersFollow
  BY DEF Init, GroupInit, ExecutedIsSafe, ReadersFollow
<1> QED BY <1>1, <1>2, <1>3, <1>4, <1>5 DEF ServersInv

\* Steps that leave the group to itself, or restart one of its servers.
LEMMA OtherStep ==
  ASSUME ServersInv, CallsInv', GroupNext \/ UNCHANGED group \/ \E i \in Server : Reboot(i),
         \A c \in Caller : call'[c].n >= call[c].n
  PROVE  GroupInv' /\ LogsInv' /\ GroupSteps
<1>1. LogTypes /\ LogsInv /\ CallTypes /\ CallTypes' /\ GroupInv
  BY DEF ServersInv, GroupInv, LogInv, CallsInv, LogsInv
<1>2. GroupSteps
  BY DEF GroupSteps
<1>3. LogTypes' /\ Inherited
  BY <1>1, GroupInherits
<1> QED BY <1>1, <1>2, <1>3, GroupKeeps, InheritedOps

LEMMA ServersStep ==
  ASSUME ServersInv, Next
  PROVE  ServersInv'
<1>0. /\ GroupInv /\ LogInv /\ LogTypes /\ CallsInv /\ LogsInv /\ ExecutedIsSafe /\ ReadersFollow
      /\ CallTypes /\ Sized /\ GroupTypes /\ \A c \in Caller : call[c].n \in Nat
  <2>1. GroupInv /\ CallTypes
    BY DEF ServersInv
  <2> QED BY <2>1, GroupGives, CallTypesGive DEF ServersInv, GroupInv, LogInv, CallsInv, LogsInv
<1> SUFFICES GroupInv' /\ CallsInv' /\ LogsInv' /\ ExecutedIsSafe' /\ ReadersFollow'
  BY DEF ServersInv, CallsInv, LogsInv
<1>1. ASSUME CallsInv', GroupNext \/ UNCHANGED group, UNCHANGED <<applied, executed>>,
             \A c \in Caller : call'[c].n >= call[c].n
      PROVE  GroupInv' /\ CallsInv' /\ LogsInv' /\ ExecutedIsSafe' /\ ReadersFollow'
  <2>1. GroupInv' /\ LogsInv' /\ GroupSteps
    BY <1>1, OtherStep
  <2>2. ExecutedIsSafe'
    BY <1>0, <1>1, <2>1, ExecutedStays
  <2>3. ReadersFollow'
    <3>1. \A k \in Server : commitIndex'[k] >= commitIndex[k]
      BY <1>0, <1>1, CommitsGrow
    <3>2. \A k \in Server : /\ commitIndex[k] \in Nat /\ applied[k] \in Nat
                            /\ applied[k] <= commitIndex[k] /\ applied[k] <= Len(executed)
      <4>1. \A k \in Server : applied[k] \in 0 .. MaxLog
        BY <1>0 DEF CallTypes
      <4>2. \A k \in Server : applied[k] \in Nat /\ commitIndex[k] \in Nat
        BY <1>0, <4>1, GroupAssumption DEF LogTypes
      <4> QED BY <1>0, <4>2 DEF ReadersFollow
    <3>3. \A k \in Server : commitIndex'[k] \in Nat
      <4>1. LogTypes'
        BY <2>1 DEF GroupInv, LogInv
      <4> QED BY <4>1 DEF LogTypes
    <3> QED BY <1>1, <3>1, <3>2, <3>3 DEF ReadersFollow
  <2> QED BY <1>1, <2>1, <2>2, <2>3
<1>2. CASE GroupNext /\ UNCHANGED <<rsm, call, outcome, history>>
  <2>1. UNCHANGED <<opId, pending, applied, call, outcome, submitted, executed>>
    BY <1>2 DEF rsm, history
  <2>2. CallTypes' /\ InCall' /\ Registered'
    BY <1>0, <2>1 DEF CallsInv, CallTypes, InCall, Registered
  <2> QED BY <1>0, <1>1, <1>2, <2>1, <2>2 DEF CallsInv
<1>3. ASSUME NEW i \in Server, Reader(i)
      PROVE  GroupInv' /\ CallsInv' /\ LogsInv' /\ ExecutedIsSafe' /\ ReadersFollow'
  <2>1. CallsInv' /\ UNCHANGED <<group, opId, outcome, submitted>>
    BY <1>0, <1>3, ReaderTypes
  <2>2. PICK x \in 1 .. MaxLog :
          /\ x = applied[i] + 1 /\ x <= commitIndex[i] /\ x \in 1 .. Len(log[i])
          /\ applied' = [applied EXCEPT ![i] = x]
          /\ executed' = IF x > Len(executed) THEN Append(executed, log[i][x].op.req) ELSE executed
          /\ \A d \in Caller :
               \/ call'[d] = call[d]
               \/ call'[d] = [call[d] EXCEPT !.channel = log[i][x].op]
    BY <1>0, <1>3, ReaderTypes
  <2>3. \A d \in Caller : call'[d].n >= call[d].n
    <3>1. \A d \in Caller : [call[d] EXCEPT !.channel = log[i][x].op].n = call[d].n
      <4>1. \A d \in Caller : call[d] \in Calls
        BY <1>0, CallTypesGive
      <4> QED BY <4>1 DEF Calls
    <3>2. \A d \in Caller : call'[d].n = call[d].n
      BY <2>2, <3>1
    <3> QED BY <1>0, <3>2
  <2>4. GroupInv' /\ LogsInv'
    BY <2>1, <2>3, OtherStep
  <2>5. ExecutedIsSafe' /\ ReadersFollow'
    BY <1>0, <2>1, <2>2, ReaderExecutes
  <2> QED BY <2>1, <2>4, <2>5
<1>4. ASSUME NEW i \in Server, Crash(i)
      PROVE  GroupInv' /\ CallsInv' /\ LogsInv' /\ ExecutedIsSafe' /\ ReadersFollow'
  <2>1. /\ CallsInv' /\ Reboot(i) /\ UNCHANGED <<outcome, history>>
        /\ applied' = [applied EXCEPT ![i] = 0]
        /\ \A d \in Caller : call'[d].n = call[d].n
    BY <1>0, <1>4, CrashTypes
  <2>2. GroupInv' /\ LogsInv' /\ GroupSteps
    BY <1>0, <2>1, OtherStep
  <2>3. ExecutedIsSafe'
    BY <1>0, <2>1, <2>2, ExecutedStays DEF history
  <2>4. ReadersFollow'
    <3>1. commitIndex' = [commitIndex EXCEPT ![i] = 0] /\ executed' = executed
      BY <2>1 DEF Reboot, history
    <3>2. Len(executed) \in Nat /\ commitIndex \in [Server -> Nat] /\ applied \in [Server -> 0 .. MaxLog]
      BY <1>0 DEF CallTypes, LogTypes
    <3> QED BY <1>0, <2>1, <3>1, <3>2 DEF ReadersFollow
  <2> QED BY <2>1, <2>2, <2>3, <2>4
<1>5. ASSUME NEW c \in Caller, NEW i \in Server, Submit(c, i)
      PROVE  GroupInv' /\ CallsInv' /\ LogsInv' /\ ExecutedIsSafe' /\ ReadersFollow'
  <2>1. CallsInv' /\ LogsInv'
    BY <1>0, <1>5, SubmitTypes, SubmitLogs
  <2>2. GroupSteps
    <3>1. \E op \in Ops : Accepts(i, op)
      BY <1>0, <1>5, SubmitCalls
    <3> QED BY <3>1 DEF GroupSteps
  <2>3. GroupInv'
    BY <1>0, <2>2, GroupKeeps
  <2>4. UNCHANGED <<commitIndex, applied, executed>>
    BY <1>5 DEF Submit, Proposes
  <2>5. ExecutedIsSafe'
    BY <1>0, <2>2, <2>4, ExecutedStays
  <2> QED BY <1>0, <2>1, <2>3, <2>4, <2>5 DEF ReadersFollow
<1>6. ASSUME NEW c \in Caller, NEW i \in Server, SubmitElsewhere(c, i)
      PROVE  GroupInv' /\ CallsInv' /\ LogsInv' /\ ExecutedIsSafe' /\ ReadersFollow'
  <2>1. /\ CallsInv' /\ UNCHANGED group
        /\ \A d \in Caller : call'[d] = IF d = c THEN NoCall(call[c].n + 1) ELSE call[d]
    BY <1>0, <1>6, SubmitElsewhereTypes
  <2>2. UNCHANGED <<applied, executed>>
    BY <1>6 DEF SubmitElsewhere, Proposes
  <2>3. \A d \in Caller : call'[d].n >= call[d].n
    BY <1>0, <2>1 DEF NoCall
  <2> QED BY <1>1, <2>1, <2>2, <2>3
<1>7. ASSUME NEW c \in Caller, NEW err, NEW result, ReturnsWith(c, err, result)
      PROVE  GroupInv' /\ CallsInv' /\ LogsInv' /\ ExecutedIsSafe' /\ ReadersFollow'
  <2>1. /\ CallsInv' /\ UNCHANGED <<group, rsm, history>>
        /\ \A d \in Caller : call'[d] = IF d = c THEN [call[c] EXCEPT !.at = "leaving"] ELSE call[d]
    BY <1>0, <1>7, ReturnTypes
  <2>2. [call[c] EXCEPT !.at = "leaving"].n = call[c].n
    BY <1>0, CallTypesGive DEF Calls
  <2>3. \A d \in Caller : call'[d].n = call[d].n
    <3>1. PICK r : r = [call[c] EXCEPT !.at = "leaving"]
      OBVIOUS
    <3>2. call'[c] = r /\ r.n = call[c].n
      BY <2>1, <2>2, <3>1
    <3> QED BY <2>1, <3>2
  <2>4. \A d \in Caller : call'[d].n >= call[d].n
    BY <1>0, <2>3
  <2> QED BY <1>1, <2>1, <2>4 DEF rsm, history
<1>8. ASSUME NEW c \in Caller, Leave(c)
      PROVE  GroupInv' /\ CallsInv' /\ LogsInv' /\ ExecutedIsSafe' /\ ReadersFollow'
  <2>1. /\ CallsInv' /\ UNCHANGED <<group, opId, applied, outcome, history>>
        /\ \A d \in Caller : call'[d] = IF d = c THEN NoCall(call[c].n) ELSE call[d]
    BY <1>0, <1>8, LeaveTypes
  <2>2. \A d \in Caller : call'[d].n >= call[d].n
    BY <1>0, <2>1 DEF NoCall
  <2> QED BY <1>1, <2>1, <2>2 DEF history
<1> QED BY <1>0, <1>2, <1>3, <1>4, <1>5, <1>6, <1>7, <1>8, ReceiveReturns DEF Next

-----------------------------------------------------------------------------
(* Answers, while no server restarts.                                      *)

LEMMA InheritedKnown ==
  ASSUME LogTypes, LogTypes', Inherited, NEW op,
         NEW k \in Server, NEW z \in 1 .. Len(log'[k]), op = log'[k][z].op
  PROVE  Known(op)
<1>1. PICK m \in Server : /\ Len(log'[k]) <= Len(log[m])
                          /\ \A y \in 1 .. Len(log'[k]) : log'[k][y] = log[m][y]
  BY DEF Inherited
<1>2. z \in 1 .. Len(log[m])
  BY <1>1, LogNumbers, LogNumbersNext
<1> QED BY <1>1, <1>2 DEF Known

\* What was known before, and what is new.
LEMMA KnownGrows ==
  ASSUME NEW new,
         \A op : \A k \in Server : \A z \in 1 .. Len(log'[k]) :
           op = log'[k][z].op => Known(op) \/ op = new,
         \A c \in Caller : call'[c].channel # None => Known(call'[c].channel)
  PROVE  \A op \in Ops : Known(op)' => Known(op) \/ op = new
<1> SUFFICES ASSUME NEW op \in Ops, Known(op)' PROVE Known(op) \/ op = new
  OBVIOUS
<1>1. \/ \E k \in Server : \E z \in 1 .. Len(log'[k]) : op = log'[k][z].op
      \/ \E c \in Caller : op = call'[c].channel /\ op # None
  BY DEF Known
<1> QED BY <1>1

IdsInv == IdsUsed /\ CallIdsUsed /\ IdsOwn

\* Steps that propose nothing new.
LEMMA IdsStay ==
  ASSUME LogTypes, CallTypes, InCall, CallTypes', IdsInv,
         \A op \in Ops : Known(op)' => Known(op),
         \A i \in Server : opId'[i] >= opId[i],
         \A c \in Caller : call'[c].at = "waiting" =>
           /\ call[c].at = "waiting" /\ call'[c].on = call[c].on /\ call'[c].id = call[c].id
           /\ call'[c].n = call[c].n
  PROVE  IdsInv'
<1>1. \A i \in Server : opId[i] \in Nat /\ opId'[i] \in Nat
  BY DEF CallTypes
<1>2. \A op \in Ops : op.me \in Server /\ op.id \in Nat
  BY DEF Ops
<1>3. IdsUsed'
  <2> SUFFICES ASSUME NEW op \in Ops, Known(op)' PROVE op.id < opId'[op.me]
    BY DEF IdsUsed
  <2>1. op.id < opId[op.me]
    BY DEF IdsInv, IdsUsed
  <2> QED BY <1>1, <1>2, <2>1
<1>4. CallIdsUsed'
  <2> SUFFICES ASSUME NEW c \in Caller, call'[c].at = "waiting" PROVE call'[c].id < opId'[call'[c].on]
    BY DEF CallIdsUsed
  <2>1. PICK i \in Server, id \in Nat : i = call[c].on /\ id = call[c].id
    BY CallTypesGive DEF InCall
  <2>2. id < opId[i]
    BY <2>1 DEF IdsInv, CallIdsUsed
  <2> QED BY <1>1, <2>1, <2>2
<1>5. IdsOwn'
  <2> SUFFICES ASSUME NEW c \in Caller, NEW op \in Ops, Known(op)', call'[c].at = "waiting",
                      op.me = call'[c].on, op.id = call'[c].id
               PROVE  op.req = <<c, call'[c].n>>
    BY DEF IdsOwn, Req
  <2>1. op.req = <<c, call[c].n>>
    BY DEF IdsInv, IdsOwn, Req
  <2> QED BY <2>1
<1> QED BY <1>3, <1>4, <1>5 DEF IdsInv

LEMMA SubmitIds ==
  ASSUME LogTypes, CallsInv, IdsInv, NEW c \in Caller, NEW i \in Server, Submit(c, i)
  PROVE  IdsInv'
<1>0. CallTypes /\ InCall /\ CallTypes' /\ InCall'
  BY SubmitTypes DEF CallsInv
<1>1. PICK n \in 1 .. MaxSubmits, x \in 1 .. MaxLog :
        /\ call[c].at = "idle" /\ call' = [call EXCEPT ![c] = Called(n, i, x, term[i], opId[i])]
        /\ Accepts(i, [me |-> i, id |-> opId[i], req |-> <<c, n>>])
        /\ [me |-> i, id |-> opId[i], req |-> <<c, n>>] \in Ops
  BY <1>0, SubmitCalls
<1>2. PICK new \in Ops : new = [me |-> i, id |-> opId[i], req |-> <<c, n>>]
  BY <1>1
<1>3. new.me = i /\ new.id = opId[i] /\ new.req = <<c, n>>
  BY <1>2
<1>4. \A k \in Server : opId[k] \in Nat /\ opId'[k] = IF k = i THEN opId[k] + 1 ELSE opId[k]
  BY <1>0 DEF CallTypes, Submit, Proposes
<1>5. /\ call'[c].at = "waiting" /\ call'[c].on = i /\ call'[c].id = opId[i] /\ call'[c].n = n
      /\ call'[c].channel = None
      /\ \A d \in Caller : d # c => call'[d] = call[d]
  BY <1>0, <1>1 DEF Called, CallTypes
<1>6. \A op \in Ops : Known(op)' => Known(op) \/ op = new
  <2>1. ASSUME NEW op, NEW k \in Server, NEW z \in 1 .. Len(log'[k]), op = log'[k][z].op
        PROVE  Known(op) \/ op = new
    <3>1. Appended(i) /\ log'[i] = Append(log[i], [term |-> term[i], op |-> new])
      BY <1>1, <1>2, AppendAction DEF Accepts
    <3>2. log[i] \in Seq(Entry) /\ [term |-> term[i], op |-> new] \in Entry
      BY LogNumbers DEF Entry
    <3>3. /\ log'[i][Len(log[i]) + 1].op = new /\ Len(log'[i]) = Len(log[i]) + 1 /\ Len(log[i]) \in Nat
          /\ \A y \in 1 .. Len(log[i]) : log'[i][y] = log[i][y]
      BY <3>1, <3>2, AppendIs
    <3>4. CASE k = i /\ z = Len(log[i]) + 1
      BY <2>1, <3>3, <3>4
    <3>5. CASE ~(k = i /\ z = Len(log[i]) + 1)
      <4>1. z \in 1 .. Len(log[k]) /\ log'[k][z] = log[k][z]
        <5>1. CASE k = i
          <6>1. z \in 1 .. Len(log[i])
            BY <3>3, <3>5, <5>1
          <6> QED BY <3>3, <5>1, <6>1
        <5>2. CASE k # i
          BY <3>1, <5>2 DEF Appended
        <5> QED BY <5>1, <5>2
      <4> QED BY <2>1, <4>1 DEF Known
    <3> QED BY <3>4, <3>5
  <2>2. \A d \in Caller : call'[d].channel # None => Known(call'[d].channel)
    BY <1>5 DEF Known
  <2> QED BY <2>1, <2>2, KnownGrows
<1>7. \A op \in Ops : op.me \in Server /\ op.id \in Nat /\ (Known(op) => op.id < opId[op.me])
  BY DEF Ops, IdsInv, IdsUsed
<1>8. IdsUsed'
  <2>1. \A op \in Ops : Known(op)' => op.id < opId'[op.me]
    BY <1>3, <1>4, <1>6, <1>7
  <2> QED BY <2>1 DEF IdsUsed
<1>9. \A d \in Caller : d # c /\ call'[d].at = "waiting" =>
        call[d].on \in Server /\ call[d].id \in Nat /\ call[d].id < opId[call[d].on]
  BY <1>0, <1>5, CallTypesGive DEF IdsInv, CallIdsUsed, InCall
<1>10. CallIdsUsed'
  <2>1. \A d \in Caller : call'[d].at = "waiting" => call'[d].id < opId'[call'[d].on]
    BY <1>4, <1>5, <1>9
  <2> QED BY <2>1 DEF CallIdsUsed
<1>11. IdsOwn'
  <2> SUFFICES ASSUME NEW d \in Caller, NEW op \in Ops, Known(op)', call'[d].at = "waiting",
                      op.me = call'[d].on, op.id = call'[d].id
               PROVE  op.req = <<d, call'[d].n>>
    BY DEF IdsOwn, Req
  <2>1. CASE d = c
    <3>1. ~Known(op)
      BY <1>4, <1>5, <1>7, <2>1
    <3> QED BY <1>3, <1>5, <1>6, <2>1, <3>1
  <2>2. CASE d # c
    <3>1. op # new
      BY <1>3, <1>4, <1>5, <1>9, <2>2
    <3>2. Known(op)
      BY <1>6, <3>1
    <3> QED BY <1>5, <2>2, <3>2 DEF IdsInv, IdsOwn, Req
  <2> QED BY <2>1, <2>2
<1> QED BY <1>8, <1>10, <1>11 DEF IdsInv

LEMMA AnswersStep ==
  ASSUME ServersInv, AnswersInv, Next, Restartable = {}
  PROVE  AnswersInv'
<1>0. /\ GroupInv /\ LogInv /\ LogTypes /\ LogTypes' /\ CallsInv /\ CallTypes /\ CallTypes' /\ InCall
      /\ Sized /\ GroupTypes /\ IdsInv /\ AnswersOwn
  <2>1. ServersInv' /\ GroupTypes
    BY ServersStep, GroupGives DEF ServersInv
  <2> QED BY <2>1 DEF ServersInv, GroupInv, LogInv, CallsInv, AnswersInv, IdsInv
<1>1. \A i \in Server : opId[i] \in Nat
  BY <1>0 DEF CallTypes
<1> SUFFICES IdsInv' /\ AnswersOwn'
  BY DEF AnswersInv, IdsInv
<1>2. ASSUME log' = log
      PROVE  \A op : \A k \in Server : \A z \in 1 .. Len(log'[k]) : op = log'[k][z].op => Known(op)
  BY <1>2 DEF Known
<1>3. CASE GroupNext /\ UNCHANGED <<rsm, call, outcome, history>>
  <2>1. UNCHANGED <<opId, call, outcome>>
    BY <1>3 DEF rsm
  <2>2. Inherited
    BY <1>0, <1>3, GroupInherits
  <2>3. \A op \in Ops : Known(op)' => Known(op)
    <3>1. \A c \in Caller : call'[c].channel # None => Known(call'[c].channel)
      BY <2>1 DEF Known
    <3>2. \A op : \A k \in Server : \A z \in 1 .. Len(log'[k]) : op = log'[k][z].op => Known(op)
      BY <1>0, <2>2, InheritedKnown
    <3> SUFFICES ASSUME NEW op \in Ops, Known(op)' PROVE Known(op)
      OBVIOUS
    <3>3. \/ \E k \in Server : \E z \in 1 .. Len(log'[k]) : op = log'[k][z].op
          \/ \E c \in Caller : op = call'[c].channel /\ op # None
      BY DEF Known
    <3> QED BY <3>1, <3>2, <3>3
  <2>4. IdsInv'
    BY <1>0, <1>1, <2>1, <2>3, IdsStay
  <2> QED BY <1>0, <2>1, <2>4 DEF AnswersOwn
<1>4. ASSUME NEW i \in Server, Reader(i) PROVE IdsInv' /\ AnswersOwn'
  <2>1. UNCHANGED <<group, opId, outcome>>
    BY <1>0, <1>4, ReaderTypes
  <2>2. PICK x \in 1 .. MaxLog :
          /\ x \in 1 .. Len(log[i])
          /\ \A d \in Caller :
               \/ call'[d] = call[d]
               \/ call'[d] = [call[d] EXCEPT !.channel = log[i][x].op]
    BY <1>0, <1>4, ReaderTypes
  <2>3. PICK new : new = log[i][x].op
    OBVIOUS
  <2>4. \A d \in Caller : /\ call'[d].at = call[d].at /\ call'[d].on = call[d].on
                          /\ call'[d].id = call[d].id /\ call'[d].n = call[d].n
                          /\ call'[d].channel = call[d].channel \/ call'[d].channel = new
    <3>1. ASSUME NEW r \in Calls
          PROVE  LET s == [r EXCEPT !.channel = new] IN
                 s.at = r.at /\ s.on = r.on /\ s.id = r.id /\ s.n = r.n /\ s.channel = new
      BY DEF Calls
    <3> TAKE d \in Caller
    <3>2. PICK r \in Calls : r = call[d]
      BY <1>0, CallTypesGive
    <3>3. CASE call'[d] = r
      BY <3>2, <3>3
    <3>4. CASE call'[d] = [r EXCEPT !.channel = new]
      BY <3>1, <3>2, <3>4
    <3> QED BY <2>2, <2>3, <3>2, <3>3, <3>4
  <2>5. \A op \in Ops : Known(op)' => Known(op)
    <3>1. \A c \in Caller : call'[c].channel # None => Known(call'[c].channel)
      BY <2>2, <2>3, <2>4 DEF Known
    <3>2. log' = log
      BY <2>1 DEF group
    <3> QED BY <1>2, <3>1, <3>2 DEF Known
  <2>6. IdsInv'
    BY <1>0, <1>1, <2>1, <2>4, <2>5, IdsStay
  <2> QED BY <1>0, <2>1, <2>6 DEF AnswersOwn
<1>5. ASSUME NEW c \in Caller, NEW i \in Server, Submit(c, i) PROVE IdsInv' /\ AnswersOwn'
  <2>1. outcome' = outcome
    BY <1>5 DEF Submit
  <2> QED BY <1>0, <1>5, <2>1, SubmitIds DEF AnswersOwn
<1>6. ASSUME NEW c \in Caller, NEW i \in Server, SubmitElsewhere(c, i)
      PROVE  IdsInv' /\ AnswersOwn'
  <2>1. /\ UNCHANGED group
        /\ \A d \in Caller : call'[d] = IF d = c THEN NoCall(call[c].n + 1) ELSE call[d]
    BY <1>0, <1>6, SubmitElsewhereTypes
  <2>2. /\ outcome' = [outcome EXCEPT ![<<c, call[c].n + 1>>].err = "ErrWrongLeader"]
        /\ opId' = [opId EXCEPT ![i] = opId[i] + 1]
    BY <1>6 DEF SubmitElsewhere, Proposes
  <2>3. call'[c].at = "idle" /\ call'[c].channel = None /\ \A d \in Caller : d # c => call'[d] = call[d]
    BY <2>1 DEF NoCall
  <2>4. \A op \in Ops : Known(op)' => Known(op)
    <3>1. \A d \in Caller : call'[d].channel # None => Known(call'[d].channel)
      BY <2>3 DEF Known
    <3>2. log' = log
      BY <2>1 DEF group
    <3> QED BY <1>2, <3>1, <3>2 DEF Known
  <2>5. \A k \in Server : opId'[k] >= opId[k]
    BY <1>0, <1>1, <2>2 DEF CallTypes
  <2>6. IdsInv'
    BY <1>0, <2>3, <2>4, <2>5, IdsStay
  <2>7. AnswersOwn'
    <3> SUFFICES ASSUME NEW r \in Request, outcome'[r].err = "OK" PROVE outcome'[r].result = r
      BY DEF AnswersOwn
    <3>1. outcome'[r] = outcome[r] \/ outcome'[r] = [outcome[r] EXCEPT !.err = "ErrWrongLeader"]
      BY <1>0, <2>2 DEF CallTypes
    <3>2. [outcome[r] EXCEPT !.err = "ErrWrongLeader"].err = "ErrWrongLeader"
      BY <1>0 DEF CallTypes
    <3> QED BY <1>0, <3>1, <3>2 DEF AnswersOwn
  <2> QED BY <2>6, <2>7
<1>7. ASSUME NEW c \in Caller, NEW err, NEW result, ReturnsWith(c, err, result),
             err = "OK" => result = Req(c)
      PROVE  IdsInv' /\ AnswersOwn'
  <2>1. /\ UNCHANGED <<group, rsm, history>> /\ Req(c) \in Request
        /\ outcome' = [outcome EXCEPT ![Req(c)] = [err |-> err, result |-> result]]
        /\ \A d \in Caller : call'[d] = IF d = c THEN [call[c] EXCEPT !.at = "leaving"] ELSE call[d]
    BY <1>0, <1>7, ReturnTypes
  <2>2. call'[c].at = "leaving" /\ call'[c].channel = call[c].channel
    <3>1. ASSUME NEW r \in Calls
          PROVE  [r EXCEPT !.at = "leaving"].at = "leaving" /\ [r EXCEPT !.at = "leaving"].channel = r.channel
      BY DEF Calls
    <3> QED BY <1>0, <2>1, <3>1, CallTypesGive
  <2>3. \A d \in Caller : d # c => call'[d] = call[d]
    BY <2>1
  <2>4. \A op \in Ops : Known(op)' => Known(op)
    <3>1. \A d \in Caller : call'[d].channel # None => Known(call'[d].channel)
      BY <2>2, <2>3 DEF Known
    <3>2. log' = log
      BY <2>1 DEF group
    <3> QED BY <1>2, <3>1, <3>2 DEF Known
  <2>5. \A k \in Server : opId'[k] >= opId[k]
    BY <1>1, <2>1 DEF rsm
  <2>6. IdsInv'
    BY <1>0, <2>2, <2>3, <2>4, <2>5, IdsStay
  <2>7. AnswersOwn'
    <3> SUFFICES ASSUME NEW r \in Request, outcome'[r].err = "OK" PROVE outcome'[r].result = r
      BY DEF AnswersOwn
    <3>1. CASE r = Req(c)
      BY <1>0, <1>7, <2>1, <3>1 DEF CallTypes
    <3>2. CASE r # Req(c)
      BY <1>0, <2>1, <3>2 DEF CallTypes, AnswersOwn
    <3> QED BY <3>1, <3>2
  <2> QED BY <2>6, <2>7
<1>8. ASSUME NEW c \in Caller, Receive(c) \/ GiveUp(c) PROVE IdsInv' /\ AnswersOwn'
  <2>1. CASE /\ ReturnsWith(c, "OK", call[c].channel.req) /\ Own(c)
             /\ call[c].channel # None /\ call[c].channel \in Ops
    <3>1. PICK op \in Ops : op = call[c].channel
      BY <2>1
    <3>2. Known(op) /\ call[c].at = "waiting" /\ op.me = call[c].on /\ op.id = call[c].id
      BY <2>1, <3>1 DEF Known, Own, ReturnsWith
    <3>3. op.req = Req(c)
      BY <1>0, <3>2 DEF IdsInv, IdsOwn
    <3> QED BY <1>7, <2>1, <3>1, <3>3
  <2>2. CASE ReturnsWith(c, "ErrWrongLeader", None)
    BY <1>7, <2>2
  <2>3. CASE ReturnsWith(c, "ErrMaybe", None)
    BY <1>7, <2>3
  <2> QED BY <1>0, <1>8, <2>1, <2>2, <2>3, ReceiveReturns
<1>9. ASSUME NEW c \in Caller, Leave(c) PROVE IdsInv' /\ AnswersOwn'
  <2>1. /\ UNCHANGED <<group, opId, applied, outcome, history>>
        /\ \A d \in Caller : call'[d] = IF d = c THEN NoCall(call[c].n) ELSE call[d]
    BY <1>0, <1>9, LeaveTypes
  <2>2. call'[c].at = "idle" /\ call'[c].channel = None /\ \A d \in Caller : d # c => call'[d] = call[d]
    BY <2>1 DEF NoCall
  <2>3. \A op \in Ops : Known(op)' => Known(op)
    <3>1. \A d \in Caller : call'[d].channel # None => Known(call'[d].channel)
      BY <2>2 DEF Known
    <3>2. log' = log
      BY <2>1 DEF group
    <3> QED BY <1>2, <3>1, <3>2 DEF Known
  <2>4. \A k \in Server : opId'[k] >= opId[k]
    BY <1>1, <2>1
  <2>5. IdsInv'
    BY <1>0, <2>2, <2>3, <2>4, IdsStay
  <2> QED BY <1>0, <2>1, <2>5 DEF AnswersOwn
<1> QED BY <1>3, <1>4, <1>5, <1>6, <1>8, <1>9 DEF Next, Crash

-----------------------------------------------------------------------------
(* The promise of Submission, while no server restarts.                    *)

SubmittedOnce ==
  /\ \A k, l \in 1 .. Len(submitted) : submitted[k] = submitted[l] => k = l
  /\ \A k \in 1 .. Len(submitted) : submitted[k][2] <= call[submitted[k][1]].n

\* The operations in a log stand there in the order in which they were submitted.
LogsInOrder ==
  \A i \in Server : \A y \in 1 .. Len(log[i]) : \E l \in 1 .. Len(submitted) :
    /\ submitted[l] = log[i][y].op.req
    /\ \A x \in 1 .. y - 1 : \E k \in 1 .. l - 1 : submitted[k] = log[i][x].op.req

\* Only a call that has returned has an outcome.
OutcomesOfCalls ==
  \A c \in Caller :
    /\ \A n \in 1 .. MaxSubmits : n > call[c].n => outcome[<<c, n>>].err = "none"
    /\ call[c].at = "waiting" => outcome[Req(c)].err = "none"

\* The operation of a waiting call is logged where the call waits, as its own.
LoggedAsCalled ==
  \A c \in Caller : call[c].at = "waiting" =>
    \A i \in Server : \A x \in 1 .. Len(log[i]) : log[i][x].op.req = Req(c) =>
      x = call[c].index /\ log[i][x].op.me = call[c].on /\ log[i][x].op.id = call[c].id

\* What is in the channel was executed at the index at which the call waits.
ChannelsExecuted ==
  \A c \in Caller : call[c].at = "waiting" /\ call[c].channel # None =>
    /\ call[c].index \in 1 .. Len(executed)
    /\ executed[call[c].index] = call[c].channel.req
    /\ call[c].channel.req = Req(c) => Own(c)

\* r has not been executed, and the logs have it only where something else has.
Refused(r) ==
  /\ r[2] <= call[r[1]].n /\ ~Promise!InSeq(r, executed)
  /\ \A i \in Server : \A x \in 1 .. Len(log[i]) : log[i][x].op.req = r => x <= Len(executed)
Refusals == \A r \in Request : outcome[r].err = "ErrWrongLeader" => Refused(r)

OrderInv ==
  /\ SubmittedOnce /\ LogsInOrder /\ OutcomesOfCalls /\ LoggedAsCalled
  /\ ChannelsExecuted /\ Refusals

\* A waiting call is one that waited before, and no caller's count goes back.
CallsKeep ==
  \A c \in Caller :
    /\ call'[c].n >= call[c].n
    /\ call'[c].at = "waiting" =>
         /\ call[c].at = "waiting" /\ call'[c].n = call[c].n /\ call'[c].on = call[c].on
         /\ call'[c].index = call[c].index /\ call'[c].id = call[c].id

LEMMA InheritedLog ==
  ASSUME LogTypes, LogTypes', Inherited, NEW k \in Server, NEW x \in 1 .. Len(log'[k])
  PROVE  \E m \in Server : x \in 1 .. Len(log[m]) /\ \A z \in 1 .. x : log'[k][z] = log[m][z]
<1>1. PICK m \in Server : /\ Len(log'[k]) <= Len(log[m])
                          /\ \A y \in 1 .. Len(log'[k]) : log'[k][y] = log[m][y]
  BY DEF Inherited
<1>2. Len(log'[k]) \in Nat /\ Len(log[m]) \in Nat
  BY LogNumbers, LogNumbersNext
<1>3. x \in 1 .. Len(log[m]) /\ \A z \in 1 .. x : z \in 1 .. Len(log'[k])
  BY <1>1, <1>2
<1> QED BY <1>1, <1>3

LEMMA SubmittedTyped ==
  ASSUME CallTypes
  PROVE  /\ submitted \in Seq(Request) /\ Len(submitted) \in Nat
         /\ executed \in Seq(Request) /\ Len(executed) \in Nat
         /\ \A k \in 1 .. Len(submitted) :
              submitted[k] \in Request /\ submitted[k][1] \in Caller /\ submitted[k][2] \in 1 .. MaxSubmits
         /\ \A k \in 1 .. Len(executed) : executed[k] \in Request
         /\ \A c \in Caller : call[c].n \in Nat
<1>1. submitted \in Seq(Request) /\ executed \in Seq(Request)
  BY DEF CallTypes
<1>2. \A c \in Caller : call[c].n \in Nat
  BY CallTypesGive
<1> QED BY <1>1, <1>2 DEF Request

LEMMA OrderKept ==
  ASSUME LogTypes, LogTypes', CallTypes, CallTypes', Inherited, CallsKeep,
         submitted' = submitted, SubmittedOnce, LogsInOrder, LoggedAsCalled
  PROVE  SubmittedOnce' /\ LogsInOrder' /\ LoggedAsCalled'
<1>1. SubmittedOnce'
  <2>1. \A c \in Caller : call[c].n \in Nat /\ call'[c].n \in Nat /\ call'[c].n >= call[c].n
    <3>1. \A c \in Caller : call'[c].n \in 0 .. MaxSubmits
      BY DEF CallTypes, Calls
    <3> QED BY <3>1, CallTypesGive DEF CallsKeep
  <2>2. \A k \in 1 .. Len(submitted) : submitted[k][2] <= call'[submitted[k][1]].n
    <3> TAKE k \in 1 .. Len(submitted)
    <3>1. PICK d, n : d = submitted[k][1] /\ n = submitted[k][2]
      OBVIOUS
    <3>2. d \in Caller /\ n \in Nat /\ n <= call[d].n
      BY <3>1, SubmittedTyped DEF SubmittedOnce
    <3>3. n <= call'[d].n
      BY <2>1, <3>2
    <3> QED BY <3>1, <3>3
  <2> QED BY <2>2 DEF SubmittedOnce
<1>2. LogsInOrder'
  <2> SUFFICES ASSUME NEW i \in Server, NEW y \in 1 .. Len(log'[i])
               PROVE  \E l \in 1 .. Len(submitted) :
                        /\ submitted[l] = log'[i][y].op.req
                        /\ \A x \in 1 .. y - 1 : \E k \in 1 .. l - 1 : submitted[k] = log'[i][x].op.req
    BY DEF LogsInOrder
  <2>1. PICK m \in Server : y \in 1 .. Len(log[m]) /\ \A z \in 1 .. y : log'[i][z] = log[m][z]
    BY InheritedLog
  <2>2. PICK l \in 1 .. Len(submitted) :
          /\ submitted[l] = log[m][y].op.req
          /\ \A x \in 1 .. y - 1 : \E k \in 1 .. l - 1 : submitted[k] = log[m][x].op.req
    BY <2>1 DEF LogsInOrder
  <2>3. y \in 1 .. y /\ \A x \in 1 .. y - 1 : x \in 1 .. y
    OBVIOUS
  <2> QED BY <2>1, <2>2, <2>3
<1>3. LoggedAsCalled'
  <2> SUFFICES ASSUME NEW c \in Caller, call'[c].at = "waiting", NEW i \in Server,
                      NEW x \in 1 .. Len(log'[i]), log'[i][x].op.req = <<c, call'[c].n>>
               PROVE  x = call'[c].index /\ log'[i][x].op.me = call'[c].on /\ log'[i][x].op.id = call'[c].id
    BY DEF LoggedAsCalled, Req
  <2>1. PICK m \in Server : x \in 1 .. Len(log[m]) /\ \A z \in 1 .. x : log'[i][z] = log[m][z]
    BY InheritedLog
  <2>2. log'[i][x] = log[m][x]
    BY <2>1
  <2>3. /\ call[c].at = "waiting" /\ call'[c].n = call[c].n /\ call'[c].on = call[c].on
        /\ call'[c].index = call[c].index /\ call'[c].id = call[c].id
    BY DEF CallsKeep
  <2>4. log[m][x].op.req = Req(c)
    BY <2>2, <2>3 DEF Req
  <2>5. x = call[c].index /\ log[m][x].op.me = call[c].on /\ log[m][x].op.id = call[c].id
    BY <2>1, <2>3, <2>4 DEF LoggedAsCalled
  <2> QED BY <2>2, <2>3, <2>5
<1> QED BY <1>1, <1>2, <1>3

LEMMA RefusedStays ==
  ASSUME LogTypes, LogTypes', CallTypes, CallTypes', Inherited, CallsKeep,
         executed' = executed, NEW r \in Request, Refused(r)
  PROVE  Refused(r)'
<1>1. r[1] \in Caller /\ r[2] \in Nat
  BY CallerAssumption DEF Request
<1>2. r[2] <= call'[r[1]].n
  <2>1. PICK d \in Caller, n \in Nat : d = r[1] /\ n = r[2]
    BY <1>1
  <2>2. call[d].n \in Nat /\ call'[d].n \in 0 .. MaxSubmits /\ call'[d].n >= call[d].n
    BY CallTypesGive DEF CallTypes, Calls, CallsKeep
  <2>3. n <= call[d].n
    BY <2>1 DEF Refused
  <2> QED BY <2>1, <2>2, <2>3
<1>3. ASSUME NEW i \in Server, NEW x \in 1 .. Len(log'[i]), log'[i][x].op.req = r
      PROVE  x <= Len(executed)
  <2>1. PICK m \in Server : x \in 1 .. Len(log[m]) /\ \A z \in 1 .. x : log'[i][z] = log[m][z]
    BY InheritedLog
  <2>2. log[m][x].op.req = r
    BY <1>3, <2>1
  <2> QED BY <2>1, <2>2 DEF Refused
<1>4. ~Promise!InSeq(r, executed)
  BY DEF Refused
<1> QED BY <1>2, <1>3, <1>4 DEF Refused, Promise!InSeq

LEMMA ExecutedLogged ==
  ASSUME ServersInv, NEW z \in 1 .. Len(executed)
  PROVE  \E i \in Server : z \in 1 .. Len(log[i]) /\ log[i][z].op.req = executed[z]
<1>1. LogInv /\ LogTypes /\ CallTypes /\ ExecutedIsSafe
  BY DEF ServersInv, GroupInv, LogInv
<1>2. executed # <<>> /\ Len(executed) \in Nat
  BY <1>1 DEF CallTypes
<1>3. PICK h \in Seq(Entry) : Executes(h)
  BY <1>1, <1>2 DEF ExecutedIsSafe
<1>4. Safe(h) /\ Len(executed) <= Len(h) /\ Len(h) \in Nat /\ executed[z] = h[z].op.req
  BY <1>3 DEF Executes
<1>5. PICK q \in Server : Holds(q, h)
  BY <1>4, SafeIsKept DEF IsKept
<1>6. z \in 1 .. Len(h) /\ Len(log[q]) \in Nat
  BY <1>1, <1>2, <1>4, LogNumbers
<1>7. z \in 1 .. Len(log[q]) /\ log[q][z] = h[z]
  BY <1>4, <1>5, <1>6 DEF Holds
<1> QED BY <1>4, <1>7

-----------------------------------------------------------------------------
(* What is outstanding: the end of what has been submitted.                *)

From(s, a) == SubSeq(s, a + 1, Len(s))

LEMMA FromIs ==
  ASSUME NEW S, NEW s \in Seq(S), NEW a \in 0 .. Len(s)
  PROVE  /\ From(s, a) \in Seq(S) /\ Len(From(s, a)) = Len(s) - a
         /\ \A k \in 1 .. Len(s) - a : From(s, a)[k] = s[a + k]
<1>1. Len(s) \in Nat /\ \A k \in 1 .. Len(s) : s[k] \in S
  BY ElementOfSeq
<1>2. PICK n \in Nat : n = Len(s)
  BY <1>1
<1>3. a + 1 \in Int /\ n \in Int /\ a \in Nat /\ a <= n
  BY <1>2
<1>4. \A k \in a + 1 .. n : s[k] \in S
  BY <1>1, <1>2, <1>3
<1>5. /\ SubSeq(s, a + 1, n) \in Seq(S)
      /\ Len(SubSeq(s, a + 1, n)) = IF a + 1 <= n THEN n - (a + 1) + 1 ELSE 0
      /\ \A k \in 1 .. n - (a + 1) + 1 : SubSeq(s, a + 1, n)[k] = s[(a + 1) + k - 1]
  BY <1>3, <1>4, SubSeqProperties
<1>6. From(s, a) = SubSeq(s, a + 1, n)
  BY <1>2 DEF From
<1>7. From(s, a) \in Seq(S) /\ Len(From(s, a)) = n - a
  BY <1>3, <1>5, <1>6
<1>8. ASSUME NEW k \in 1 .. n - a PROVE From(s, a)[k] = s[a + k]
  <2>1. k \in 1 .. n - (a + 1) + 1 /\ (a + 1) + k - 1 = a + k
    BY <1>3
  <2> QED BY <1>5, <1>6, <2>1
<1> QED BY <1>2, <1>7, <1>8

LEMMA FromAppend ==
  ASSUME NEW S, NEW s \in Seq(S), NEW a \in 0 .. Len(s), NEW e \in S
  PROVE  From(Append(s, e), a) = Append(From(s, a), e)
<1>1. PICK t, f : t = Append(s, e) /\ f = From(s, a)
  OBVIOUS
<1>2. PICK n \in Nat : n = Len(s)
  BY ElementOfSeq
<1>3. t \in Seq(S) /\ Len(t) = n + 1 /\ t[n + 1] = e /\ \A k \in 1 .. n : t[k] = s[k]
  BY <1>1, <1>2, AppendIs
<1>4. f \in Seq(S) /\ Len(f) = n - a /\ \A k \in 1 .. n - a : f[k] = s[a + k]
  BY <1>1, <1>2, FromIs
<1>5. a \in Nat /\ a <= n /\ a \in 0 .. Len(t)
  BY <1>2, <1>3
<1>6. PICK g, h : g = From(t, a) /\ h = Append(f, e)
  OBVIOUS
<1>7. g \in Seq(S) /\ Len(g) = n + 1 - a /\ \A k \in 1 .. n + 1 - a : g[k] = t[a + k]
  <2>1. /\ From(t, a) \in Seq(S) /\ Len(From(t, a)) = Len(t) - a
        /\ \A k \in 1 .. Len(t) - a : From(t, a)[k] = t[a + k]
    BY <1>3, <1>5, FromIs
  <2> QED BY <1>3, <1>6, <2>1
<1>8. h \in Seq(S) /\ Len(h) = n - a + 1 /\ h[n - a + 1] = e /\ \A k \in 1 .. n - a : h[k] = f[k]
  <2>1. /\ Append(f, e) \in Seq(S) /\ Len(Append(f, e)) = Len(f) + 1
        /\ \A k \in 1 .. Len(f) : Append(f, e)[k] = f[k]
        /\ Append(f, e)[Len(f) + 1] = e
    <3>1. f \in Seq(S)
      BY <1>4
    <3> QED BY <3>1, AppendIs
  <2>2. Len(h) = Len(f) + 1 /\ \A k \in 1 .. Len(f) : h[k] = f[k]
    BY <1>6, <2>1
  <2>3. h[Len(f) + 1] = e /\ h \in Seq(S)
    BY <1>6, <2>1
  <2> QED BY <1>4, <2>2, <2>3
<1>9. ASSUME NEW k \in 1 .. Len(g) PROVE g[k] = h[k]
  <2>1. k \in 1 .. n + 1 - a /\ g[k] = t[a + k]
    BY <1>7
  <2>2. CASE k = n - a + 1
    <3>1. a + k = n + 1
      BY <1>5, <2>2
    <3> QED BY <1>3, <1>8, <2>1, <2>2, <3>1
  <2>3. CASE k # n - a + 1
    <3>1. k \in 1 .. n - a /\ a + k \in 1 .. n
      BY <1>5, <2>1, <2>3
    <3> QED BY <1>3, <1>4, <1>8, <2>1, <3>1
  <2> QED BY <2>2, <2>3
<1>10. Len(g) = Len(h)
  BY <1>5, <1>7, <1>8
<1>11. g = h
  BY <1>7, <1>8, <1>9, <1>10, SeqEqual
<1> QED BY <1>1, <1>6, <1>11

LEMMA FromFrom ==
  ASSUME NEW S, NEW s \in Seq(S), NEW a \in 0 .. Len(s), NEW b \in a .. Len(s)
  PROVE  From(From(s, a), b - a) = From(s, b)
<1>1. PICK n \in Nat : n = Len(s)
  BY ElementOfSeq
<1>2. PICK f, g, h : f = From(s, a) /\ g = From(f, b - a) /\ h = From(s, b)
  OBVIOUS
<1>3. f \in Seq(S) /\ Len(f) = n - a /\ \A k \in 1 .. n - a : f[k] = s[a + k]
  BY <1>1, <1>2, FromIs
<1>4. a \in Nat /\ b \in Nat /\ a <= b /\ b <= n /\ b - a \in 0 .. Len(f) /\ b \in 0 .. Len(s)
  BY <1>1, <1>3
<1>5. g \in Seq(S) /\ Len(g) = Len(f) - (b - a) /\ \A k \in 1 .. Len(f) - (b - a) : g[k] = f[(b - a) + k]
  <2>1. PICK d \in 0 .. Len(f) : d = b - a
    BY <1>4
  <2>2. /\ From(f, d) \in Seq(S) /\ Len(From(f, d)) = Len(f) - d
        /\ \A k \in 1 .. Len(f) - d : From(f, d)[k] = f[d + k]
    BY <1>3, FromIs
  <2> QED BY <1>2, <2>1, <2>2
<1>6. h \in Seq(S) /\ Len(h) = n - b /\ \A k \in 1 .. n - b : h[k] = s[b + k]
  BY <1>1, <1>2, <1>4, FromIs
<1>7. Len(g) = n - b
  BY <1>3, <1>4, <1>5
<1>8. ASSUME NEW k \in 1 .. Len(g) PROVE g[k] = h[k]
  <2>1. k \in 1 .. n - b /\ k \in 1 .. Len(f) - (b - a) /\ (b - a) + k \in 1 .. n - a
    BY <1>3, <1>4, <1>7
  <2>2. a + ((b - a) + k) = b + k
    BY <1>4
  <2>3. g[k] = f[(b - a) + k] /\ f[(b - a) + k] = s[a + ((b - a) + k)] /\ h[k] = s[b + k]
    BY <1>3, <1>5, <1>6, <2>1
  <2> QED BY <2>2, <2>3
<1>9. g = h
  BY <1>5, <1>6, <1>7, <1>8, SeqEqual
<1> QED BY <1>2, <1>9

LEMMA ChosenPlace ==
  ASSUME NEW s, NEW e, NEW k \in 1 .. Len(s), s[k] = e,
         \A j, l \in 1 .. Len(s) : s[j] = s[l] => j = l
  PROVE  (CHOOSE j \in 1 .. Len(s) : s[j] = e) = k
<1>1. \E j \in 1 .. Len(s) : s[j] = e
  OBVIOUS
<1> QED BY <1>1

LEMMA LastPlace ==
  ASSUME CallTypes, SubmittedOnce, executed # <<>>, NEW k \in 1 .. Len(submitted),
         submitted[k] = executed[Len(executed)]
  PROVE  LastExecuted = k
BY ChosenPlace DEF LastExecuted, SubmittedOnce

LEMMA LastPlaceNext ==
  ASSUME SubmittedOnce', executed' # <<>>, NEW k \in 1 .. Len(submitted'),
         submitted'[k] = executed'[Len(executed')]
  PROVE  LastExecuted' = k
BY ChosenPlace DEF LastExecuted, SubmittedOnce

\* The last operation executed stands among those submitted.
LEMMA LastExists ==
  ASSUME ServersInv, OrderInv
  PROVE  /\ LastExecuted \in 0 .. Len(submitted)
         /\ executed = <<>> => LastExecuted = 0
         /\ executed # <<>> => LastExecuted \in 1 .. Len(submitted)
                               /\ submitted[LastExecuted] = executed[Len(executed)]
<1>1. CallTypes /\ SubmittedOnce /\ LogsInOrder
  BY DEF ServersInv, OrderInv
<1>2. Len(submitted) \in Nat /\ Len(executed) \in Nat
  BY <1>1, SubmittedTyped
<1>3. CASE executed = <<>>
  BY <1>2, <1>3 DEF LastExecuted
<1>4. CASE executed # <<>>
  <2>1. Len(executed) \in 1 .. Len(executed)
    BY <1>1, <1>2, <1>4, EmptySeq, SubmittedTyped
  <2>2. PICK i \in Server : /\ Len(executed) \in 1 .. Len(log[i])
                            /\ log[i][Len(executed)].op.req = executed[Len(executed)]
    BY <2>1, ExecutedLogged
  <2>3. PICK l \in 1 .. Len(submitted) : submitted[l] = log[i][Len(executed)].op.req
    BY <1>1, <2>2 DEF LogsInOrder
  <2>4. LastExecuted = l
    BY <1>1, <1>4, <2>2, <2>3, LastPlace
  <2> QED BY <1>2, <1>4, <2>2, <2>3, <2>4
<1> QED BY <1>3, <1>4

-----------------------------------------------------------------------------
(* The order and the outcomes are kept by every step.                      *)

\* What is executed and what is committed agree.
LEMMA CommittedAgrees ==
  ASSUME ServersInv, NEW i \in Server, NEW x \in 1 .. Len(executed), x <= commitIndex[i]
  PROVE  log[i][x].op.req = executed[x]
<1>1. LogInv /\ LogTypes /\ CallTypes /\ ExecutedIsSafe /\ CommitsAreSafe
  BY DEF ServersInv, GroupInv, LogInv
<1>2. executed # <<>> /\ Len(executed) \in Nat /\ commitIndex[i] \in Nat
  BY <1>1 DEF CallTypes, LogTypes
<1>3. PICK h \in Seq(Entry) : Executes(h)
  BY <1>1, <1>2 DEF ExecutedIsSafe
<1>4. Safe(h) /\ Len(executed) <= Len(h) /\ Len(h) \in Nat /\ executed[x] = h[x].op.req
  BY <1>3 DEF Executes
<1>5. x \in Nat /\ x >= 1 /\ x <= Len(executed) /\ commitIndex[i] # 0
  BY <1>2
<1>6. PICK g \in Seq(Entry) : CommittedIn(i, g)
  BY <1>1, <1>5 DEF CommitsAreSafe
<1>7. Safe(g) /\ Len(g) \in Nat /\ x \in 1 .. Len(g) /\ log[i][x] = g[x]
  BY <1>2, <1>5, <1>6 DEF CommittedIn
<1>8. g[x] = h[x]
  BY <1>1, <1>4, <1>5, <1>7, SafeAgree
<1> QED BY <1>4, <1>7, <1>8

LEMMA InvGives ==
  ASSUME ServersInv
  PROVE  /\ LogTypes /\ CallTypes /\ CallsInv /\ LogsInv /\ GroupTypes /\ Sized /\ InCall /\ Registered
         /\ LogsAsked /\ LogsOnce /\ LogInv
<1>1. GroupInv
  BY DEF ServersInv
<1> QED BY <1>1, GroupGives DEF ServersInv, GroupInv, LogInv, CallsInv, LogsInv

LEMMA InvGivesNext ==
  ASSUME ServersInv'
  PROVE  LogTypes' /\ CallTypes' /\ InCall' /\ Registered'
BY DEF ServersInv, GroupInv, LogInv

LEMMA OthersOrder ==
  ASSUME ServersInv, ServersInv', OrderInv, Inherited, CallsKeep,
         submitted' = submitted, executed' = executed,
         \A c \in Caller : call'[c].at = "waiting" => call'[c].channel = call[c].channel,
         OutcomesOfCalls',
         \A r \in Request : outcome'[r].err = "ErrWrongLeader" =>
           outcome[r].err = "ErrWrongLeader" \/ Refused(r)'
  PROVE  OrderInv'
<1>1. LogTypes /\ LogTypes' /\ CallTypes /\ CallTypes'
  BY InvGives, InvGivesNext
<1>2. SubmittedOnce' /\ LogsInOrder' /\ LoggedAsCalled'
  BY <1>1, OrderKept DEF OrderInv
<1>3. ChannelsExecuted'
  <2> SUFFICES ASSUME NEW c \in Caller, call'[c].at = "waiting", call'[c].channel # None
               PROVE  /\ call'[c].index \in 1 .. Len(executed)
                      /\ executed[call'[c].index] = call'[c].channel.req
                      /\ call'[c].channel.req = Req(c)' => Own(c)'
    BY DEF ChannelsExecuted
  <2>1. /\ call[c].at = "waiting" /\ call'[c].n = call[c].n /\ call'[c].on = call[c].on
        /\ call'[c].index = call[c].index /\ call'[c].id = call[c].id
        /\ call'[c].channel = call[c].channel
    BY DEF CallsKeep
  <2>2. /\ call[c].index \in 1 .. Len(executed)
        /\ executed[call[c].index] = call[c].channel.req
        /\ call[c].channel.req = Req(c) => Own(c)
    BY <2>1 DEF OrderInv, ChannelsExecuted
  <2>3. (Req(c)' = Req(c)) /\ (Own(c)' <=> Own(c))
    BY <2>1 DEF Req, Own
  <2> QED BY <2>1, <2>2, <2>3
<1>4. Refusals'
  <2> SUFFICES ASSUME NEW r \in Request, outcome'[r].err = "ErrWrongLeader" PROVE Refused(r)'
    BY DEF Refusals
  <2>1. CASE outcome[r].err = "ErrWrongLeader"
    <3>1. Refused(r)
      BY <2>1 DEF OrderInv, Refusals
    <3> QED BY <1>1, <3>1, RefusedStays
  <2> QED BY <2>1
<1> QED BY <1>2, <1>3, <1>4 DEF OrderInv

LEMMA SameCallsOrder ==
  ASSUME ServersInv, ServersInv', OrderInv, Inherited,
         UNCHANGED <<submitted, executed, call, outcome>>
  PROVE  OrderInv'
<1>1. CallsKeep
  <2>1. \A c \in Caller : call[c].n \in Nat
    BY InvGives, CallTypesGive
  <2> QED BY <2>1 DEF CallsKeep
<1>2. OutcomesOfCalls'
  BY DEF OrderInv, OutcomesOfCalls, Req
<1> QED BY <1>1, <1>2, OthersOrder

LEMMA LeaveOrder ==
  ASSUME ServersInv, ServersInv', OrderInv, NEW c \in Caller, Leave(c)
  PROVE  OrderInv'
<1>1. /\ UNCHANGED <<group, opId, applied, outcome, history>>
      /\ \A d \in Caller : call'[d] = IF d = c THEN NoCall(call[c].n) ELSE call[d]
  BY InvGives, LeaveTypes
<1>2. call'[c].at = "idle" /\ call'[c].n = call[c].n /\ \A d \in Caller : d # c => call'[d] = call[d]
  BY <1>1 DEF NoCall
<1>3. \A d \in Caller : call[d].n \in Nat
  BY InvGives, CallTypesGive
<1>4. CallsKeep
  BY <1>2, <1>3 DEF CallsKeep
<1>5. Inherited
  BY <1>1, InvGives, GroupInherits
<1>6. OutcomesOfCalls'
  <2> SUFFICES ASSUME NEW d \in Caller
               PROVE  /\ \A n \in 1 .. MaxSubmits : n > call'[d].n => outcome[<<d, n>>].err = "none"
                      /\ call'[d].at = "waiting" => outcome[<<d, call'[d].n>>].err = "none"
    BY <1>1 DEF OutcomesOfCalls, Req
  <2>1. call'[d].n = call[d].n /\ (call'[d].at = "waiting" => call[d].at = "waiting")
    BY <1>2
  <2> QED BY <2>1 DEF OrderInv, OutcomesOfCalls, Req
<1>7. \A d \in Caller : call'[d].at = "waiting" => call'[d].channel = call[d].channel
  BY <1>2
<1> QED BY <1>1, <1>4, <1>5, <1>6, <1>7, OthersOrder DEF history

\* What is not in a log has not been executed.
LEMMA UnaskedIsRefused ==
  ASSUME ServersInv, NEW r \in Request, r[2] > call[r[1]].n
  PROVE  /\ ~Promise!InSeq(r, executed)
         /\ \A i \in Server : \A x \in 1 .. Len(log[i]) : log[i][x].op.req # r
<1>1. r[1] \in Caller /\ r[2] \in Nat
  BY CallerAssumption DEF Request
<1>2. \A d \in Caller : call[d].n \in Nat
  BY InvGives, CallTypesGive
<1>3. ASSUME NEW i \in Server, NEW x \in 1 .. Len(log[i]), log[i][x].op.req = r PROVE FALSE
  <2>1. r[2] <= call[r[1]].n
    BY <1>3, InvGives DEF LogsAsked
  <2> QED BY <1>1, <1>2, <2>1
<1>4. ~Promise!InSeq(r, executed)
  <2> SUFFICES ASSUME NEW z \in 1 .. Len(executed), executed[z] = r PROVE FALSE
    BY DEF Promise!InSeq
  <2> QED BY <1>3, ExecutedLogged
<1> QED BY <1>3, <1>4

LEMMA SubmitElsewhereOrder ==
  ASSUME ServersInv, ServersInv', OrderInv, NEW c \in Caller, NEW i \in Server, SubmitElsewhere(c, i)
  PROVE  OrderInv'
<1>1. /\ UNCHANGED group
      /\ \A d \in Caller : call'[d] = IF d = c THEN NoCall(call[c].n + 1) ELSE call[d]
  BY InvGives, SubmitElsewhereTypes
<1>2. PICK n \in 1 .. MaxSubmits : n = call[c].n + 1
  <2>1. call[c].n \in Nat /\ MaxSubmits \in Nat /\ call[c].n < MaxSubmits
    BY InvGives, CallTypesGive DEF SubmitElsewhere, Proposes
  <2> QED BY <2>1
<1>3. call'[c].at = "idle" /\ call'[c].n = n /\ \A d \in Caller : d # c => call'[d] = call[d]
  BY <1>1, <1>2 DEF NoCall
<1>4. \A d \in Caller : call[d].n \in Nat
  BY InvGives, CallTypesGive
<1>5. CallsKeep
  BY <1>2, <1>3, <1>4 DEF CallsKeep
<1>6. Inherited
  BY <1>1, InvGives, GroupInherits
<1>7. PICK r \in Request : r = <<c, n>>
  BY DEF Request
<1>8. \A q \in Request : outcome'[q].err = IF q = r THEN "ErrWrongLeader" ELSE outcome[q].err
  <2>1. outcome' = [outcome EXCEPT ![r] = [outcome[r] EXCEPT !.err = "ErrWrongLeader"]]
    BY <1>2, <1>7 DEF SubmitElsewhere
  <2>2. outcome \in [Request -> [err : Errors, result : Request \cup {None}]]
    BY InvGives DEF CallTypes
  <2>3. [outcome[r] EXCEPT !.err = "ErrWrongLeader"].err = "ErrWrongLeader"
    BY <2>2
  <2> QED BY <2>1, <2>2, <2>3
<1>9. UNCHANGED <<submitted, executed, log>>
  BY <1>1 DEF SubmitElsewhere, Proposes, group
<1>10. OutcomesOfCalls'
  <2> SUFFICES ASSUME NEW d \in Caller
               PROVE  /\ \A m \in 1 .. MaxSubmits : m > call'[d].n => outcome'[<<d, m>>].err = "none"
                      /\ call'[d].at = "waiting" => outcome'[<<d, call'[d].n>>].err = "none"
    BY DEF OutcomesOfCalls, Req
  <2>1. CASE d = c
    <3>1. ASSUME NEW m \in 1 .. MaxSubmits, m > n PROVE outcome'[<<c, m>>].err = "none"
      <4>1. <<c, m>> \in Request /\ <<c, m>> # r /\ m > call[c].n
        BY <1>2, <1>4, <1>7, <3>1 DEF Request
      <4>2. outcome[<<c, m>>].err = "none"
        BY <4>1 DEF OrderInv, OutcomesOfCalls
      <4> QED BY <1>8, <4>1, <4>2
    <3> QED BY <1>3, <2>1, <3>1
  <2>2. CASE d # c
    <3>1. call'[d] = call[d]
      BY <1>3, <2>2
    <3>2. \A m \in 1 .. MaxSubmits : <<d, m>> \in Request /\ <<d, m>> # r
      BY <1>7, <2>2 DEF Request
    <3>3. ASSUME NEW m \in 1 .. MaxSubmits, m > call[d].n PROVE outcome'[<<d, m>>].err = "none"
      BY <1>8, <3>2, <3>3 DEF OrderInv, OutcomesOfCalls
    <3>4. ASSUME call[d].at = "waiting" PROVE outcome'[<<d, call[d].n>>].err = "none"
      <4>1. call[d].n \in 1 .. MaxSubmits
        BY <3>4, InvGives, CallTypesGive DEF InCall
      <4> QED BY <1>8, <3>2, <3>4, <4>1 DEF OrderInv, OutcomesOfCalls, Req
    <3> QED BY <3>1, <3>3, <3>4
  <2> QED BY <2>1, <2>2
<1>11. Refused(r)'
  <2>1. r[1] = c /\ r[2] = n
    BY <1>7
  <2>2. r[2] > call[r[1]].n
    BY <1>2, <1>4, <2>1
  <2>3. /\ ~Promise!InSeq(r, executed)
        /\ \A k \in Server : \A x \in 1 .. Len(log[k]) : log[k][x].op.req # r
    BY <2>2, UnaskedIsRefused
  <2>4. r[2] <= call'[r[1]].n
    BY <1>3, <2>1
  <2> QED BY <1>9, <2>3, <2>4 DEF Refused, Promise!InSeq
<1>12. \A q \in Request : outcome'[q].err = "ErrWrongLeader" =>
         outcome[q].err = "ErrWrongLeader" \/ Refused(q)'
  BY <1>8, <1>11
<1>13. \A d \in Caller : call'[d].at = "waiting" => call'[d].channel = call[d].channel
  BY <1>3
<1> QED BY <1>5, <1>6, <1>9, <1>10, <1>12, <1>13, OthersOrder

\* What a call that receives another's result knows of its own operation.
LEMMA NotOwnIsRefused ==
  ASSUME ServersInv, OrderInv, NEW c \in Caller, call[c].at = "waiting",
         call[c].channel # None, ~Own(c)
  PROVE  Refused(Req(c))
<1>1. /\ call[c].index \in 1 .. Len(executed)
      /\ executed[call[c].index] = call[c].channel.req /\ call[c].channel.req # Req(c)
  BY DEF OrderInv, ChannelsExecuted
<1>2. PICK x \in 1 .. Len(executed) : x = call[c].index
  BY <1>1
<1>3. \A i \in Server : \A y \in 1 .. Len(log[i]) : log[i][y].op.req = Req(c) => y = x
  BY <1>2 DEF OrderInv, LoggedAsCalled
<1>4. Len(executed) \in Nat /\ call[c].n \in Nat
  BY InvGives, SubmittedTyped
<1>5. ~Promise!InSeq(Req(c), executed)
  <2> SUFFICES ASSUME NEW z \in 1 .. Len(executed), executed[z] = Req(c) PROVE FALSE
    BY DEF Promise!InSeq
  <2>1. z = x
    BY <1>3, ExecutedLogged
  <2> QED BY <1>1, <1>2, <2>1
<1>6. Req(c)[1] = c /\ Req(c)[2] = call[c].n
  BY DEF Req
<1> QED BY <1>3, <1>4, <1>5, <1>6 DEF Refused

LEMMA ReturnOrder ==
  ASSUME ServersInv, ServersInv', OrderInv, NEW c \in Caller, NEW err, NEW result,
         ReturnsWith(c, err, result), err = "ErrWrongLeader" => Refused(Req(c))
  PROVE  /\ OrderInv' /\ UNCHANGED <<submitted, executed>> /\ Req(c) \in Request
         /\ \A q \in Request : outcome'[q].err = IF q = Req(c) THEN err ELSE outcome[q].err
<1>1. /\ Req(c) \in Request /\ UNCHANGED <<group, rsm, history>>
      /\ outcome' = [outcome EXCEPT ![Req(c)] = [err |-> err, result |-> result]]
      /\ \A d \in Caller : call'[d] = IF d = c THEN [call[c] EXCEPT !.at = "leaving"] ELSE call[d]
  BY InvGives, ReturnTypes
<1>2. call'[c].at = "leaving" /\ call'[c].n = call[c].n
  <2>1. ASSUME NEW r \in Calls
        PROVE  [r EXCEPT !.at = "leaving"].at = "leaving" /\ [r EXCEPT !.at = "leaving"].n = r.n
    BY DEF Calls
  <2>2. call[c] \in Calls
    BY InvGives, CallTypesGive
  <2> QED BY <1>1, <2>1, <2>2
<1>3. \A d \in Caller : d # c => call'[d] = call[d]
  BY <1>1
<1>4. \A d \in Caller : call[d].n \in Nat
  BY InvGives, CallTypesGive
<1>5. CallsKeep
  BY <1>2, <1>3, <1>4 DEF CallsKeep
<1>6. Inherited
  BY <1>1, InvGives, GroupInherits
<1>7. PICK r \in Request : r = Req(c)
  BY <1>1
<1>8. \A q \in Request : outcome'[q].err = IF q = r THEN err ELSE outcome[q].err
  <2>1. outcome \in [Request -> [err : Errors, result : Request \cup {None}]]
    BY InvGives DEF CallTypes
  <2> QED BY <1>1, <1>7, <2>1
<1>9. UNCHANGED <<submitted, executed>>
  BY <1>1 DEF history
<1>10. OutcomesOfCalls'
  <2> SUFFICES ASSUME NEW d \in Caller
               PROVE  /\ \A m \in 1 .. MaxSubmits : m > call'[d].n => outcome'[<<d, m>>].err = "none"
                      /\ call'[d].at = "waiting" => outcome'[<<d, call'[d].n>>].err = "none"
    BY DEF OutcomesOfCalls, Req
  <2>1. call'[d].n = call[d].n
    BY <1>2, <1>3
  <2>2. ASSUME NEW m \in 1 .. MaxSubmits, m > call[d].n PROVE outcome'[<<d, m>>].err = "none"
    <3>1. <<d, m>> \in Request /\ <<d, m>> # r
      BY <1>4, <1>7, <2>2 DEF Request, Req
    <3>2. outcome[<<d, m>>].err = "none"
      BY <2>2 DEF OrderInv, OutcomesOfCalls
    <3> QED BY <1>8, <3>1, <3>2
  <2>3. ASSUME call'[d].at = "waiting" PROVE outcome'[<<d, call[d].n>>].err = "none"
    <3>1. d # c /\ call[d].at = "waiting"
      BY <1>2, <1>3, <2>3
    <3>2. call[d].n \in 1 .. MaxSubmits
      BY <3>1, InvGives, CallTypesGive DEF InCall
    <3>3. <<d, call[d].n>> \in Request /\ <<d, call[d].n>> # r
      BY <1>7, <3>1, <3>2 DEF Request, Req
    <3>4. outcome[<<d, call[d].n>>].err = "none"
      BY <3>1 DEF OrderInv, OutcomesOfCalls, Req
    <3> QED BY <1>8, <3>3, <3>4
  <2> QED BY <2>1, <2>2, <2>3
<1>11. err = "ErrWrongLeader" => Refused(r)'
  <2> SUFFICES ASSUME err = "ErrWrongLeader" PROVE Refused(r)'
    OBVIOUS
  <2>1. Refused(r)
    BY <1>7
  <2>2. LogTypes /\ LogTypes' /\ CallTypes /\ CallTypes'
    BY InvGives, InvGivesNext
  <2> QED BY <1>5, <1>6, <1>9, <2>1, <2>2, RefusedStays
<1>12. \A q \in Request : outcome'[q].err = "ErrWrongLeader" =>
         outcome[q].err = "ErrWrongLeader" \/ Refused(q)'
  BY <1>8, <1>11
<1>13. \A d \in Caller : call'[d].at = "waiting" => call'[d].channel = call[d].channel
  BY <1>2, <1>3
<1>14. OrderInv'
  BY <1>5, <1>6, <1>9, <1>10, <1>12, <1>13, OthersOrder
<1> QED BY <1>7, <1>8, <1>9, <1>14

\* The next operation of server i's log is executed.
LEMMA ReaderFacts ==
  ASSUME ServersInv, NEW i \in Server, Reader(i)
  PROVE  \E x \in 1 .. Len(log[i]) :
           /\ x = applied[i] + 1 /\ x <= commitIndex[i] /\ x <= Len(executed) + 1
           /\ executed' = IF x > Len(executed) THEN Append(executed, log[i][x].op.req) ELSE executed
           /\ UNCHANGED <<group, opId, outcome, submitted>>
           /\ \A d \in Caller :
                \/ call'[d] = call[d]
                \/ call'[d] = [call[d] EXCEPT !.channel = log[i][x].op] /\ call[d].index = x
<1>1. CallsInv /\ LogTypes /\ GroupTypes /\ Sized /\ CallTypes /\ Registered /\ ReadersFollow
  BY InvGives DEF ServersInv
<1>2. UNCHANGED <<group, opId, outcome, submitted>>
  BY <1>1, ReaderTypes
<1>3. PICK x \in 1 .. MaxLog :
        /\ x = applied[i] + 1 /\ x <= commitIndex[i] /\ x \in 1 .. Len(log[i])
        /\ executed' = IF x > Len(executed) THEN Append(executed, log[i][x].op.req) ELSE executed
  BY <1>1, ReaderTypes
<1>4. x <= Len(executed) + 1
  <2>1. applied[i] <= Len(executed) /\ Len(executed) \in Nat /\ applied[i] \in 0 .. MaxLog
    BY <1>1 DEF ReadersFollow, CallTypes
  <2> QED BY <1>3, <2>1, GroupAssumption
<1>5. \A d \in Caller :
        \/ call'[d] = call[d]
        \/ call'[d] = [call[d] EXCEPT !.channel = log[i][x].op] /\ call[d].index = x
  <2>1. PICK c : c = pending[i][x]
    OBVIOUS
  <2>2. call' = IF c = None THEN call ELSE [call EXCEPT ![c].channel = log[i][x].op]
    BY <1>3, <2>1 DEF Reader
  <2>3. c # None => c \in Caller /\ call[c].index = x
    BY <1>1, <2>1, PendingTyped DEF Registered
  <2>4. call \in [Caller -> Calls]
    BY <1>1 DEF CallTypes
  <2> QED BY <2>2, <2>3, <2>4
<1> QED BY <1>2, <1>3, <1>4, <1>5

-----------------------------------------------------------------------------
(* The reader, which executes what has come to the head of the order.      *)

\* What has been executed stays, and the operation at x is executed now or was.
LEMMA ReaderGrows ==
  ASSUME ServersInv, NEW i \in Server, NEW x \in 1 .. Len(log[i]),
         x <= commitIndex[i], x <= Len(executed) + 1,
         executed' = IF x > Len(executed) THEN Append(executed, log[i][x].op.req) ELSE executed
  PROVE  /\ x \in 1 .. Len(executed') /\ executed'[x] = log[i][x].op.req
         /\ Len(executed') >= Len(executed) /\ Len(executed') \in Nat
         /\ \A z \in 1 .. Len(executed) : executed'[z] = executed[z]
         /\ \A z \in 1 .. Len(executed') : z \in 1 .. Len(executed)
                                            \/ (x > Len(executed) /\ executed'[z] = log[i][x].op.req)
<1>1. executed \in Seq(Request) /\ Len(executed) \in Nat /\ log[i][x].op.req \in Request
      /\ Len(log[i]) \in Nat
  BY InvGives, SubmittedTyped, OpsTyped, LogNumbers
<1>2. PICK N \in Nat, r \in Request : N = Len(executed) /\ r = log[i][x].op.req
  BY <1>1
<1>3. x \in Nat /\ x >= 1
  BY <1>1
<1>4. CASE x > N
  <2>1. x = N + 1
    BY <1>2, <1>3, <1>4
  <2>2. executed' = Append(executed, r)
    BY <1>2, <1>4
  <2>3. /\ Len(executed') = N + 1 /\ executed'[N + 1] = r
        /\ \A z \in 1 .. N : executed'[z] = executed[z]
    BY <1>1, <1>2, <2>2, AppendIs
  <2>4. \A z \in 1 .. N + 1 : z \in 1 .. N \/ z = N + 1
    BY <1>2
  <2> QED BY <1>2, <1>3, <1>4, <2>1, <2>3, <2>4
<1>5. CASE ~(x > N)
  <2>1. executed' = executed /\ x \in 1 .. Len(executed)
    BY <1>2, <1>3, <1>5
  <2>2. executed[x] = log[i][x].op.req
    BY <2>1, CommittedAgrees
  <2> QED BY <1>1, <2>1, <2>2
<1> QED BY <1>4, <1>5

LEMMA ReaderOrder ==
  ASSUME ServersInv, ServersInv', OrderInv, NEW i \in Server, Reader(i)
  PROVE  OrderInv'
<1>1. PICK x \in 1 .. Len(log[i]) :
        /\ x = applied[i] + 1 /\ x <= commitIndex[i] /\ x <= Len(executed) + 1
        /\ executed' = IF x > Len(executed) THEN Append(executed, log[i][x].op.req) ELSE executed
        /\ UNCHANGED <<group, opId, outcome, submitted>>
        /\ \A d \in Caller :
             \/ call'[d] = call[d]
             \/ call'[d] = [call[d] EXCEPT !.channel = log[i][x].op] /\ call[d].index = x
  BY ReaderFacts
<1>2. /\ x \in 1 .. Len(executed') /\ executed'[x] = log[i][x].op.req
      /\ Len(executed') >= Len(executed) /\ Len(executed') \in Nat
      /\ \A z \in 1 .. Len(executed) : executed'[z] = executed[z]
      /\ \A z \in 1 .. Len(executed') : z \in 1 .. Len(executed)
                                         \/ (x > Len(executed) /\ executed'[z] = log[i][x].op.req)
  BY <1>1, ReaderGrows
<1>3. PICK new \in Ops : new = log[i][x].op
  BY InvGives, OpsTyped
<1>4. LogTypes /\ LogTypes' /\ CallTypes /\ CallTypes' /\ Inherited
  BY <1>1, InvGives, InvGivesNext, GroupInherits
<1>5. \A d \in Caller : /\ call'[d].at = call[d].at /\ call'[d].on = call[d].on
                        /\ call'[d].id = call[d].id /\ call'[d].n = call[d].n
                        /\ call'[d].index = call[d].index
                        /\ \/ call'[d].channel = call[d].channel
                           \/ call'[d].channel = new /\ call[d].index = x
  <2>1. ASSUME NEW r \in Calls
        PROVE  LET s == [r EXCEPT !.channel = new] IN
               s.at = r.at /\ s.on = r.on /\ s.id = r.id /\ s.n = r.n /\ s.index = r.index /\ s.channel = new
    BY DEF Calls
  <2> TAKE d \in Caller
  <2>2. PICK r \in Calls : r = call[d]
    BY <1>4, CallTypesGive
  <2>3. CASE call'[d] = r
    BY <2>2, <2>3
  <2>4. CASE call'[d] = [r EXCEPT !.channel = new] /\ call[d].index = x
    BY <2>1, <2>2, <2>4
  <2> QED BY <1>1, <1>3, <2>2, <2>3, <2>4
<1>6. \A d \in Caller : call[d].n \in Nat
  BY <1>4, CallTypesGive
<1>7. CallsKeep
  BY <1>5, <1>6 DEF CallsKeep
<1>8. SubmittedOnce' /\ LogsInOrder' /\ LoggedAsCalled'
  BY <1>1, <1>4, <1>7, OrderKept DEF OrderInv
<1>9. OutcomesOfCalls'
  BY <1>1, <1>5 DEF OrderInv, OutcomesOfCalls, Req
<1>10. ChannelsExecuted'
  <2> SUFFICES ASSUME NEW d \in Caller, call'[d].at = "waiting", call'[d].channel # None
               PROVE  /\ call'[d].index \in 1 .. Len(executed')
                      /\ executed'[call'[d].index] = call'[d].channel.req
                      /\ call'[d].channel.req = Req(d)' => Own(d)'
    BY DEF ChannelsExecuted
  <2>1. (Req(d)' = Req(d)) /\ call[d].at = "waiting"
    BY <1>5 DEF Req
  <2>2. CASE call'[d].channel = call[d].channel
    <3>1. /\ call[d].index \in 1 .. Len(executed)
          /\ executed[call[d].index] = call[d].channel.req
          /\ call[d].channel.req = Req(d) => Own(d)
      BY <2>1, <2>2 DEF OrderInv, ChannelsExecuted
    <3>2. call[d].index \in 1 .. Len(executed')
      <4>1. Len(executed) \in Nat
        BY <1>4, SubmittedTyped
      <4> QED BY <1>2, <3>1, <4>1
    <3>3. Own(d)' <=> Own(d)
      BY <1>5, <2>2 DEF Own
    <3> QED BY <1>2, <1>5, <2>1, <2>2, <3>1, <3>2, <3>3
  <2>3. CASE call'[d].channel = new /\ call[d].index = x
    <3>1. call'[d].index \in 1 .. Len(executed') /\ executed'[call'[d].index] = call'[d].channel.req
      BY <1>2, <1>3, <1>5, <2>3
    <3>2. ASSUME new.req = Req(d) PROVE Own(d)'
      <4>1. new.me = call[d].on /\ new.id = call[d].id
        BY <1>3, <2>1, <3>2 DEF OrderInv, LoggedAsCalled
      <4> QED BY <1>5, <2>3, <4>1 DEF Own
    <3> QED BY <2>1, <2>3, <3>1, <3>2
  <2> QED BY <1>5, <2>2, <2>3
<1>11. Refusals'
  <2> SUFFICES ASSUME NEW r \in Request, outcome'[r].err = "ErrWrongLeader" PROVE Refused(r)'
    BY DEF Refusals
  <2>1. Refused(r)
    BY <1>1 DEF OrderInv, Refusals
  <2>2. log' = log
    BY <1>1 DEF group
  <2>3. r[1] \in Caller
    BY DEF Request
  <2>4. r[2] <= call'[r[1]].n
    BY <1>5, <2>1, <2>3 DEF Refused
  <2>5. Len(executed) \in Nat /\ \A k \in Server : Len(log[k]) \in Nat
    BY <1>4, SubmittedTyped, LogNumbers
  <2>6. \A k \in Server : \A z \in 1 .. Len(log[k]) : log[k][z].op.req = r => z <= Len(executed')
    <3> SUFFICES ASSUME NEW k \in Server, NEW z \in 1 .. Len(log[k]), log[k][z].op.req = r
                 PROVE  z <= Len(executed')
      OBVIOUS
    <3>1. z <= Len(executed) /\ z \in Nat
      BY <2>1, <2>5 DEF Refused
    <3> QED BY <1>2, <2>5, <3>1
  <2>7. ~Promise!InSeq(r, executed')
    <3> SUFFICES ASSUME NEW z \in 1 .. Len(executed'), executed'[z] = r PROVE FALSE
      BY DEF Promise!InSeq
    <3>1. CASE z \in 1 .. Len(executed)
      <4>1. executed[z] = r
        BY <1>2, <3>1
      <4> QED BY <2>1, <3>1, <4>1 DEF Refused, Promise!InSeq
    <3>2. CASE x > Len(executed) /\ executed'[z] = log[i][x].op.req
      <4>1. x <= Len(executed)
        BY <2>1, <3>2 DEF Refused
      <4> QED BY <2>5, <3>2, <4>1
    <3> QED BY <1>2, <3>1, <3>2
  <2> QED BY <2>2, <2>4, <2>6, <2>7 DEF Refused, Promise!InSeq
<1> QED BY <1>8, <1>9, <1>10, <1>11 DEF OrderInv

LEMMA LastStays ==
  ASSUME ServersInv, OrderInv, OrderInv', executed' = executed,
         \A k \in 1 .. Len(submitted) : k \in 1 .. Len(submitted') /\ submitted'[k] = submitted[k]
  PROVE  LastExecuted' = LastExecuted
<1>1. CASE executed = <<>>
  <2>1. LastExecuted' = 0
    BY <1>1 DEF LastExecuted
  <2> QED BY <1>1, <2>1, LastExists
<1>2. CASE executed # <<>>
  <2>1. PICK k \in 1 .. Len(submitted) : k = LastExecuted /\ submitted[k] = executed[Len(executed)]
    BY <1>2, LastExists
  <2>2. k \in 1 .. Len(submitted') /\ submitted'[k] = executed'[Len(executed')] /\ executed' # <<>>
    BY <1>2, <2>1
  <2>3. SubmittedOnce'
    BY DEF OrderInv
  <2>4. LastExecuted' = k
    BY <2>2, <2>3, LastPlaceNext
  <2> QED BY <2>1, <2>4
<1> QED BY <1>1, <1>2

LEMMA ReaderMaps ==
  ASSUME ServersInv, ServersInv', OrderInv, OrderInv', NEW i \in Server, Reader(i)
  PROVE  \/ \E k \in 1 .. Len(Outstanding) : Promise!Execute(k)
         \/ UNCHANGED Promise!subvars
<1>1. PICK x \in 1 .. Len(log[i]) :
        /\ x = applied[i] + 1 /\ x <= commitIndex[i] /\ x <= Len(executed) + 1
        /\ executed' = IF x > Len(executed) THEN Append(executed, log[i][x].op.req) ELSE executed
        /\ UNCHANGED <<group, opId, outcome, submitted>>
  BY ReaderFacts
<1>2. PICK N \in Nat, r \in Request : N = Len(executed) /\ r = log[i][x].op.req
  BY InvGives, SubmittedTyped, OpsTyped
<1>3. /\ CallTypes /\ SubmittedOnce /\ SubmittedOnce' /\ LogTypes /\ LogsInOrder /\ Refusals
      /\ submitted \in Seq(Request) /\ executed \in Seq(Request) /\ Len(submitted) \in Nat
      /\ Len(log[i]) \in Nat
  BY InvGives, SubmittedTyped, LogNumbers DEF OrderInv
<1>4. CASE ~(x > N)
  <2>1. executed' = executed
    BY <1>1, <1>2, <1>4
  <2>2. submitted' = submitted
    BY <1>1
  <2>3. LastExecuted' = LastExecuted
    BY <2>1, <2>2, LastStays
  <2>4. Outstanding' = Outstanding
    BY <2>2, <2>3 DEF Outstanding
  <2>5. [q \in Request |-> outcome[q].err]' = [q \in Request |-> outcome[q].err]
    BY <1>1
  <2> QED BY <2>1, <2>4, <2>5 DEF Promise!subvars
<1>5. CASE x > N
  <2>1. x = N + 1 /\ x \in Nat
    BY <1>1, <1>2, <1>3, <1>5
  <2>2. executed' = Append(executed, r)
    BY <1>1, <1>2, <1>5
  <2>3. Len(executed') = N + 1 /\ executed'[N + 1] = r
    BY <1>2, <1>3, <2>2, AppendIs
  <2>4. PICK l \in 1 .. Len(submitted) :
          /\ submitted[l] = r
          /\ \A y \in 1 .. x - 1 : \E k \in 1 .. l - 1 : submitted[k] = log[i][y].op.req
    BY <1>2, <1>3 DEF LogsInOrder
  <2>5. l \in Nat /\ l >= 1 /\ l <= Len(submitted)
    BY <1>3
  <2>6. executed' # <<>>
    BY <2>2, <1>2, <1>3, AppendProperties
  <2>7. LastExecuted' = l
    <3>1. l \in 1 .. Len(submitted') /\ submitted'[l] = executed'[Len(executed')]
      BY <1>1, <2>3, <2>4
    <3> QED BY <1>3, <2>6, <3>1, LastPlaceNext
  <2>8. PICK p \in Nat : p = LastExecuted
    BY <1>3, LastExists
  <2>9. p < l
    <3>1. CASE executed = <<>>
      BY <2>5, <2>8, <3>1, LastExists
    <3>2. CASE executed # <<>>
      <4>1. N \in 1 .. Len(executed) /\ N \in 1 .. x - 1
        BY <1>2, <1>3, <2>1, <3>2, EmptySeq
      <4>2. log[i][N].op.req = executed[N]
        <5>1. N <= commitIndex[i]
          <6>1. commitIndex[i] \in Nat
            BY <1>3 DEF LogTypes
          <6> QED BY <1>1, <2>1, <6>1
        <5> QED BY <4>1, <5>1, CommittedAgrees
      <4>3. PICK k \in 1 .. l - 1 : submitted[k] = log[i][N].op.req
        BY <2>4, <4>1
      <4>4. k \in 1 .. Len(submitted) /\ submitted[k] = executed[Len(executed)]
        BY <1>2, <1>3, <2>5, <4>2, <4>3
      <4>5. LastExecuted = k
        BY <1>3, <3>2, <4>4, LastPlace
      <4> QED BY <2>5, <2>8, <4>5
    <3> QED BY <3>1, <3>2
  <2>10. PICK f : f = Outstanding
    OBVIOUS
  <2>11. f = From(submitted, p)
    BY <2>8, <2>10 DEF Outstanding, From
  <2>12. p \in 0 .. Len(submitted) /\ l \in p .. Len(submitted)
    BY <1>3, <2>5, <2>9
  <2>13. Len(f) = Len(submitted) - p /\ \A k \in 1 .. Len(submitted) - p : f[k] = submitted[p + k]
    BY <1>3, <2>11, <2>12, FromIs
  <2>14. PICK k \in 1 .. Len(f) : k = l - p
    BY <1>3, <2>5, <2>8, <2>9, <2>13
  <2>15. f[k] = r
    <3>1. p + k = l
      BY <2>5, <2>8, <2>14
    <3> QED BY <2>4, <2>13, <2>14, <3>1
  <2>16. Outstanding' = From(submitted, l)
    BY <1>1, <2>7 DEF Outstanding, From
  <2>17. From(f, k) = From(submitted, l)
    BY <1>3, <2>11, <2>12, <2>14, FromFrom
  <2>18. outcome[r].err # "ErrWrongLeader"
    <3> SUFFICES ASSUME outcome[r].err = "ErrWrongLeader" PROVE FALSE
      OBVIOUS
    <3>1. Refused(r)
      BY <1>3 DEF Refusals
    <3>2. x <= N
      BY <1>2, <3>1 DEF Refused
    <3> QED BY <1>2, <2>1, <3>2
  <2>19. [q \in Request |-> outcome[q].err][Outstanding[k]] # "ErrWrongLeader"
    BY <2>10, <2>15, <2>18
  <2>20. executed' = Append(executed, Outstanding[k])
    BY <2>2, <2>10, <2>15
  <2>21. Outstanding' = SubSeq(Outstanding, k + 1, Len(Outstanding))
    BY <2>10, <2>16, <2>17 DEF From
  <2>22. [q \in Request |-> outcome[q].err]' = [q \in Request |-> outcome[q].err]
    BY <1>1
  <2>23. Promise!Execute(k)
    BY <2>19, <2>20, <2>21, <2>22 DEF Promise!Execute
  <2> QED BY <2>10, <2>14, <2>23
<1> QED BY <1>4, <1>5

-----------------------------------------------------------------------------
(* Submit, which adds to what is in the logs and to what is in order.      *)

\* What a Submit on the leader does, to the logs and to the calls.
Submits(c, i, r, x, op) ==
  /\ r[1] = c /\ r[2] = call[c].n + 1 /\ call[c].at = "idle"
  /\ op.me = i /\ op.req = r
  /\ call'[c].at = "waiting" /\ call'[c].n = r[2] /\ call'[c].on = i /\ call'[c].index = x
  /\ call'[c].id = op.id /\ call'[c].channel = None
  /\ \A d \in Caller : d # c => call'[d] = call[d]
  /\ submitted' = Append(submitted, r) /\ UNCHANGED <<executed, outcome>>
  /\ x = Len(log[i]) + 1 /\ Len(log'[i]) = x
  /\ \A k \in Server : \A z \in 1 .. Len(log'[k]) :
       \/ z \in 1 .. Len(log[k]) /\ log'[k][z] = log[k][z]
       \/ k = i /\ z = x /\ log'[k][z].op = op

LEMMA SubmitFacts ==
  ASSUME ServersInv, NEW c \in Caller, NEW i \in Server, Submit(c, i)
  PROVE  \E r \in Request, x \in Nat, op \in Ops : r = <<c, call[c].n + 1>> /\ Submits(c, i, r, x, op)
<1>0. CallTypes /\ LogTypes /\ \A d \in Caller : call[d].n \in Nat
  BY InvGives, CallTypesGive
<1>1. PICK n \in 1 .. MaxSubmits, x \in 1 .. MaxLog :
        /\ n = call[c].n + 1 /\ x = Len(log[i]) + 1 /\ call[c].at = "idle"
        /\ call' = [call EXCEPT ![c] = Called(n, i, x, term[i], opId[i])]
        /\ submitted' = Append(submitted, <<c, n>>) /\ <<c, n>> \in Request
        /\ Accepts(i, [me |-> i, id |-> opId[i], req |-> <<c, n>>])
        /\ [me |-> i, id |-> opId[i], req |-> <<c, n>>] \in Ops
  BY <1>0, SubmitCalls
<1>2. PICK op \in Ops : op = [me |-> i, id |-> opId[i], req |-> <<c, n>>]
  BY <1>1
<1>3. PICK r \in Request : r = <<c, n>>
  BY <1>1
<1>4. op.me = i /\ op.req = r /\ op.id = opId[i] /\ r[1] = c /\ r[2] = n
  BY <1>2, <1>3
<1>5. /\ log'[i] = Append(log[i], [term |-> term[i], op |-> op])
      /\ \A k \in Server : k # i => log'[k] = log[k]
      /\ log[i] \in Seq(Entry) /\ [term |-> term[i], op |-> op] \in Entry
  <2>1. AppendEntry(i, op) /\ leader[i] /\ term[i] \in Nat
    BY <1>0, <1>1, <1>2, LogNumbers DEF Accepts
  <2> QED BY <1>0, <2>1 DEF AppendEntry, LogTypes, Entry
<1>6. /\ Len(log'[i]) = x /\ Len(log[i]) \in Nat /\ x \in Nat
      /\ \A z \in 1 .. Len(log[i]) : log'[i][z] = log[i][z]
      /\ log'[i][x].op = op
  <2>1. log'[i][x] = [term |-> term[i], op |-> op] /\ Len(log'[i]) = x
        /\ \A z \in 1 .. Len(log[i]) : log'[i][z] = log[i][z]
    BY <1>1, <1>5, AppendIs
  <2> QED BY <1>0, <1>1, <2>1, LogNumbers
<1>7. \A k \in Server : \A z \in 1 .. Len(log'[k]) :
       \/ z \in 1 .. Len(log[k]) /\ log'[k][z] = log[k][z]
       \/ k = i /\ z = x /\ log'[k][z].op = op
  <2> SUFFICES ASSUME NEW k \in Server, NEW z \in 1 .. Len(log'[k]), ~(k = i /\ z = x)
               PROVE  z \in 1 .. Len(log[k]) /\ log'[k][z] = log[k][z]
    BY <1>6
  <2>1. CASE k = i
    <3>1. z \in 1 .. Len(log[i])
      BY <1>1, <1>6, <2>1
    <3> QED BY <1>6, <2>1, <3>1
  <2>2. CASE k # i
    BY <1>5, <2>2
  <2> QED BY <2>1, <2>2
<1>8. /\ call'[c].at = "waiting" /\ call'[c].n = n /\ call'[c].on = i /\ call'[c].index = x
      /\ call'[c].id = opId[i] /\ call'[c].channel = None
      /\ \A d \in Caller : d # c => call'[d] = call[d]
  BY <1>0, <1>1 DEF Called, CallTypes
<1>9. UNCHANGED <<executed, outcome>>
  BY DEF Submit, Proposes
<1>10. Submits(c, i, r, x, op)
  BY <1>1, <1>3, <1>4, <1>6, <1>7, <1>8, <1>9 DEF Submits
<1> QED BY <1>1, <1>3, <1>6, <1>10

LEMMA SubmittedGrows ==
  ASSUME CallTypes, NEW r \in Request, submitted' = Append(submitted, r)
  PROVE  /\ Len(submitted') = Len(submitted) + 1 /\ submitted'[Len(submitted) + 1] = r
         /\ Len(submitted) \in Nat
         /\ \A k \in 1 .. Len(submitted) : k \in 1 .. Len(submitted') /\ submitted'[k] = submitted[k]
<1>1. submitted \in Seq(Request) /\ Len(submitted) \in Nat
  BY SubmittedTyped
<1>2. /\ Len(submitted') = Len(submitted) + 1 /\ submitted'[Len(submitted) + 1] = r
      /\ \A k \in 1 .. Len(submitted) : submitted'[k] = submitted[k]
  BY <1>1, AppendIs
<1> QED BY <1>1, <1>2

LEMMA SubmitOrder ==
  ASSUME ServersInv, ServersInv', OrderInv, NEW c \in Caller, NEW i \in Server, Submit(c, i)
  PROVE  OrderInv'
<1>0. /\ CallTypes /\ CallTypes' /\ LogTypes /\ LogTypes' /\ LogsAsked
      /\ \A d \in Caller : call[d].n \in Nat
  BY InvGives, InvGivesNext, CallTypesGive
<1>1. PICK r \in Request, x \in Nat, op \in Ops : r = <<c, call[c].n + 1>> /\ Submits(c, i, r, x, op)
  BY SubmitFacts
<1>2. PICK N \in Nat : N = Len(submitted)
  BY <1>0, SubmittedTyped
<1>3. /\ Len(submitted') = N + 1 /\ submitted'[N + 1] = r
      /\ \A k \in 1 .. N : submitted'[k] = submitted[k]
  BY <1>0, <1>1, <1>2, SubmittedGrows DEF Submits
<1>4. \A d \in Caller : call'[d].n = (IF d = c THEN r[2] ELSE call[d].n) /\ call'[d].n >= call[d].n
                        /\ call'[d].n \in Nat
  BY <1>0, <1>1 DEF Submits
<1>5. r[1] = c /\ r[2] \in Nat /\ r[2] > call[r[1]].n /\ r[2] = call[c].n + 1
  BY <1>0, <1>1 DEF Submits
<1>6. /\ ~Promise!InSeq(r, executed)
      /\ \A k \in Server : \A z \in 1 .. Len(log[k]) : log[k][z].op.req # r
  BY <1>5, UnaskedIsRefused
<1>7. \A k \in Server : \A z \in 1 .. Len(log'[k]) :
       \/ z \in 1 .. Len(log[k]) /\ log'[k][z] = log[k][z]
       \/ k = i /\ z = x /\ log'[k][z].op = op
  BY <1>1 DEF Submits
<1>8. op.req = r /\ op.me = i
  BY <1>1 DEF Submits
<1>9. SubmittedOnce'
  <2>1. \A k \in 1 .. N : submitted[k] # r /\ submitted[k][2] <= call'[submitted[k][1]].n
    <3> TAKE k \in 1 .. N
    <3>1. PICK d \in Caller, m \in Nat : d = submitted[k][1] /\ m = submitted[k][2]
      BY <1>0, <1>2, SubmittedTyped
    <3>2. m <= call[d].n
      BY <1>2, <3>1 DEF OrderInv, SubmittedOnce
    <3>3. m <= call'[d].n
      BY <1>0, <1>4, <3>2
    <3>4. submitted[k] # r
      <4> SUFFICES ASSUME submitted[k] = r PROVE FALSE
        OBVIOUS
      <4>1. d = c /\ m = r[2]
        BY <1>5, <3>1
      <4> QED BY <1>0, <1>5, <3>2, <4>1
    <3> QED BY <3>1, <3>3, <3>4
  <2>2. \A k \in 1 .. N + 1 : k \in 1 .. N \/ k = N + 1
    OBVIOUS
  <2>3. \A k, l \in 1 .. N : submitted[k] = submitted[l] => k = l
    BY <1>2 DEF OrderInv, SubmittedOnce
  <2>4. \A k, l \in 1 .. N + 1 : submitted'[k] = submitted'[l] => k = l
    BY <1>3, <2>1, <2>2, <2>3
  <2>5. \A k \in 1 .. N + 1 : submitted'[k][2] <= call'[submitted'[k][1]].n
    <3> TAKE k \in 1 .. N + 1
    <3>1. CASE k \in 1 .. N
      BY <1>3, <2>1, <3>1
    <3>2. CASE k = N + 1
      <4>1. r[2] <= call'[r[1]].n
        BY <1>4, <1>5
      <4> QED BY <1>3, <3>2, <4>1
    <3> QED BY <2>2, <3>1, <3>2
  <2> QED BY <1>3, <2>4, <2>5 DEF SubmittedOnce
<1>10. LogsInOrder'
  <2> SUFFICES ASSUME NEW k \in Server, NEW y \in 1 .. Len(log'[k])
               PROVE  \E l \in 1 .. Len(submitted') :
                        /\ submitted'[l] = log'[k][y].op.req
                        /\ \A z \in 1 .. y - 1 : \E j \in 1 .. l - 1 : submitted'[j] = log'[k][z].op.req
    BY DEF LogsInOrder
  <2>1. Len(log'[k]) \in Nat /\ Len(log[k]) \in Nat /\ Len(log[i]) \in Nat /\ x = Len(log[i]) + 1
        /\ Len(log'[i]) = x
    BY <1>0, <1>1, LogNumbers, LogNumbersNext DEF Submits
  <2>2. \A z \in 1 .. y - 1 : z \in 1 .. Len(log[k]) /\ log'[k][z] = log[k][z]
    <3> TAKE z \in 1 .. y - 1
    <3>1. z \in 1 .. Len(log'[k]) /\ z < y /\ y <= Len(log'[k])
      BY <2>1
    <3>2. ~(k = i /\ z = x)
      BY <2>1, <3>1
    <3> QED BY <1>7, <3>1, <3>2
  <2>3. ASSUME y \in 1 .. Len(log[k]) /\ log'[k][y] = log[k][y]
        PROVE  \E l \in 1 .. N + 1 :
                 /\ submitted'[l] = log'[k][y].op.req
                 /\ \A z \in 1 .. y - 1 : \E j \in 1 .. l - 1 : submitted'[j] = log'[k][z].op.req
    <3>1. PICK l \in 1 .. N :
            /\ submitted[l] = log[k][y].op.req
            /\ \A z \in 1 .. y - 1 : \E j \in 1 .. l - 1 : submitted[j] = log[k][z].op.req
      BY <1>2, <2>3 DEF OrderInv, LogsInOrder
    <3>2. l \in 1 .. N + 1 /\ \A j \in 1 .. l - 1 : j \in 1 .. N
      OBVIOUS
    <3>3. submitted'[l] = log'[k][y].op.req
      BY <1>3, <2>3, <3>1
    <3>4. \A z \in 1 .. y - 1 : \E j \in 1 .. l - 1 : submitted'[j] = log'[k][z].op.req
      <4> TAKE z \in 1 .. y - 1
      <4>1. PICK j \in 1 .. l - 1 : submitted[j] = log[k][z].op.req
        BY <3>1
      <4>2. submitted'[j] = log'[k][z].op.req
        BY <1>3, <2>2, <3>2, <4>1
      <4> QED BY <4>2
    <3> QED BY <3>2, <3>3, <3>4
  <2>4. ASSUME k = i /\ y = x /\ log'[k][y].op = op
        PROVE  \E l \in 1 .. N + 1 :
                 /\ submitted'[l] = log'[k][y].op.req
                 /\ \A z \in 1 .. y - 1 : \E j \in 1 .. l - 1 : submitted'[j] = log'[k][z].op.req
    <3>1. submitted'[N + 1] = log'[k][y].op.req /\ N + 1 \in 1 .. N + 1 /\ (N + 1) - 1 = N
      BY <1>3, <1>8, <2>4
    <3>2. \A z \in 1 .. y - 1 : \E j \in 1 .. N : submitted'[j] = log'[k][z].op.req
      <4> TAKE z \in 1 .. y - 1
      <4>1. PICK j \in 1 .. N : submitted[j] = log[k][z].op.req
        BY <1>2, <2>2 DEF OrderInv, LogsInOrder
      <4>2. submitted'[j] = log'[k][z].op.req
        BY <1>3, <2>2, <4>1
      <4> QED BY <4>2
    <3> QED BY <3>1, <3>2
  <2>5. \E l \in 1 .. N + 1 :
          /\ submitted'[l] = log'[k][y].op.req
          /\ \A z \in 1 .. y - 1 : \E j \in 1 .. l - 1 : submitted'[j] = log'[k][z].op.req
    BY <1>7, <2>3, <2>4
  <2>6. 1 .. Len(submitted') = 1 .. N + 1
    BY <1>3
  <2> QED BY <2>5, <2>6
<1>11. OutcomesOfCalls'
  <2>1. outcome' = outcome /\ call'[c].n = r[2] /\ \A d \in Caller : d # c => call'[d] = call[d]
    BY <1>1 DEF Submits
  <2> SUFFICES ASSUME NEW d \in Caller
               PROVE  /\ \A m \in 1 .. MaxSubmits : m > call'[d].n => outcome[<<d, m>>].err = "none"
                      /\ call'[d].at = "waiting" => outcome[<<d, call'[d].n>>].err = "none"
    BY <2>1 DEF OutcomesOfCalls, Req
  <2>2. CASE d = c
    <3>1. r[2] \in 1 .. MaxSubmits
      BY <1>1 DEF Request
    <3>2. \A m \in 1 .. MaxSubmits : m >= r[2] => outcome[<<c, m>>].err = "none"
      <4> SUFFICES ASSUME NEW m \in 1 .. MaxSubmits, m >= r[2] PROVE outcome[<<c, m>>].err = "none"
        OBVIOUS
      <4>1. m > call[c].n
        BY <1>0, <1>5
      <4> QED BY <4>1 DEF OrderInv, OutcomesOfCalls
    <3>3. \A m \in 1 .. MaxSubmits : m > r[2] => m >= r[2]
      BY <1>5
    <3>4. r[2] >= r[2]
      BY <1>5
    <3> QED BY <2>1, <2>2, <3>1, <3>2, <3>3, <3>4
  <2>3. CASE d # c
    BY <2>1, <2>3 DEF OrderInv, OutcomesOfCalls, Req
  <2> QED BY <2>2, <2>3
<1>12. LoggedAsCalled'
  <2> SUFFICES ASSUME NEW d \in Caller, call'[d].at = "waiting", NEW k \in Server,
                      NEW z \in 1 .. Len(log'[k]), log'[k][z].op.req = <<d, call'[d].n>>
               PROVE  z = call'[d].index /\ log'[k][z].op.me = call'[d].on /\ log'[k][z].op.id = call'[d].id
    BY DEF LoggedAsCalled, Req
  <2>1. CASE d = c
    <3>1. /\ call'[c].n = r[2] /\ call'[c].on = i /\ call'[c].index = x /\ call'[c].id = op.id
          /\ r = <<c, r[2]>>
      BY <1>1, <1>5 DEF Submits
    <3>2. log'[k][z].op.req = r
      BY <2>1, <3>1
    <3>3. k = i /\ z = x /\ log'[k][z].op = op
      BY <1>6, <1>7, <3>2
    <3> QED BY <1>8, <2>1, <3>1, <3>3
  <2>2. CASE d # c
    <3>1. call'[d] = call[d]
      BY <1>1, <2>2 DEF Submits
    <3>2. log'[k][z].op.req # r
      BY <1>5, <2>2
    <3>3. z \in 1 .. Len(log[k]) /\ log'[k][z] = log[k][z]
      BY <1>7, <1>8, <3>2
    <3>4. log[k][z].op.req = Req(d) /\ call[d].at = "waiting"
      BY <3>1, <3>3 DEF Req
    <3>5. z = call[d].index /\ log[k][z].op.me = call[d].on /\ log[k][z].op.id = call[d].id
      BY <3>3, <3>4 DEF OrderInv, LoggedAsCalled
    <3> QED BY <3>1, <3>3, <3>5
  <2> QED BY <2>1, <2>2
<1>13. ChannelsExecuted'
  <2> SUFFICES ASSUME NEW d \in Caller, call'[d].at = "waiting", call'[d].channel # None
               PROVE  /\ call'[d].index \in 1 .. Len(executed')
                      /\ executed'[call'[d].index] = call'[d].channel.req
                      /\ call'[d].channel.req = Req(d)' => Own(d)'
    BY DEF ChannelsExecuted
  <2>1. d # c /\ call'[d] = call[d] /\ executed' = executed
    BY <1>1 DEF Submits
  <2>2. (Req(d)' = Req(d)) /\ (Own(d)' <=> Own(d))
    BY <2>1 DEF Req, Own
  <2>3. /\ call[d].index \in 1 .. Len(executed)
        /\ executed[call[d].index] = call[d].channel.req
        /\ call[d].channel.req = Req(d) => Own(d)
    BY <2>1 DEF OrderInv, ChannelsExecuted
  <2> QED BY <2>1, <2>2, <2>3
<1>14. Refusals'
  <2> SUFFICES ASSUME NEW q \in Request, outcome'[q].err = "ErrWrongLeader" PROVE Refused(q)'
    BY DEF Refusals
  <2>1. outcome' = outcome /\ executed' = executed
    BY <1>1 DEF Submits
  <2>2. Refused(q)
    BY <2>1 DEF OrderInv, Refusals
  <2>3. q[1] \in Caller /\ q[2] \in Nat
    BY CallerAssumption DEF Request
  <2>4. q[2] <= call'[q[1]].n
    <3>1. PICK d \in Caller, m \in Nat : d = q[1] /\ m = q[2]
      BY <2>3
    <3>2. m <= call[d].n
      BY <2>2, <3>1 DEF Refused
    <3>3. m <= call'[d].n
      BY <1>0, <1>4, <3>2
    <3> QED BY <3>1, <3>3
  <2>5. q # r
    <3> SUFFICES ASSUME q = r PROVE FALSE
      OBVIOUS
    <3>1. r[2] <= call[r[1]].n
      BY <2>2 DEF Refused
    <3> QED BY <1>0, <1>5, <3>1
  <2>6. \A k \in Server : \A z \in 1 .. Len(log'[k]) : log'[k][z].op.req = q => z <= Len(executed)
    BY <1>7, <1>8, <2>2, <2>5 DEF Refused
  <2> QED BY <2>1, <2>2, <2>4, <2>6 DEF Refused, Promise!InSeq
<1> QED BY <1>9, <1>10, <1>11, <1>12, <1>13, <1>14 DEF OrderInv

-----------------------------------------------------------------------------
(* Every step of RSM is one of Submission, or nothing to it.               *)

Answers == [q \in Request |-> outcome[q].err]

\* Nothing that Submission sees has changed.
LEMMA StutterMaps ==
  ASSUME ServersInv, OrderInv, OrderInv', UNCHANGED <<submitted, executed, outcome>>
  PROVE  UNCHANGED Promise!subvars
<1>1. LastExecuted' = LastExecuted
  BY LastStays
<1>2. Outstanding' = Outstanding
  BY <1>1 DEF Outstanding
<1>3. Answers' = Answers
  BY DEF Answers
<1> QED BY <1>2, <1>3 DEF Promise!subvars, Answers

\* What is outstanding has been submitted, and not what has yet to be.
LEMMA OutstandingSubmitted ==
  ASSUME ServersInv, OrderInv, NEW k \in 1 .. Len(Outstanding)
  PROVE  \E l \in 1 .. Len(submitted) : Outstanding[k] = submitted[l]
<1>1. PICK p \in 0 .. Len(submitted) : p = LastExecuted
  BY LastExists
<1>2. submitted \in Seq(Request) /\ Len(submitted) \in Nat
  BY InvGives, SubmittedTyped
<1>3. Len(Outstanding) = Len(submitted) - p
      /\ \A j \in 1 .. Len(submitted) - p : Outstanding[j] = submitted[p + j]
  <2>1. Outstanding = From(submitted, p)
    BY <1>1 DEF Outstanding, From
  <2> QED BY <1>2, <2>1, FromIs
<1>4. k \in 1 .. Len(submitted) - p /\ p + k \in 1 .. Len(submitted)
  BY <1>2, <1>3
<1> QED BY <1>3, <1>4

LEMMA SubmitMaps ==
  ASSUME ServersInv, ServersInv', OrderInv, OrderInv', NEW c \in Caller, NEW i \in Server, Submit(c, i)
  PROVE  \E r \in Request : Promise!Submit(r)
<1>0. CallTypes /\ \A d \in Caller : call[d].n \in Nat
  BY InvGives, CallTypesGive
<1>1. PICK r \in Request, x \in Nat, op \in Ops : r = <<c, call[c].n + 1>> /\ Submits(c, i, r, x, op)
  BY SubmitFacts
<1>2. /\ r[1] = c /\ r[2] = call[c].n + 1
      /\ submitted' = Append(submitted, r) /\ UNCHANGED <<executed, outcome>>
  BY <1>1 DEF Submits
<1>3. r[2] > call[r[1]].n /\ r[2] \in 1 .. MaxSubmits /\ r[2] > call[c].n
  BY <1>0, <1>2 DEF Request
<1>4. ~Promise!InSeq(r, executed)
  BY <1>3, UnaskedIsRefused
<1>5. ~Promise!InSeq(r, Outstanding)
  <2> SUFFICES ASSUME NEW k \in 1 .. Len(Outstanding), Outstanding[k] = r PROVE FALSE
    BY DEF Promise!InSeq
  <2>1. PICK l \in 1 .. Len(submitted) : submitted[l] = r
    BY OutstandingSubmitted
  <2>2. r[2] <= call[r[1]].n
    BY <2>1 DEF OrderInv, SubmittedOnce
  <2> QED BY <1>0, <1>2, <1>3, <2>2
<1>6. outcome[r].err = "none"
  BY <1>1, <1>3 DEF OrderInv, OutcomesOfCalls
<1>7. Promise!Unknown(r)
  BY <1>4, <1>5, <1>6 DEF Promise!Unknown
<1>8. PICK p \in 0 .. Len(submitted) : p = LastExecuted
  BY LastExists
<1>9. LastExecuted' = p
  <2>1. \A k \in 1 .. Len(submitted) : k \in 1 .. Len(submitted') /\ submitted'[k] = submitted[k]
    BY <1>0, <1>2, SubmittedGrows
  <2> QED BY <1>2, <1>8, <2>1, LastStays
<1>10. Outstanding' = Append(Outstanding, r)
  <2>1. submitted \in Seq(Request)
    BY <1>0, SubmittedTyped
  <2>2. From(Append(submitted, r), p) = Append(From(submitted, p), r)
    BY <2>1, FromAppend
  <2>3. Outstanding = From(submitted, p)
    BY <1>8 DEF Outstanding, From
  <2>4. Outstanding' = From(Append(submitted, r), p)
    BY <1>2, <1>9 DEF Outstanding, From
  <2> QED BY <2>2, <2>3, <2>4
<1>11. Answers' = Answers
  BY <1>2 DEF Answers
<1>12. Promise!Submit(r)
  BY <1>2, <1>7, <1>10, <1>11 DEF Promise!Submit, Answers
<1> QED BY <1>12

\* A Submit that returns keeps what Submission promises of its answer.
LEMMA AnswerMaps ==
  ASSUME ServersInv, OrderInv, OrderInv', UNCHANGED <<submitted, executed>>,
         NEW r \in Request, NEW err \in {"OK", "ErrWrongLeader", "ErrMaybe"},
         outcome[r].err = "none",
         \A q \in Request : outcome'[q].err = IF q = r THEN err ELSE outcome[q].err,
         err = "OK" => Promise!InSeq(r, executed)
  PROVE  \E q \in Request : \E e \in {"OK", "ErrWrongLeader", "ErrMaybe"} : Promise!Return(q, e)
<1>1. LastExecuted' = LastExecuted
  BY LastStays
<1>2. Outstanding' = Outstanding
  BY <1>1 DEF Outstanding
<1>3. Answers' = [Answers EXCEPT ![r] = err]
  <2>1. \A q \in Request : Answers'[q] = [Answers EXCEPT ![r] = err][q]
    BY DEF Answers
  <2>2. Answers' = [q \in Request |-> Answers'[q]]
    BY DEF Answers
  <2>3. [Answers EXCEPT ![r] = err] = [q \in Request |-> [Answers EXCEPT ![r] = err][q]]
    BY DEF Answers
  <2> QED BY <2>1, <2>2, <2>3
<1>4. Answers[r] = "none"
  BY DEF Answers
<1>5. err = "ErrWrongLeader" => ~Promise!InSeq(r, executed)
  <2> SUFFICES ASSUME err = "ErrWrongLeader" PROVE ~Promise!InSeq(r, executed)
    OBVIOUS
  <2>1. Refused(r)'
    BY DEF OrderInv, Refusals
  <2> QED BY <2>1 DEF Refused, Promise!InSeq
<1>6. Promise!Return(r, err)
  BY <1>2, <1>3, <1>4, <1>5 DEF Promise!Return, Answers
<1> QED BY <1>6

\* What Receive and GiveUp return, and what they know then.
LEMMA ReturnsWell ==
  ASSUME ServersInv, AnswersInv, OrderInv, NEW c \in Caller, Receive(c) \/ GiveUp(c)
  PROVE  \E err \in {"OK", "ErrWrongLeader", "ErrMaybe"}, result \in Request \cup {None} :
           /\ ReturnsWith(c, err, result)
           /\ err = "OK" => Promise!InSeq(Req(c), executed)
           /\ err = "ErrWrongLeader" => Refused(Req(c))
<1>1. CASE Receive(c)
  <2>1. PICK op \in Ops : op = call[c].channel
    BY <1>1, InvGives, CallTypesGive DEF Receive
  <2>2. /\ call[c].at = "waiting" /\ call[c].channel # None /\ op.req \in Request
        /\ Returning(c) /\ UNCHANGED <<group, rsm, history>>
    BY <1>1, <2>1 DEF Receive, Ops
  <2>3. CASE Own(c)
    <3>1. Outcome(c, "OK", op.req)
      BY <1>1, <2>1, <2>3 DEF Receive
    <3>2. op.req = Req(c)
      <4>1. Known(op) /\ op.me = call[c].on /\ op.id = call[c].id
        BY <2>1, <2>2, <2>3 DEF Known, Own
      <4> QED BY <2>2, <4>1 DEF AnswersInv, IdsOwn
    <3>3. Promise!InSeq(Req(c), executed)
      <4>1. call[c].index \in 1 .. Len(executed) /\ executed[call[c].index] = Req(c)
        BY <2>1, <2>2, <3>2 DEF OrderInv, ChannelsExecuted
      <4> QED BY <4>1 DEF Promise!InSeq
    <3>4. ReturnsWith(c, "OK", op.req)
      BY <2>2, <3>1 DEF ReturnsWith, Errors
    <3> QED BY <2>2, <3>3, <3>4
  <2>4. CASE ~Own(c)
    <3>1. Outcome(c, "ErrWrongLeader", None)
      BY <1>1, <2>4 DEF Receive
    <3>2. ReturnsWith(c, "ErrWrongLeader", None)
      BY <2>2, <3>1 DEF ReturnsWith, Errors
    <3>3. Refused(Req(c))
      BY <2>2, <2>4, NotOwnIsRefused
    <3> QED BY <3>2, <3>3
  <2> QED BY <2>3, <2>4
<1>2. CASE GiveUp(c)
  <2>1. ReturnsWith(c, "ErrMaybe", None)
    BY <1>2 DEF GiveUp, GivesUp, ReturnsWith, Errors
  <2> QED BY <2>1
<1> QED BY <1>1, <1>2

LEMMA ReturnStep ==
  ASSUME ServersInv, ServersInv', AnswersInv, OrderInv, NEW c \in Caller, Receive(c) \/ GiveUp(c)
  PROVE  /\ OrderInv'
         /\ \E q \in Request : \E e \in {"OK", "ErrWrongLeader", "ErrMaybe"} : Promise!Return(q, e)
<1>1. PICK err \in {"OK", "ErrWrongLeader", "ErrMaybe"}, result \in Request \cup {None} :
        /\ ReturnsWith(c, err, result)
        /\ err = "OK" => Promise!InSeq(Req(c), executed)
        /\ err = "ErrWrongLeader" => Refused(Req(c))
  BY ReturnsWell
<1>2. /\ OrderInv' /\ UNCHANGED <<submitted, executed>> /\ Req(c) \in Request
      /\ \A q \in Request : outcome'[q].err = IF q = Req(c) THEN err ELSE outcome[q].err
  BY <1>1, ReturnOrder
<1>3. outcome[Req(c)].err = "none"
  BY <1>1 DEF ReturnsWith, OrderInv, OutcomesOfCalls
<1>4. PICK r \in Request : r = Req(c)
  BY <1>2
<1> QED BY <1>1, <1>2, <1>3, <1>4, AnswerMaps

LEMMA SubmitElsewhereMaps ==
  ASSUME ServersInv, OrderInv, OrderInv', NEW c \in Caller, NEW i \in Server, SubmitElsewhere(c, i)
  PROVE  \E q \in Request : \E e \in {"OK", "ErrWrongLeader", "ErrMaybe"} : Promise!Return(q, e)
<1>1. PICK n \in 1 .. MaxSubmits : n = call[c].n + 1 /\ n > call[c].n
  <2>1. call[c].n \in Nat /\ MaxSubmits \in Nat /\ call[c].n < MaxSubmits
    BY InvGives, CallTypesGive DEF SubmitElsewhere, Proposes
  <2>2. call[c].n + 1 \in 1 .. MaxSubmits /\ call[c].n + 1 > call[c].n
    BY <2>1
  <2> QED BY <2>2
<1>2. PICK r \in Request : r = <<c, n>>
  BY DEF Request
<1>3. \A q \in Request : outcome'[q].err = IF q = r THEN "ErrWrongLeader" ELSE outcome[q].err
  <2>1. outcome' = [outcome EXCEPT ![r] = [outcome[r] EXCEPT !.err = "ErrWrongLeader"]]
    BY <1>1, <1>2 DEF SubmitElsewhere
  <2>2. outcome \in [Request -> [err : Errors, result : Request \cup {None}]]
    BY InvGives DEF CallTypes
  <2>3. [outcome[r] EXCEPT !.err = "ErrWrongLeader"].err = "ErrWrongLeader"
    BY <2>2
  <2> QED BY <2>1, <2>2, <2>3
<1>4. UNCHANGED <<submitted, executed>>
  BY DEF SubmitElsewhere, Proposes
<1>5. outcome[r].err = "none"
  BY <1>1, <1>2 DEF OrderInv, OutcomesOfCalls
<1> QED BY <1>3, <1>4, <1>5, AnswerMaps

LEMMA OrderStarts ==
  ASSUME Init
  PROVE  OrderInv /\ Promise!Init
<1>1. /\ submitted = <<>> /\ executed = <<>> /\ outcome = [r \in Request |-> Unreturned]
      /\ call = [c \in Caller |-> NoCall(0)] /\ \A i \in Server : log[i] = <<>>
  BY DEF Init, GroupInit
<1>2. Len(submitted) = 0 /\ Len(executed) = 0 /\ \A i \in Server : Len(log[i]) = 0
  BY <1>1
<1>3. \A c \in Caller : call[c].at = "idle"
  BY <1>1 DEF NoCall
<1>4. \A r \in Request : outcome[r].err = "none"
  BY <1>1 DEF Unreturned
<1>5. SubmittedOnce
  BY <1>2 DEF SubmittedOnce
<1>6. LogsInOrder
  <2> SUFFICES ASSUME NEW i \in Server, NEW y \in 1 .. Len(log[i]) PROVE FALSE
    BY DEF LogsInOrder
  <2> QED BY <1>2
<1>7. OutcomesOfCalls
  BY <1>3, <1>4 DEF OutcomesOfCalls, Request
<1>8. LoggedAsCalled /\ ChannelsExecuted /\ Refusals
  BY <1>3, <1>4 DEF LoggedAsCalled, ChannelsExecuted, Refusals
<1>9. Outstanding = <<>>
  <2>1. LastExecuted = 0
    BY <1>1 DEF LastExecuted
  <2>2. Outstanding = SubSeq(<<>>, 1, 0)
    BY <1>1, <2>1 DEF Outstanding
  <2> QED BY <2>2
<1>10. [r \in Request |-> outcome[r].err] = [r \in Request |-> "none"]
  BY <1>4
<1> QED BY <1>1, <1>5, <1>6, <1>7, <1>8, <1>9, <1>10 DEF OrderInv, Promise!Init

LEMMA OrderStep ==
  ASSUME ServersInv, ServersInv', AnswersInv, OrderInv, [Next]_vars, Restartable = {}
  PROVE  OrderInv' /\ [Promise!Next]_(Promise!subvars)
<1>1. CASE GroupNext /\ UNCHANGED <<rsm, call, outcome, history>>
  <2>1. UNCHANGED <<submitted, executed, call, outcome>>
    BY <1>1 DEF history
  <2>2. Inherited
    BY <1>1, InvGives, GroupInherits
  <2> QED BY <2>1, <2>2, SameCallsOrder, StutterMaps
<1>2. ASSUME NEW i \in Server, Reader(i) PROVE OrderInv' /\ [Promise!Next]_(Promise!subvars)
  <2>1. OrderInv'
    BY <1>2, ReaderOrder
  <2>2. (\E k \in 1 .. Len(Outstanding) : Promise!Execute(k)) \/ UNCHANGED Promise!subvars
    BY <1>2, <2>1, ReaderMaps
  <2> QED BY <2>1, <2>2 DEF Promise!Next
<1>3. ASSUME NEW c \in Caller, NEW i \in Server, Submit(c, i)
      PROVE  OrderInv' /\ [Promise!Next]_(Promise!subvars)
  <2>1. OrderInv'
    BY <1>3, SubmitOrder
  <2>2. \E r \in Request : Promise!Submit(r)
    BY <1>3, <2>1, SubmitMaps
  <2> QED BY <2>1, <2>2 DEF Promise!Next
<1>4. ASSUME NEW c \in Caller, NEW i \in Server, SubmitElsewhere(c, i)
      PROVE  OrderInv' /\ [Promise!Next]_(Promise!subvars)
  <2>1. OrderInv'
    BY <1>4, SubmitElsewhereOrder
  <2>2. \E q \in Request : \E e \in {"OK", "ErrWrongLeader", "ErrMaybe"} : Promise!Return(q, e)
    BY <1>4, <2>1, SubmitElsewhereMaps
  <2> QED BY <2>1, <2>2 DEF Promise!Next
<1>5. ASSUME NEW c \in Caller, Receive(c) \/ GiveUp(c)
      PROVE  OrderInv' /\ [Promise!Next]_(Promise!subvars)
  <2>1. /\ OrderInv'
        /\ \E q \in Request : \E e \in {"OK", "ErrWrongLeader", "ErrMaybe"} : Promise!Return(q, e)
    BY <1>5, ReturnStep
  <2> QED BY <2>1 DEF Promise!Next
<1>6. ASSUME NEW c \in Caller, Leave(c) PROVE OrderInv' /\ [Promise!Next]_(Promise!subvars)
  <2>1. OrderInv'
    BY <1>6, LeaveOrder
  <2>2. UNCHANGED <<submitted, executed, outcome>>
    BY <1>6 DEF Leave, history
  <2> QED BY <2>1, <2>2, StutterMaps
<1>7. CASE UNCHANGED vars
  <2>1. UNCHANGED group /\ UNCHANGED <<submitted, executed, call, outcome>>
    BY <1>7 DEF vars, history
  <2>2. Inherited
    BY <2>1, InvGives, GroupInherits
  <2> QED BY <2>1, <2>2, SameCallsOrder, StutterMaps
<1> QED BY <1>1, <1>2, <1>3, <1>4, <1>5, <1>6, <1>7 DEF Next, Crash

-----------------------------------------------------------------------------
(* Theorems.                                                               *)

LEMMA ServersAlways == Spec => []ServersInv
<1>1. Init => ServersInv
  BY ServersStart
<1>2. ServersInv /\ [Next]_vars => ServersInv'
  <2> SUFFICES ASSUME ServersInv, [Next]_vars PROVE ServersInv'
    OBVIOUS
  <2>1. CASE Next
    BY <2>1, ServersStep
  <2>2. CASE UNCHANGED vars
    <3>1. /\ UNCHANGED <<term, leader, log, commitIndex, matchIndex>>
          /\ UNCHANGED <<opId, pending, applied, call, outcome, submitted, executed>>
      BY <2>2 DEF vars, group, rsm, history
    <3>2. GroupInv'
      <4>1. GroupInv /\ GroupSteps
        BY <3>1 DEF ServersInv, GroupSteps, group
      <4> QED BY <4>1, GroupKeeps
    <3>3. ExecutedIsSafe'
      <4>1. GroupInv /\ GroupSteps /\ ExecutedIsSafe
        BY <3>1 DEF ServersInv, GroupSteps, group
      <4> QED BY <3>1, <4>1, ExecutedStays
    <3>4. CallTypes' /\ InCall' /\ Registered'
      BY <3>1 DEF ServersInv, CallTypes, InCall, Registered
    <3>5. Sized' /\ LogsAsked' /\ LogsOnce' /\ ReadersFollow'
      BY <3>1 DEF ServersInv, Sized, LogsAsked, LogsOnce, ReadersFollow
    <3> QED BY <3>2, <3>3, <3>4, <3>5 DEF ServersInv
  <2> QED BY <2>1, <2>2
<1> QED BY <1>1, <1>2, PTL DEF Spec

LEMMA AnswersAlways ==
  ASSUME Restartable = {}
  PROVE  Spec => []AnswersInv
<1>1. Init => AnswersInv
  <2> SUFFICES ASSUME Init PROVE AnswersInv
    OBVIOUS
  <2>1. \A op : ~Known(op)
    BY DEF Init, GroupInit, NoCall, Known
  <2>2. \A c \in Caller : call[c].at = "idle"
    BY DEF Init, NoCall
  <2>3. \A r \in Request : outcome[r].err = "none"
    BY DEF Init, Unreturned
  <2> QED BY <2>1, <2>2, <2>3 DEF AnswersInv, IdsUsed, CallIdsUsed, IdsOwn, AnswersOwn
<1>2. AnswersInv /\ ServersInv /\ [Next]_vars => AnswersInv'
  <2> SUFFICES ASSUME AnswersInv, ServersInv, [Next]_vars PROVE AnswersInv'
    OBVIOUS
  <2>1. CASE Next
    BY <2>1, AnswersStep
  <2>2. CASE UNCHANGED vars
    BY <2>2 DEF vars, group, rsm, history, AnswersInv, IdsUsed, CallIdsUsed, IdsOwn, AnswersOwn,
                Known, Req
  <2> QED BY <2>1, <2>2
<1> QED BY <1>1, <1>2, ServersAlways, PTL DEF Spec

\* rsm.go: the variables keep their types, the group's logs stay within what is
\* committed and what there is room for, and whoever is registered at an index
\* (rsm.go:107) is in a Submit that waits, or has waited, there.
THEOREM RSMTypes == Spec => []TypeOK
<1>1. ServersInv => TypeOK
  <2> SUFFICES ASSUME ServersInv PROVE TypeOK
    OBVIOUS
  <2>1. GroupTypes /\ CallTypes /\ Registered
    BY GroupGives DEF ServersInv
  <2>2. call \in [Caller -> [at : {"idle", "waiting", "leaving"}, n : 0 .. MaxSubmits,
                             on : Server \cup {None}, index : 0 .. MaxLog, term : Nat,
                             id : Nat, channel : Ops \cup {None}]]
    BY <2>1 DEF CallTypes, Calls
  <2> QED BY <2>1, <2>2 DEF TypeOK, CallTypes, Registered
<1> QED BY <1>1, ServersAlways, PTL

\* rsm.go, reader() over raft.go: all servers execute the same operations in the
\* same order and none twice, whatever elections, delays and restarts there are.
THEOREM ServersExecuteAlike == Spec => []ReplicasAgree
<1>1. ServersInv => ReplicasAgree
  BY ServersAgree
<1> QED BY <1>1, ServersAlways, PTL

\* rsm.go, Submit(): an OK carries the result of the caller's own operation.  It
\* holds while no server restarts: rsm.opId is not persisted (rsm.go:74),
\* so a restarted server gives the ids of its first life again.
THEOREM AnswersAreOwn ==
  ASSUME Restartable = {}
  PROVE  Spec => []AnswersOwn
<1>1. AnswersInv => AnswersOwn
  BY DEF AnswersInv
<1> QED BY <1>1, AnswersAlways, PTL

\* rsm.go, Submit() and reader(): what Submission promises holds of the whole
\* group: operations are executed once and in the order of the calls of Submit, OK
\* means that the operation has been executed, and ErrWrongLeader that it never
\* will be.  It holds while no server restarts, as AnswersAreOwn does.
THEOREM KeepsThePromise ==
  ASSUME Restartable = {}
  PROVE  Spec => IsSubmission
<1>1. Init => OrderInv /\ Promise!Init
  BY OrderStarts
<1>2. ServersInv /\ ServersInv' /\ AnswersInv /\ OrderInv /\ [Next]_vars
        => OrderInv' /\ [Promise!Next]_(Promise!subvars)
  BY OrderStep
<1>3. Spec => []ServersInv
  BY ServersAlways
<1>4. Spec => []AnswersInv
  BY AnswersAlways
<1>5. Spec => Promise!Init /\ [][Promise!Next]_(Promise!subvars)
  BY <1>1, <1>2, <1>3, <1>4, PTL DEF Spec
<1> QED BY <1>5 DEF IsSubmission, Promise!Spec
=============================================================================
