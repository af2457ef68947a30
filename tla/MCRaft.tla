------------------------------- MODULE MCRaft -------------------------------
(***************************************************************************)
(* Instances of Raft for TLC.  Besides Raft's own Init there are three     *)
(* initial states reached by it that put the interesting part of a         *)
(* behaviour within reach of breadth-first search; MCRaftScenarios runs    *)
(* instances with two of them.                                             *)
(***************************************************************************)
EXTENDS Raft, TLC

CONSTANTS s1, s2, s3, c1

Symmetry == Permutations(Server) \cup Permutations(Command)
FollowerSymmetry == Permutations(Server \ {s1})

\* The state of a group whose volatile parts are those of Make(), given the
\* persisted terms, votes and logs and the elections held so far.
InitAt(terms, votes, roles, logs, elections) ==
  /\ currentTerm = terms /\ votedFor = votes /\ state = roles /\ log = logs
  /\ lastIncludedIndex = [i \in Server |-> 0]
  /\ lastIncludedTerm = [i \in Server |-> 0]
  /\ commitIndex = [i \in Server |-> 0]
  /\ nextIndex = [i \in Server |->
       [p \in Server |-> IF roles[i] = Leader THEN Len(logs[i]) ELSE 1]]
  /\ matchIndex = [i \in Server |-> [p \in Server |-> 0]]
  /\ persister = [i \in Server |-> Persisted(i, <<>>)]
  /\ electionCalls = [i \in Server |-> {}]
  /\ tally = [i \in Server |-> [e \in 1 .. MaxTerm |->
       IF <<i, e>> \in DOMAIN elections
       THEN [term |-> e, votes |-> elections[<<i, e>>]]
       ELSE [term |-> 0, votes |-> {}]]]
  /\ lastApplied = [i \in Server |-> 0]
  /\ snapshotPending = [i \in Server |-> NoPending]
  /\ applier = [i \in Server |-> Idle]
  /\ sm = [i \in Server |-> <<>>]
  /\ readerAt = [i \in Server |-> 0]
  /\ rpcs = {} /\ chosen = {}

\* s1 has just won the election of term 1; everyone granted, one reply has
\* been counted.
InitElected ==
  \E p \in Server \ {s1} :
    InitAt([i \in Server |-> 1], [i \in Server |-> s1],
           [i \in Server |-> IF i = s1 THEN Leader ELSE Follower],
           [i \in Server |-> InitialLog],
           (<<s1, 1>> :> {p}))

\* s1 led term 1 (vote of s2), s3 led term 2 (vote of s2); each appended one
\* command that reached nobody.  s1 has just been elected again, in term 3, by
\* s2; s3 heard of it and refused its vote.
InitDiverged ==
  \E c \in Command :
    InitAt([i \in Server |-> 3],
           [i \in Server |-> IF i = s3 THEN None ELSE s1],
           [i \in Server |-> IF i = s1 THEN Leader ELSE Follower],
           [i \in Server |->
              CASE i = s1 -> InitialLog \o <<[term |-> 1, command |-> c]>>
                [] i = s3 -> InitialLog \o <<[term |-> 2, command |-> c]>>
                [] OTHER -> InitialLog],
           (<<s1, 1>> :> {s2}) @@ (<<s3, 2>> :> {s2}) @@ (<<s1, 3>> :> {s2}))

\* s2 led term 1 and appended two commands that reached nobody; s1 led terms 2
\* and 3, and appended one command in term 2 that reached nobody either.
InitBehind ==
  \E c \in Command :
    InitAt([i \in Server |-> IF i = s2 THEN 1 ELSE 3],
           [i \in Server |-> IF i = s2 THEN s2 ELSE s1],
           [i \in Server |-> IF i = s1 THEN Leader ELSE Follower],
           [i \in Server |->
              CASE i = s1 -> InitialLog \o <<[term |-> 2, command |-> c]>>
                [] i = s2 -> InitialLog \o <<[term |-> 1, command |-> c],
                                             [term |-> 1, command |-> c]>>
                [] OTHER -> InitialLog],
           (<<s2, 1>> :> {s3}) @@ (<<s1, 2>> :> {s3}) @@ (<<s1, 3>> :> {s3}))

ElectedSpec == InitElected /\ [][Next]_vars

\* From InitBehind on s1 leads undisturbed: nobody stands for election, crashes
\* or compacts.
BehindNext ==
  \/ \E i \in Server : Heartbeat(i) \/ Apply(i) \/ \E c \in Command : Start(i, c)
  \/ \E m \in rpcs : Handle(m)
BehindSpec == InitBehind /\ [][BehindNext]_vars /\ Fairness
=============================================================================
