-------------------------- MODULE MCRaftScenarios --------------------------
(***************************************************************************)
(* Pairs of instances of Raft that are checked for the same properties: a  *)
(* behaviour is one of either, and stays with it.  The constants of the    *)
(* configuration allow what either may do, and Bounds takes away what this *)
(* one is not about.                                                       *)
(***************************************************************************)
EXTENDS MCRaft

CONSTANT Scenarios   \* bound: what may run

VARIABLE scenario    \* which of them this is

\* "elections": from the first start on; s2 and s3 stand for election and
\* anyone may crash.  "pipelining": s1 leads, with several calls in flight.
\* "leader changes": s1 leads a group with diverged logs, s3 overtakes it, and
\* s1 and s2 may crash.  "snapshots": s1 leads; s2 applies, compacts, crashes,
\* is elected and installs its snapshot.
MCInit ==
  /\ scenario \in Scenarios
  /\ CASE scenario = "elections" -> Init
       [] scenario \in {"pipelining", "snapshots"} -> InitElected
       [] scenario = "leader changes" -> InitDiverged

Bounds ==
  CASE scenario = "elections" ->
         log' = log /\ Cardinality(rpcs') <= 3 /\ \A m \in rpcs' : m.slot = 1
    [] scenario = "pipelining" ->
         currentTerm' = currentTerm /\ \A i \in Server : ~Restart(i)
    [] scenario = "leader changes" -> applier' = applier /\ ~Timeout(s2)
    [] scenario = "snapshots" ->
         /\ Cardinality(rpcs') <= 1 /\ \A i \in Server : currentTerm'[i] <= 2
         /\ ~Timeout(s3) /\ ~Restart(s1)

MCNext == Next /\ Bounds /\ UNCHANGED scenario

MCSpec == MCInit /\ [][MCNext]_<<scenario, vars>>
=============================================================================
