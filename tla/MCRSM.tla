-------------------------------- MODULE MCRSM --------------------------------
(* Instances of RSM for TLC.                                               *)
EXTENDS RSM, TLC

CONSTANTS s1, s2, s3, s4, s5, c1, c2, c3, c4, c5

CallerSymmetry == Permutations(Caller)
SpareSymmetry == Permutations({s4, s5})

\* Five servers, after this: s3 led term 1 and appended x, which reached s1; s1
\* led term 2 and appended A, its first operation, which reached s3; s1
\* restarted; s2 led term 3 and appended y, which replaced the log of s1; s1
\* led term 4 and appended C, its first operation since the restart; it was then
\* cut off, and s3 has been elected in term 5 by s4 and s5.
Entry(t, i, c) == [term |-> t, op |-> [me |-> i, id |-> 0, req |-> <<c, 1>>]]
x == Entry(1, s3, c1)
A == Entry(2, s1, c2)
y == Entry(3, s2, c3)
C == Entry(4, s1, c4)

InitRestarted ==
  /\ term = [i \in Server |-> IF i \in {s1, s2} THEN 4 ELSE 5]
  /\ leader = [i \in Server |-> i \in {s1, s3}]
  /\ log = [i \in Server |-> CASE i = s1 -> <<y, C>>
                               [] i = s2 -> <<y>>
                               [] i = s3 -> <<x, A>>
                               [] OTHER -> <<>>]
  /\ commitIndex = [i \in Server |-> 0]
  /\ matchIndex = [i \in Server |-> [j \in Server |-> 0]]
  /\ opId = [i \in Server |-> IF i \in {s1, s2, s3} THEN 1 ELSE 0]
  /\ pending = [i \in Server |-> [k \in 1 .. MaxLog |->
                  IF i = s1 /\ k = 2 THEN c4 ELSE None]]
  /\ applied = [i \in Server |-> 0]
  /\ call = [c \in Caller |->
       CASE c = c4 -> [NoCall(1) EXCEPT !.at = "waiting", !.on = s1, !.index = 2, !.term = 4]
         [] c = c5 -> NoCall(0)
         [] OTHER -> NoCall(1)]
  /\ outcome = [r \in Request |->
       IF r[1] \in {c1, c3} THEN [Unreturned EXCEPT !.err = "ErrMaybe"] ELSE Unreturned]
  /\ submitted = <<<<c1, 1>>, <<c2, 1>>, <<c3, 1>>, <<c4, 1>>>> /\ executed = <<>>

RestartedSpec == InitRestarted /\ [][Next]_vars
=============================================================================
