------------------------------ MODULE Submission ------------------------------
(***************************************************************************)
(* What a replicated group promises those who submit operations to it: it  *)
(* executes operations one at a time, each at most once and only in the    *)
(* order in which they were submitted, though it may skip some for good;   *)
(* OK means executed, and ErrWrongLeader that the operation never will be. *)
(* RSM implements it; the shard groups are built on it.                    *)
(***************************************************************************)
EXTENDS Naturals, Sequences

CONSTANTS Request

VARIABLES
  queue,     \* submitted, and neither executed nor skipped, in order
  executed,  \* executed, in order
  returned   \* per request: what its Submit returned, or "none"

subvars == <<queue, executed, returned>>

InSeq(r, s) == \E k \in 1 .. Len(s) : s[k] = r
Unknown(r) == ~InSeq(r, queue) /\ ~InSeq(r, executed) /\ returned[r] = "none"

Init == queue = <<>> /\ executed = <<>> /\ returned = [r \in Request |-> "none"]

Submit(r) ==
  /\ Unknown(r)
  /\ queue' = Append(queue, r)
  /\ UNCHANGED <<executed, returned>>

\* Whatever was submitted earlier and has not been executed is skipped.
Execute(k) ==
  /\ returned[queue[k]] # "ErrWrongLeader"
  /\ executed' = Append(executed, queue[k])
  /\ queue' = SubSeq(queue, k + 1, Len(queue))
  /\ UNCHANGED returned

Return(r, err) ==
  /\ returned[r] = "none"
  /\ returned' = [returned EXCEPT ![r] = err]
  /\ err = "OK" => InSeq(r, executed)
  /\ err = "ErrWrongLeader" => ~InSeq(r, executed)
  /\ UNCHANGED <<queue, executed>>

Next ==
  \/ \E k \in 1 .. Len(queue) : Execute(k)
  \/ \E r \in Request :
       Submit(r) \/ \E err \in {"OK", "ErrWrongLeader", "ErrMaybe"} : Return(r, err)

Spec == Init /\ [][Next]_subvars
=============================================================================
