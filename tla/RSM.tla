--------------------------------- MODULE RSM ---------------------------------
(***************************************************************************)
(* kvraft/rsm/rsm.go: Submit, which proposes an operation and waits for it *)
(* to be executed at the index Start returned, and the reader that         *)
(* executes what the group commits and hands the result to whoever waits   *)
(* at that index.  Snapshots are left to Raft: the reader's position after *)
(* a restart is the beginning of the log.                                  *)
(***************************************************************************)
EXTENDS ReplicatedLog

CONSTANTS
  Caller,       \* threads that call Submit, one call at a time
  None,         \* no caller, nothing received
  MaxSubmits,   \* bound: calls of Submit by one thread
  Restartable   \* the servers that may crash and restart

ASSUME CallerAssumption ==
  None \notin Caller /\ MaxSubmits \in Nat /\ Restartable \subseteq Server

\* The n-th operation of caller c.
Request == Caller \X (1 .. MaxSubmits)

VARIABLES
  opId,      \* per server: rsm.opId
  pending,   \* per server and index: the caller whose channel is registered
  applied,   \* per server: the index the reader has executed up to
  call,      \* per caller: its Submit
  outcome,   \* history, per request: what Submit returned
  submitted, \* history: the operations some leader has accepted, in order
  executed   \* history: the operations executed by some server, in order

rsm == <<opId, pending, applied>>
history == <<submitted, executed>>
vars == <<group, rsm, call, outcome, history>>

NoCall(n) == [at |-> "idle", n |-> n, on |-> None, index |-> 0, term |-> 0, id |-> 0,
              channel |-> None]
Called(n, i, index, t, id) ==
  [at |-> "waiting", n |-> n, on |-> i, index |-> index, term |-> t, id |-> id,
   channel |-> None]
Unreturned == [err |-> "none", result |-> None]

Req(c) == <<c, call[c].n>>
Outcome(c, err, result) ==
  outcome' = [outcome EXCEPT ![Req(c)] = [err |-> err, result |-> result]]

-----------------------------------------------------------------------------
(* Submit.                                                                 *)

\* The part under rsm.mu: an id is used up whether or not this server leads.
Proposes(c, i) ==
  /\ call[c].at = "idle" /\ call[c].n < MaxSubmits
  /\ opId' = [opId EXCEPT ![i] = @ + 1]
  /\ UNCHANGED <<term, leader, commitIndex, matchIndex, applied, executed>>

Submit(c, i) ==
  LET n == call[c].n + 1
      index == Len(log[i]) + 1
  IN
  /\ Proposes(c, i)
  /\ leader[i] /\ index <= MaxLog
  /\ AppendEntry(i, [me |-> i, id |-> opId[i], req |-> <<c, n>>])
  /\ pending' = [pending EXCEPT ![i][index] = c]
  /\ call' = [call EXCEPT ![c] = Called(n, i, index, term[i], opId[i])]
  /\ submitted' = Append(submitted, <<c, n>>)
  /\ UNCHANGED outcome

SubmitElsewhere(c, i) ==
  /\ Proposes(c, i)
  /\ ~leader[i]
  /\ call' = [call EXCEPT ![c] = NoCall(@.n + 1)]
  /\ outcome' = [outcome EXCEPT ![<<c, call[c].n + 1>>].err = "ErrWrongLeader"]
  /\ UNCHANGED <<log, pending, submitted>>

\* Mutants: whatever was executed at the index is taken for the operation; a
\* caller that stops waiting claims its operation is lost.
OwnAlways(c) == TRUE
GivesUpRefused == "ErrWrongLeader"

\* What comes out of the channel is this very operation.
Own(c) == call[c].channel.me = call[c].on /\ call[c].channel.id = call[c].id

\* Submit returns, but for the deferred delete.
Returning(c) == call' = [call EXCEPT ![c].at = "leaving"]

Receive(c) ==
  /\ call[c].at = "waiting" /\ call[c].channel # None
  /\ IF Own(c) THEN Outcome(c, "OK", call[c].channel.req)
               ELSE Outcome(c, "ErrWrongLeader", None)
  /\ Returning(c)
  /\ UNCHANGED <<group, rsm, history>>

GivesUp == "ErrMaybe"

\* The 150 ms are over and this server leads no more, or in another term.
GiveUp(c) ==
  /\ call[c].at = "waiting"
  /\ ~leader[call[c].on] \/ term[call[c].on] # call[c].term
  /\ Outcome(c, GivesUp, None)
  /\ Returning(c)
  /\ UNCHANGED <<group, rsm, history>>

StaysRegistered(c) == UNCHANGED pending   \* mutant

\* The deferred delete, of whatever is registered at the index by now.
Unregister(c) == pending' = [pending EXCEPT ![call[c].on][call[c].index] = None]

Leave(c) ==
  /\ call[c].at = "leaving"
  /\ Unregister(c)
  /\ call' = [call EXCEPT ![c] = NoCall(@.n)]
  /\ UNCHANGED <<group, opId, applied, outcome, history>>

-----------------------------------------------------------------------------

Committed(i) == commitIndex[i]

\* The reader executes the next entry and answers whoever is registered there.
Reader(i) ==
  LET x == applied[i] + 1
      c == pending[i][x]
  IN
  /\ x <= Committed(i)
  /\ applied' = [applied EXCEPT ![i] = x]
  /\ pending' = [pending EXCEPT ![i][x] = None]
  /\ call' = IF c = None THEN call ELSE [call EXCEPT ![c].channel = log[i][x].op]
  /\ executed' = IF x > Len(executed) THEN Append(executed, log[i][x].op.req) ELSE executed
  /\ UNCHANGED <<group, opId, outcome, submitted>>

\* A crash ends the calls of Submit on the server without an answer.
Crash(i) ==
  /\ i \in Restartable
  /\ Reboot(i)
  /\ opId' = [opId EXCEPT ![i] = 0]
  /\ pending' = [pending EXCEPT ![i] = [x \in 1 .. MaxLog |-> None]]
  /\ applied' = [applied EXCEPT ![i] = 0]
  /\ call' = [c \in Caller |-> IF call[c].on = i THEN NoCall(call[c].n) ELSE call[c]]
  /\ UNCHANGED <<outcome, history>>

Init ==
  /\ GroupInit
  /\ opId = [i \in Server |-> 0]
  /\ pending = [i \in Server |-> [x \in 1 .. MaxLog |-> None]]
  /\ applied = [i \in Server |-> 0]
  /\ call = [c \in Caller |-> NoCall(0)]
  /\ outcome = [r \in Request |-> Unreturned]
  /\ submitted = <<>> /\ executed = <<>>

Next ==
  \/ GroupNext /\ UNCHANGED <<rsm, call, outcome, history>>
  \/ \E i \in Server : Reader(i) \/ Crash(i)
  \/ \E c \in Caller :
       \/ \E i \in Server : Submit(c, i) \/ SubmitElsewhere(c, i)
       \/ Receive(c) \/ GiveUp(c) \/ Leave(c)

Spec == Init /\ [][Next]_vars

-----------------------------------------------------------------------------

Ops == [me : Server, id : Nat, req : Request]
Errors == {"none", "OK", "ErrWrongLeader", "ErrMaybe"}

\* Types of the variables; who is registered at an index waits there.
TypeOK ==
  /\ GroupTypes
  /\ opId \in [Server -> Nat]
  /\ pending \in [Server -> [1 .. MaxLog -> Caller \cup {None}]]
  /\ applied \in [Server -> 0 .. MaxLog]
  /\ call \in [Caller -> [at : {"idle", "waiting", "leaving"}, n : 0 .. MaxSubmits,
                          on : Server \cup {None}, index : 0 .. MaxLog, term : Nat,
                          id : Nat, channel : Ops \cup {None}]]
  /\ outcome \in [Request -> [err : Errors, result : Request \cup {None}]]
  /\ submitted \in Seq(Request) /\ executed \in Seq(Request)
  /\ \A i \in Server, x \in 1 .. MaxLog : pending[i][x] # None =>
       LET c == call[pending[i][x]] IN c.at # "idle" /\ c.on = i /\ c.index = x

\* An OK carries the result of the caller's own operation, although another
\* operation may have taken its index, on the same server even.
AnswersOwn ==
  \A r \in Request : outcome[r].err = "OK" => outcome[r].result = r

\* All servers execute the same operations in the same order, none twice, in
\* spite of deposed leaders, overwritten logs and readers that start again.
ReplicasAgree ==
  /\ \A i \in Server : \A x \in 1 .. applied[i] : log[i][x].op.req = executed[x]
  /\ \A x, y \in 1 .. Len(executed) : executed[x] = executed[y] => x = y

\* The promise of Submission: the group executes what it is asked in the order
\* of the calls of Submit, on whatever server, and each answer tells the truth.
LastExecuted ==
  IF executed = <<>> THEN 0
  ELSE CHOOSE k \in 1 .. Len(submitted) : submitted[k] = executed[Len(executed)]
Outstanding == SubSeq(submitted, LastExecuted + 1, Len(submitted))
Promise == INSTANCE Submission WITH
  queue <- Outstanding, returned <- [r \in Request |-> outcome[r].err]
IsSubmission == Promise!Spec
=============================================================================
