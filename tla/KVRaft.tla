-------------------------------- MODULE KVRaft --------------------------------
(***************************************************************************)
(* The replicated key/value service: kvraft/server.go on a group that      *)
(* keeps the promise of Submission (RSM shows that rsm does), and its      *)
(* clerk, kvraft/client.go, which tries one server after the other.  When  *)
(* an RPC fails the clerk makes the next attempt, although the earlier one *)
(* may still be waiting in Submit, or in the log.                          *)
(***************************************************************************)
EXTENDS KVOps, Submission

CONSTANTS
  Server, Clerk,
  Rollback,  \* whether a server may be given a snapshot older than what it has
             \* executed, which Raft does not exclude (MCRaft)
  Asked      \* bound, per clerk: what it may ask for

\* A request of Submission is one attempt of one clerk.
ASSUME AttemptAssumption == Request \subseteq Clerk \X (Nat \ {0})
ASSUME RollbackAssumption == Rollback \in BOOLEAN
ASSUME ServerAssumption == Server \cap {"idle", "calling", "cut off"} = {}
ASSUME AskedAssumption == \A k \in Clerk : Asked[k] # {} /\ Asked[k] \subseteq Args

VARIABLES
  valueStore,  \* per server: its map; a record of version 0 stands for no record
  applied,     \* per server: how many operations it has executed
  clerk,       \* per clerk: its call, with its first and its latest attempt, and,
               \* while that one waits in Submit, the server that it waits for
  args,        \* per attempt: the request
  reply,       \* per clerk: the reply to its latest attempt
  result,      \* per clerk: what its last call returned
  history      \* the map after each operation executed by the group, and its reply

servers == <<valueStore, applied>>
clerks == <<clerk, args, result>>
kvvars == <<subvars, servers, clerks, reply, history>>

-----------------------------------------------------------------------------
(* The servers.                                                            *)

StoreAfter(n) == IF n = 0 THEN NoStore ELSE history[n].store

Attempt(k) == <<k, clerk[k].attempt>>

\* Whether attempt r waits for server i; an earlier one waits for nobody's sake.
Waits(r, i) == clerk[r[1]].at = i /\ clerk[r[1]].attempt = r[2] /\ returned[r] = "none"

\* The reader of server i executes the next operation; the Submit that waits
\* for it there returns.
Apply(i) ==
  LET r == executed[applied[i] + 1]
      done == DoOp(valueStore[i], args[r])
  IN
  /\ applied[i] < Len(executed)
  /\ applied' = [applied EXCEPT ![i] = @ + 1]
  /\ valueStore' = [valueStore EXCEPT ![i] = done.store]
  /\ IF Waits(r, i) THEN Return(r, "OK") /\ reply' = [reply EXCEPT ![r[1]] = done.reply]
                    ELSE UNCHANGED <<subvars, reply>>
  /\ UNCHANGED <<clerks, history>>

RestoresNothing(i, data) == valueStore[i]   \* mutant: the snapshot is not decoded

Restored(i, data) == Decoded(valueStore[i], data)

\* Instead of the operations up to j's position the reader gets a snapshot
\* taken there, and whoever waits for one of them is not answered.  The reader
\* decodes an older one as well, but is not sent the operations after it again.
Restore(i, j) ==
  /\ applied[i] < applied[j] \/ Rollback
  /\ applied' = [applied EXCEPT ![i] = IF @ < applied[j] THEN applied[j] ELSE @]
  /\ valueStore' = [valueStore EXCEPT ![i] = Restored(i, valueStore[j])]
  /\ UNCHANGED <<subvars, clerks, reply, history>>

\* A crash cuts off the calls that wait for server i.
Crash(i) ==
  /\ applied' = [applied EXCEPT ![i] = 0]
  /\ valueStore' = [valueStore EXCEPT ![i] = NoStore]
  /\ clerk' = [k \in Clerk |->
       IF Waits(Attempt(k), i) THEN [clerk[k] EXCEPT !.at = "cut off"] ELSE clerk[k]]
  /\ UNCHANGED <<subvars, args, reply, result, history>>

\* The group commits an operation, not necessarily the next one.
Commit(k) ==
  /\ Execute(k)
  /\ history' = Append(history, DoOp(StoreAfter(Len(executed)), args[queue[k]]))
  /\ UNCHANGED <<servers, clerks, reply>>

-----------------------------------------------------------------------------
(* The clerk.                                                              *)

Idle(a) == [at |-> "idle", args |-> a, resent |-> FALSE, first |-> 1, attempt |-> 0]

\* The application calls Get or Put.
Call(k) ==
  /\ clerk[k].at = "idle"
  /\ \E a \in Asked[k] : clerk' = [clerk EXCEPT ![k] =
       [Idle(a) EXCEPT !.at = "calling", !.first = clerk[k].attempt + 1,
                       !.attempt = clerk[k].attempt]]
  /\ UNCHANGED <<subvars, servers, args, reply, result, history>>

\* An attempt reaches Submit on a server that leads.
Try(k, i) ==
  LET r == <<k, clerk[k].attempt + 1>> IN
  /\ clerk[k].at = "calling" /\ r \in Request
  /\ Submit(r)
  /\ args' = [args EXCEPT ![r] = clerk[k].args]
  /\ clerk' = [clerk EXCEPT ![k].at = i, ![k].attempt = @ + 1]
  /\ UNCHANGED <<servers, reply, result, history>>

\* An attempt that is lost, or refused with ErrWrongLeader.
TryInVain(k) ==
  /\ clerk[k].at = "calling"
  /\ clerk' = [clerk EXCEPT ![k].resent = TRUE]
  /\ UNCHANGED <<subvars, servers, args, reply, result, history>>

Waiting(k) == clerk[k].at \in Server \cup {"cut off"}

\* No answer arrives, or one that makes the clerk go on to the next server:
\* the operation may be in the log all the same.
Resend(k) ==
  /\ Waiting(k) /\ returned[Attempt(k)] = "none"
  /\ clerk' = [clerk EXCEPT ![k].at = "calling", ![k].resent = TRUE]
  /\ UNCHANGED <<subvars, servers, args, reply, result, history>>

AsReplied(k) == reply[k]   \* mutant: a resend is not remembered

\* A Put that was sent again cannot know what ErrVersion means.
Answer(k) ==
  LET r == reply[k] IN
  IF clerk[k].args.op = "Put" /\ clerk[k].resent /\ r.err = "ErrVersion"
  THEN [r EXCEPT !.err = "ErrMaybe"] ELSE r

Finish(k) ==
  /\ Waiting(k) /\ returned[Attempt(k)] = "OK"
  /\ result' = [result EXCEPT ![k] = Answer(k)]
  /\ clerk' = [clerk EXCEPT ![k].at = "idle"]
  /\ UNCHANGED <<subvars, servers, args, reply, history>>

-----------------------------------------------------------------------------

KVInit ==
  /\ Init
  /\ valueStore = [i \in Server |-> NoStore]
  /\ applied = [i \in Server |-> 0]
  /\ clerk = [k \in Clerk |-> Idle(CHOOSE a \in Asked[k] : TRUE)]
  /\ args = [r \in Request |-> clerk[r[1]].args]
  /\ reply = [k \in Clerk |-> NoReply]
  /\ result = [k \in Clerk |-> NoReply]
  /\ history = <<>>

KVNext ==
  \/ \E i \in Server : Apply(i) \/ Crash(i) \/ \E j \in Server : Restore(i, j)
  \/ \E n \in 1 .. Len(queue) : Commit(n)
  \/ \E k \in Clerk :
       \/ Call(k) \/ TryInVain(k) \/ Resend(k) \/ Finish(k)
       \/ \E i \in Server : Try(k, i)

KVSpec == KVInit /\ [][KVNext]_kvvars

-----------------------------------------------------------------------------

ClerkCalls == [at : {"idle", "calling", "cut off"} \cup Server, args : Args,
               resent : BOOLEAN, first : Nat, attempt : Nat]

\* Types of the variables; what a clerk takes for its answer is the answer to
\* its latest attempt.
KVTypeOK ==
  /\ valueStore \in [Server -> [Key -> Records]]
  /\ applied \in [Server -> 0 .. Len(executed)]
  /\ clerk \in [Clerk -> ClerkCalls]
  /\ args \in [Request -> Args] /\ reply \in [Clerk -> Replies]
  /\ result \in [Clerk -> Replies]

\* A server that has executed n operations, some of them perhaps through a
\* snapshot decoded into the map it already had, has the map of the first n
\* operations of the group.  This and what follows holds only without Rollback.
StoresInStep == \A i \in Server : valueStore[i] = StoreAfter(applied[i])

\* The promise of KVService: a call of the clerk takes effect once, when the
\* group executes one of its attempts, and its error tells the truth.
Executed(r) == InSeq(r, executed)
Position(r) == CHOOSE n \in 1 .. Len(executed) : executed[n] = r
Performed(k) == \E a \in clerk[k].first .. clerk[k].attempt :
  /\ Executed(<<k, a>>) /\ clerk[k].args.op = "Put"
  /\ history[Position(<<k, a>>)].reply.err = "OK"

StatusOf(k) ==
  CASE clerk[k].at = "idle" -> "idle"
    [] Waiting(k) /\ Executed(Attempt(k)) -> "answered"
    [] OTHER -> "pending"
AnswerOf(k) ==
  IF clerk[k].at # "calling" /\ Executed(Attempt(k))
  THEN history[Position(Attempt(k))].reply ELSE NoReply

Service == INSTANCE KVService WITH
  Client <- Clerk,
  store <- StoreAfter(Len(executed)),
  status <- [k \in Clerk |-> StatusOf(k)],
  request <- [k \in Clerk |-> clerk[k].args],
  performed <- [k \in Clerk |-> Performed(k)],
  answer <- [k \in Clerk |-> AnswerOf(k)],
  returned <- result
KVIsService == Service!Spec

\* The same, in the form that TLC evaluates fastest; nothing else is in the
\* mapping of KVService's variables.
IsService ==
  /\ Service!Init
  /\ [][UNCHANGED Service!svars \/ Service!Next]_<<executed, clerk, result, history>>
=============================================================================
