-------------------------------- MODULE KVSrv --------------------------------
(***************************************************************************)
(* The unreplicated key/value server, kvsrv/server.go, and its clerk,      *)
(* kvsrv/client.go, over a network that may lose a request before the      *)
(* server sees it or the reply after it has acted on it.  The clerk does   *)
(* not tell the two apart and sends again.  Modules that use a clerk       *)
(* (Lock) extend this one and add the steps of its callers.                *)
(***************************************************************************)
EXTENDS Naturals

CONSTANTS Client, Key, Value, Empty   \* Empty is "", the zero value of a string

ASSUME ValueAssumption == Empty \in Value

VARIABLES
  valueStore,  \* the server's map; a record of version 0 stands for no record
  clerk,       \* per client: the call its clerk is making
  returned     \* per client: what its last call returned

NoRecord == [value |-> Empty, version |-> 0]
NoReply == [err |-> "OK", value |-> Empty, version |-> 0]
GetArgs(k) == [op |-> "Get", key |-> k, value |-> Empty, version |-> 0]
PutArgs(k, v, n) == [op |-> "Put", key |-> k, value |-> v, version |-> n]

\* "rpc": nothing outstanding, on its way to the server, reply on its way back.
\* "puts" counts how often the server has performed this Put (history).
Calling(args) ==
  [rpc |-> "sent", args |-> args, resent |-> FALSE, reply |-> NoReply, puts |-> 0]
KVInit(k) ==
  /\ valueStore = [key \in Key |-> NoRecord]
  /\ clerk = [c \in Client |-> [Calling(GetArgs(k)) EXCEPT !.rpc = "idle"]]
  /\ returned = [c \in Client |-> NoReply]

Call(c, args) == clerk' = [clerk EXCEPT ![c] = Calling(args)]

-----------------------------------------------------------------------------
(* The server's handlers.                                                  *)

Record(c) == valueStore[clerk[c].args.key]

Reply(c, r, puts) ==
  clerk' = [clerk EXCEPT ![c].rpc = "replied", ![c].reply = r, ![c].puts = @ + puts]

Get(c) ==
  /\ clerk[c].args.op = "Get"
  /\ Reply(c, [err |-> IF Record(c).version = 0 THEN "ErrNoKey" ELSE "OK",
               value |-> Record(c).value, version |-> Record(c).version], 0)
  /\ UNCHANGED valueStore

AnyVersion(c) == TRUE   \* mutant

\* The version the client asks for is the record's, 0 for a key not there.
SameVersion(c) == clerk[c].args.version = Record(c).version

Put(c) ==
  /\ clerk[c].args.op = "Put"
  /\ IF SameVersion(c)
     THEN /\ valueStore' = [valueStore EXCEPT ![clerk[c].args.key] =
               [value |-> clerk[c].args.value, version |-> @.version + 1]]
          /\ Reply(c, NoReply, 1)
     ELSE /\ Reply(c, [NoReply EXCEPT !.err =
               IF Record(c).version = 0 THEN "ErrNoKey" ELSE "ErrVersion"], 0)
          /\ UNCHANGED valueStore

Serve(c) ==
  /\ clerk[c].rpc = "sent"
  /\ Get(c) \/ Put(c)
  /\ UNCHANGED returned

-----------------------------------------------------------------------------
(* The clerk.                                                              *)

\* Call returned false: the request or the reply was lost, and the clerk,
\* after a pause, sends the same request again.
Resend(c) ==
  /\ clerk[c].rpc # "idle"
  /\ clerk' = [clerk EXCEPT ![c].rpc = "sent", ![c].resent = TRUE, ![c].reply = NoReply]
  /\ UNCHANGED <<valueStore, returned>>

LastReply(c) == clerk[c].reply   \* mutant: the error of a resend is passed on

\* What the clerk's Get or Put returns: ErrMaybe from any Put it sent twice.
Answer(c) ==
  IF clerk[c].args.op = "Put" /\ clerk[c].resent
  THEN [clerk[c].reply EXCEPT !.err = "ErrMaybe"] ELSE clerk[c].reply

Returning(c) ==
  /\ clerk[c].rpc = "replied"
  /\ returned' = [returned EXCEPT ![c] = Answer(c)]
  /\ UNCHANGED valueStore

\* The caller does nothing more for now, or makes its next call.
ThenIdle(c) == clerk' = [clerk EXCEPT ![c].rpc = "idle"]
ThenCall(c, args) == Call(c, args)

-----------------------------------------------------------------------------

Errors == {"OK", "ErrNoKey", "ErrVersion", "ErrMaybe"}
Records == [value : Value, version : Nat]
Args == [op : {"Get", "Put"}, key : Key, value : Value, version : Nat]
Replies == [err : Errors, value : Value, version : Nat]
Calls == [rpc : {"idle", "sent", "replied"}, args : Args, resent : BOOLEAN,
          reply : Replies, puts : Nat]

KVTypes ==
  /\ valueStore \in [Key -> Records]
  /\ clerk \in [Client -> Calls]
  /\ returned \in [Client -> Replies]

\* One clerk's call, against the record it is about.
Once(c) ==
  LET call == clerk[c] IN
  /\ call.rpc = "sent" => call.reply = NoReply /\ (~call.resent => call.puts = 0)
  /\ call.args.op = "Put" =>
       /\ call.puts > 0 => call.args.version < Record(c).version
       /\ call.rpc = "replied" =>
            /\ call.reply.err = "OK" => call.puts > 0
            /\ call.reply.err # "OK" /\ ~call.resent => call.puts = 0

\* A Put that the server has performed has left its version behind, so that no
\* copy of it is performed again; an answer to a Put that was sent once tells
\* whether it was performed.
PutsOnce == \A c \in Client : Once(c)

-----------------------------------------------------------------------------
(* The promise the server and its clerks keep together.                    *)

\* What the clerks' records mean to the service.
status == [c \in Client |-> CASE clerk[c].rpc = "sent" -> "pending"
                              [] clerk[c].rpc = "replied" -> "answered"
                              [] OTHER -> "idle"]
request == [c \in Client |-> clerk[c].args]
performed == [c \in Client |-> clerk[c].puts > 0]
answer == [c \in Client |-> clerk[c].reply]

Service == INSTANCE KVService WITH store <- valueStore
=============================================================================
