----------------------------- MODULE KVSrvProofs -----------------------------
(***************************************************************************)
(* Facts about the key/value server and its clerks, whoever calls them:    *)
(* what each step does to a clerk, and that each is a step of KVService.   *)
(***************************************************************************)
EXTENDS KVSrv, TLAPS

-----------------------------------------------------------------------------
(* Types.                                                                  *)

LEMMA ArgsType ==
  /\ \A k \in Key : GetArgs(k) \in Args
  /\ \A k \in Key : \A v \in Value : \A n \in Nat : PutArgs(k, v, n) \in Args
  BY ValueAssumption DEF GetArgs, PutArgs, Args

LEMMA NoReplyType == NoReply \in Replies
  BY ValueAssumption DEF NoReply, Replies, Errors

LEMMA CallType ==
  ASSUME NEW args \in Args
  PROVE  Calling(args) \in Calls
  BY NoReplyType DEF Calling, Calls

LEMMA AnswerType ==
  ASSUME KVTypes, NEW c \in Client
  PROVE  Answer(c) \in Replies
  BY DEF KVTypes, Calls, Replies, Errors, Answer

LEMMA CallTypes ==
  ASSUME KVTypes, NEW c \in Client, NEW args \in Args, Call(c, args),
         valueStore' = valueStore, returned' \in [Client -> Replies]
  PROVE  KVTypes' /\ clerk'[c] = Calling(args)
         /\ \A d \in Client \ {c} : clerk'[d] = clerk[d]
  BY CallType DEF KVTypes, Call

LEMMA IdleTypes ==
  ASSUME KVTypes, NEW c \in Client, ThenIdle(c),
         valueStore' = valueStore, returned' \in [Client -> Replies]
  PROVE  KVTypes' /\ clerk'[c] = [clerk[c] EXCEPT !.rpc = "idle"]
         /\ \A d \in Client \ {c} : clerk'[d] = clerk[d]
  BY DEF KVTypes, ThenIdle, Calls

LEMMA ReturningTypes ==
  ASSUME KVTypes, NEW c \in Client, Returning(c)
  PROVE  valueStore' = valueStore /\ returned' \in [Client -> Replies]
  BY AnswerType DEF KVTypes, Returning

LEMMA ResendTypes ==
  ASSUME KVTypes, NEW c \in Client, Resend(c)
  PROVE  /\ KVTypes'
         /\ clerk'[c] = [clerk[c] EXCEPT !.rpc = "sent", !.resent = TRUE, !.reply = NoReply]
         /\ \A d \in Client \ {c} : clerk'[d] = clerk[d]
  <1> DEFINE again == [clerk[c] EXCEPT !.rpc = "sent", !.resent = TRUE, !.reply = NoReply]
  <1>1. clerk[c] \in Calls
    BY DEF KVTypes
  <1>2. again \in Calls
    BY <1>1, NoReplyType DEF Calls
  <1>3. DOMAIN clerk = Client /\ clerk' = [clerk EXCEPT ![c] = again]
    BY <1>1 DEF Resend, KVTypes, Calls
  <1>4. UNCHANGED <<valueStore, returned>>
    BY DEF Resend
  <1> HIDE DEF again
  <1>5. KVTypes' /\ clerk'[c] = again /\ \A d \in Client \ {c} : clerk'[d] = clerk[d]
    BY <1>2, <1>3, <1>4 DEF KVTypes
  <1> QED
    BY <1>5 DEF again

\* What a reply does to the clerk's record.
Replied(c, r, puts) ==
  /\ clerk'[c] = [clerk[c] EXCEPT !.rpc = "replied", !.reply = r, !.puts = puts]
  /\ \A d \in Client \ {c} : clerk'[d] = clerk[d]

LEMMA ReplyTypes ==
  ASSUME KVTypes, NEW c \in Client, NEW r \in Replies, NEW puts \in {0, 1}, Reply(c, r, puts)
  PROVE  /\ clerk' \in [Client -> Calls]
         /\ Replied(c, r, clerk[c].puts + puts)
  <1> DEFINE n == clerk[c].puts + puts
             call == [clerk[c] EXCEPT !.rpc = "replied", !.reply = r, !.puts = n]
  <1>1. clerk[c] \in Calls /\ DOMAIN clerk = Client /\ clerk \in [Client -> Calls]
    BY DEF KVTypes
  <1>2. n \in Nat
    BY <1>1 DEF Calls
  <1>3. clerk' = [clerk EXCEPT ![c] = call]
    BY <1>1 DEF Reply, Calls
  <1> HIDE DEF n
  <1>4. call \in Calls
    BY <1>1, <1>2 DEF Calls
  <1> HIDE DEF call
  <1>5. clerk' \in [Client -> Calls] /\ clerk'[c] = call
        /\ \A d \in Client \ {c} : clerk'[d] = clerk[d]
    BY <1>1, <1>3, <1>4
  <1> QED
    BY <1>5 DEF call, n, Replied

\* What the server does with a request: it reads, declines or performs it.
Reads(c) ==
  /\ clerk[c].args.op = "Get" /\ valueStore' = valueStore
  /\ Replied(c, [err |-> IF Record(c).version = 0 THEN "ErrNoKey" ELSE "OK",
                 value |-> Record(c).value, version |-> Record(c).version], clerk[c].puts)
Performs(c) ==
  /\ clerk[c].args.op = "Put" /\ clerk[c].args.version = Record(c).version
  /\ valueStore' = [valueStore EXCEPT ![clerk[c].args.key] =
       [value |-> clerk[c].args.value, version |-> Record(c).version + 1]]
  /\ Replied(c, NoReply, clerk[c].puts + 1)
Declines(c) ==
  /\ clerk[c].args.op = "Put" /\ clerk[c].args.version # Record(c).version
  /\ valueStore' = valueStore
  /\ Replied(c, [NoReply EXCEPT !.err =
       IF Record(c).version = 0 THEN "ErrNoKey" ELSE "ErrVersion"], clerk[c].puts)

LEMMA RecordType ==
  ASSUME KVTypes, NEW c \in Client
  PROVE  /\ clerk[c] \in Calls /\ clerk[c].args \in Args
         /\ Record(c) \in Records /\ Record(c).version \in Nat /\ Record(c).value \in Value
  BY DEF KVTypes, Record, Records, Calls, Args

LEMMA ServeCases ==
  ASSUME KVTypes, NEW c \in Client, Serve(c)
  PROVE  KVTypes' /\ (Reads(c) \/ Performs(c) \/ Declines(c))
  <1>1. clerk[c].args \in Args /\ Record(c).version \in Nat /\ Record(c).value \in Value
    BY RecordType
  <1>2. UNCHANGED returned
    BY DEF Serve
  <1>3. CASE Get(c)
    <2> DEFINE r == [err |-> IF Record(c).version = 0 THEN "ErrNoKey" ELSE "OK",
                     value |-> Record(c).value, version |-> Record(c).version]
    <2>1. r \in Replies
      BY <1>1 DEF Replies, Errors
    <2>2. clerk[c].args.op = "Get" /\ Reply(c, r, 0) /\ UNCHANGED valueStore
      BY <1>3 DEF Get
    <2> HIDE DEF r
    <2>3. clerk' \in [Client -> Calls] /\ Replied(c, r, clerk[c].puts)
      <3>1. clerk[c].puts \in Nat
        BY DEF KVTypes, Calls
      <3> QED
        BY <2>1, <2>2, <3>1, ReplyTypes
    <2> QED
      BY <1>2, <2>2, <2>3 DEF r, Reads, KVTypes
  <1>4. CASE Put(c) /\ SameVersion(c)
    <2>1. /\ clerk[c].args.op = "Put" /\ clerk[c].args.version = Record(c).version
          /\ Reply(c, NoReply, 1)
          /\ valueStore' = [valueStore EXCEPT ![clerk[c].args.key] =
               [value |-> clerk[c].args.value, version |-> Record(c).version + 1]]
      BY <1>4 DEF Put, SameVersion, Record
    <2>2. clerk' \in [Client -> Calls] /\ Replied(c, NoReply, clerk[c].puts + 1)
      BY <2>1, NoReplyType, ReplyTypes
    <2>3. valueStore' \in [Key -> Records]
      BY <1>1, <2>1 DEF KVTypes, Records, Args
    <2> QED
      BY <1>2, <2>1, <2>2, <2>3 DEF Performs, KVTypes
  <1>5. CASE Put(c) /\ ~SameVersion(c)
    <2> DEFINE r == [NoReply EXCEPT !.err =
                       IF Record(c).version = 0 THEN "ErrNoKey" ELSE "ErrVersion"]
    <2>1. r \in Replies
      BY NoReplyType DEF Replies, Errors, NoReply
    <2>2. /\ clerk[c].args.op = "Put" /\ clerk[c].args.version # Record(c).version
          /\ Reply(c, r, 0) /\ UNCHANGED valueStore
      BY <1>5 DEF Put, SameVersion
    <2> HIDE DEF r
    <2>3. clerk' \in [Client -> Calls] /\ Replied(c, r, clerk[c].puts)
      <3>1. clerk[c].puts \in Nat
        BY DEF KVTypes, Calls
      <3> QED
        BY <2>1, <2>2, <3>1, ReplyTypes
    <2> QED
      BY <1>2, <2>2, <2>3 DEF r, Declines, KVTypes
  <1> QED
    BY <1>3, <1>4, <1>5 DEF Serve

-----------------------------------------------------------------------------
(* A Put is performed at most once, and its answer tells.                  *)

LEMMA ClerkType ==
  ASSUME KVTypes, NEW c \in Client
  PROVE  /\ clerk[c] \in Calls /\ clerk[c].args \in Args /\ clerk[c].reply \in Replies
         /\ clerk[c].puts \in Nat /\ clerk[c].args.version \in Nat
         /\ clerk[c].args.key \in Key /\ clerk[c].args.op \in {"Get", "Put"}
         /\ Record(c).version \in Nat
  BY DEF KVTypes, Calls, Args, Record, Records

LEMMA CallFields ==
  ASSUME NEW args
  PROVE  /\ Calling(args).rpc = "sent" /\ Calling(args).args = args
         /\ Calling(args).resent = FALSE /\ Calling(args).reply = NoReply
         /\ Calling(args).puts = 0
  BY DEF Calling

\* The fields of a clerk after each of its steps.
LEMMA ReplyFields ==
  ASSUME KVTypes, NEW c \in Client, NEW r, NEW n, Replied(c, r, n)
  PROVE  /\ clerk'[c].args = clerk[c].args /\ clerk'[c].rpc = "replied"
         /\ clerk'[c].reply = r /\ clerk'[c].puts = n /\ clerk'[c].resent = clerk[c].resent
  BY ClerkType DEF Replied, Calls

LEMMA ResendFields ==
  ASSUME KVTypes, NEW c \in Client, Resend(c)
  PROVE  /\ clerk'[c].args = clerk[c].args /\ clerk'[c].rpc = "sent"
         /\ clerk'[c].reply = NoReply /\ clerk'[c].puts = clerk[c].puts
         /\ clerk'[c].resent = TRUE
  <1>1. clerk[c] \in Calls
    BY ClerkType
  <1>2. clerk'[c] = [clerk[c] EXCEPT !.rpc = "sent", !.resent = TRUE, !.reply = NoReply]
    BY ResendTypes
  <1> QED
    BY <1>1, <1>2 DEF Calls

LEMMA IdleFields ==
  ASSUME KVTypes, NEW c \in Client, ThenIdle(c)
  PROVE  /\ clerk'[c].args = clerk[c].args /\ clerk'[c].rpc = "idle"
         /\ clerk'[c].reply = clerk[c].reply /\ clerk'[c].puts = clerk[c].puts
         /\ clerk'[c].resent = clerk[c].resent
         /\ \A d \in Client \ {c} : clerk'[d] = clerk[d]
  BY DEF KVTypes, Calls, ThenIdle

\* Versions only grow.
LEMMA VersionsGrow ==
  ASSUME KVTypes, NEW c \in Client, Reads(c) \/ Performs(c) \/ Declines(c)
  PROVE  \A k \in Key : valueStore'[k].version \in Nat /\ valueStore'[k].version >= valueStore[k].version
  BY ClerkType DEF KVTypes, Records, Reads, Performs, Declines, Record

\* Whatever a caller is, a step of the system is one of these for some client.
KVStep(c) ==
  \/ /\ clerk[c].rpc = "idle" /\ UNCHANGED <<valueStore, returned>>
     /\ \E args \in Args : Call(c, args)
  \/ Returning(c) /\ \E args \in Args : Call(c, args)
  \/ Returning(c) /\ ThenIdle(c)
  \/ Resend(c)
  \/ Serve(c)

\* The clerks that do not move.
LEMMA OthersOnce ==
  ASSUME KVTypes, NEW d \in Client, Once(d), clerk'[d] = clerk[d],
         \A k \in Key : valueStore'[k].version \in Nat
                         /\ valueStore'[k].version >= valueStore[k].version
  PROVE  Once(d)'
  <1>1. /\ clerk[d].args.version \in Nat /\ Record(d).version \in Nat
        /\ clerk[d].args.key \in Key
    BY ClerkType
  <1>2. Record(d)'.version \in Nat /\ Record(d)'.version >= Record(d).version
    BY <1>1 DEF Record
  <1> QED
    BY <1>1, <1>2 DEF Once

LEMMA ServedOnce ==
  ASSUME KVTypes, NEW c \in Client, Once(c), Serve(c)
  PROVE  Once(c)'
  <1>1. Reads(c) \/ Performs(c) \/ Declines(c)
    BY ServeCases
  <1>2. /\ clerk[c].rpc = "sent" /\ clerk[c].puts \in Nat
        /\ clerk[c].args.version \in Nat /\ Record(c).version \in Nat
        /\ clerk[c].args.key \in Key /\ (~clerk[c].resent => clerk[c].puts = 0)
    BY ClerkType DEF Serve, Once
  <1>3. /\ clerk'[c].args = clerk[c].args /\ clerk'[c].rpc = "replied"
        /\ clerk'[c].resent = clerk[c].resent
    BY <1>1, ReplyFields DEF Reads, Performs, Declines
  <1>4. CASE Reads(c)
    BY <1>3, <1>4 DEF Reads, Once
  <1>5. CASE Performs(c)
    <2>1. clerk'[c].puts = clerk[c].puts + 1 /\ clerk'[c].reply.err = "OK"
      BY <1>5, ReplyFields DEF Performs, NoReply
    <2>2. Record(c)'.version = Record(c).version + 1 /\ clerk[c].args.version = Record(c).version
      BY <1>2, <1>3, <1>5 DEF Performs, Record, KVTypes
    <2> QED
      BY <1>2, <1>3, <2>1, <2>2 DEF Once
  <1>6. CASE Declines(c)
    <2>1. clerk'[c].puts = clerk[c].puts /\ clerk'[c].reply.err \in {"ErrNoKey", "ErrVersion"}
      BY <1>6, ReplyFields DEF Declines, NoReply
    <2>2. Record(c)' = Record(c)
      BY <1>3, <1>6 DEF Declines, Record
    <2> QED
      BY <1>2, <1>3, <2>1, <2>2 DEF Once
  <1> QED
    BY <1>1, <1>4, <1>5, <1>6

LEMMA OnceStep ==
  ASSUME KVTypes, PutsOnce, NEW c \in Client, KVStep(c)
  PROVE  PutsOnce'
  <1>1. Once(c) /\ clerk[c].puts \in Nat /\ clerk[c].args.version \in Nat /\ Record(c).version \in Nat
    BY ClerkType DEF PutsOnce
  <1>2. CASE Serve(c)
    <2>1. Reads(c) \/ Performs(c) \/ Declines(c)
      BY <1>2, ServeCases
    <2>2. \A d \in Client \ {c} : clerk'[d] = clerk[d]
      BY <2>1 DEF Reads, Performs, Declines, Replied
    <2>3. \A d \in Client \ {c} : Once(d)'
      BY <2>1, <2>2, VersionsGrow, OthersOnce DEF PutsOnce
    <2> QED
      BY <1>1, <1>2, <2>3, ServedOnce DEF PutsOnce
  <1>3. CASE ~Serve(c)
    <2>1. valueStore' = valueStore
      BY <1>3 DEF KVStep, Returning, Resend
    <2>2. (\A k \in Key : valueStore'[k].version \in Nat
                            /\ valueStore'[k].version >= valueStore[k].version)
          /\ clerk \in [Client -> Calls]
      BY <2>1 DEF KVTypes, Records
    <2>3. \A d \in Client \ {c} : clerk'[d] = clerk[d]
      BY <1>3, <2>2, IdleFields, ResendTypes DEF KVStep, Call
    <2>4. \A d \in Client \ {c} : Once(d)'
      BY <2>2, <2>3, OthersOnce DEF PutsOnce
    <2>5. Once(c)'
      <3>1. CASE \E args \in Args : Call(c, args)
        <4>1. PICK args \in Args : clerk'[c] = Calling(args)
          BY <2>2, <3>1 DEF Call
        <4>2. /\ clerk'[c].rpc = "sent" /\ clerk'[c].reply = NoReply
              /\ clerk'[c].puts = 0
          BY <4>1, CallFields
        <4>3. ~(clerk'[c].puts > 0) /\ clerk'[c].rpc # "replied"
          BY <4>2
        <4> QED
          BY <4>2, <4>3 DEF Once, NoReply
      <3>2. CASE ThenIdle(c)
        BY <1>1, <2>1, <3>2, IdleFields DEF Once, Record
      <3>3. CASE Resend(c)
        BY <1>1, <2>1, <3>3, ResendFields DEF Once, Record
      <3> QED
        BY <1>3, <3>1, <3>2, <3>3 DEF KVStep
    <2> QED
      BY <2>4, <2>5 DEF PutsOnce
  <1> QED
    BY <1>2, <1>3

-----------------------------------------------------------------------------
(* Each step is one the service allows.                                    *)

\* A step of one clerk changes the functions above at that client alone.
Shows(c) ==
  /\ status' = [status EXCEPT ![c] = status'[c]]
  /\ request' = [request EXCEPT ![c] = request'[c]]
  /\ performed' = [performed EXCEPT ![c] = performed'[c]]
  /\ answer' = [answer EXCEPT ![c] = answer'[c]]

LEMMA MovesOne ==
  ASSUME NEW c \in Client, \A d \in Client \ {c} : clerk'[d] = clerk[d]
  PROVE  Shows(c)
  BY DEF Shows, status, request, performed, answer

LEMMA StatusAfter ==
  ASSUME NEW c \in Client
  PROVE  /\ clerk[c].rpc = "sent" => status[c] = "pending"
         /\ clerk[c].rpc = "replied" => status[c] = "answered"
         /\ clerk[c].rpc = "idle" => status[c] = "idle"
         /\ clerk'[c].rpc = "sent" => status'[c] = "pending"
         /\ clerk'[c].rpc = "replied" => status'[c] = "answered"
         /\ clerk'[c].rpc = "idle" => status'[c] = "idle"
         /\ request[c] = clerk[c].args /\ request'[c] = clerk'[c].args
         /\ answer[c] = clerk[c].reply /\ answer'[c] = clerk'[c].reply
         /\ performed[c] = (clerk[c].puts > 0) /\ performed'[c] = (clerk'[c].puts > 0)
  BY DEF status, request, answer, performed

LEMMA CallMaps ==
  ASSUME KVTypes, NEW c \in Client, NEW args \in Args, Call(c, args), valueStore' = valueStore
  PROVE  Service!Asks(c)
  <1>1. clerk'[c] = Calling(args) /\ \A d \in Client \ {c} : clerk'[d] = clerk[d]
    BY DEF KVTypes, Call
  <1>2. /\ clerk'[c].rpc = "sent" /\ clerk'[c].args = args
        /\ clerk'[c].reply = NoReply /\ clerk'[c].puts = 0
    BY <1>1, CallFields
  <1>3. status'[c] = "pending" /\ request'[c] = args /\ answer'[c] = NoReply
    BY <1>2, StatusAfter
  <1>4. performed'[c] = FALSE
    <2>1. (clerk'[c].puts > 0) = FALSE
      BY <1>2
    <2> QED
      BY <2>1, Zenon DEF performed
  <1>5. Shows(c)
    BY <1>1, MovesOne
  <1> QED
    BY <1>3, <1>4, <1>5 DEF Shows, Service!Asks, Service!Requests, Service!NoAnswer, Args, NoReply

LEMMA ReturnMaps ==
  ASSUME KVTypes, PutsOnce, NEW c \in Client, Returning(c)
  PROVE  Service!Returns(c)
  <1>1. /\ clerk[c].rpc = "replied" /\ returned' = [returned EXCEPT ![c] = Answer(c)]
        /\ clerk[c].args.op \in {"Get", "Put"} /\ clerk[c].reply \in Replies
    BY ClerkType DEF Returning
  <1>2. status[c] = "answered" /\ request[c] = clerk[c].args /\ answer[c] = clerk[c].reply
    BY <1>1, StatusAfter
  <1>3. /\ clerk[c].puts > 0 => performed[c]
        /\ clerk[c].puts = 0 => ~performed[c]
    <2>1. clerk[c].puts = 0 => ~(clerk[c].puts > 0)
      OBVIOUS
    <2> QED
      BY <2>1, Zenon DEF performed
  <1>4. CASE clerk[c].args.op = "Put" /\ clerk[c].resent
    <2>1. Answer(c) = [answer[c] EXCEPT !.err = "ErrMaybe"]
      BY <1>2, <1>4 DEF Answer
    <2>2. Service!Truthful(c, "ErrMaybe")
      BY DEF Service!Truthful
    <2> QED
      BY <1>1, <1>2, <1>4, <2>1, <2>2 DEF Service!Returns
  <1>5. CASE ~(clerk[c].args.op = "Put" /\ clerk[c].resent)
    <2>1. Answer(c) = [answer[c] EXCEPT !.err = answer[c].err]
      BY <1>1, <1>2, <1>5 DEF Answer, Replies
    <2>2. request[c].op = "Put" =>
            /\ answer[c].err = "OK" => clerk[c].puts > 0
            /\ answer[c].err # "OK" => clerk[c].puts = 0
      BY <1>1, <1>2, <1>5 DEF PutsOnce, Once
    <2>3. Service!Truthful(c, answer[c].err)
      BY <1>3, <2>2 DEF Service!Truthful
    <2> QED
      BY <1>1, <1>2, <2>1, <2>3 DEF Service!Returns
  <1> QED
    BY <1>4, <1>5

LEMMA IdleMaps ==
  ASSUME KVTypes, PutsOnce, NEW c \in Client, Returning(c), ThenIdle(c)
  PROVE  Service!Return(c)
  <1>1. /\ clerk'[c].args = clerk[c].args /\ clerk'[c].rpc = "idle"
        /\ clerk'[c].reply = clerk[c].reply /\ clerk'[c].puts = clerk[c].puts
        /\ \A d \in Client \ {c} : clerk'[d] = clerk[d]
    BY IdleFields
  <1>2. Shows(c) /\ status'[c] = "idle"
    BY <1>1, MovesOne, StatusAfter
  <1>3. UNCHANGED <<request, performed, answer>>
    BY <1>1 DEF request, performed, answer
  <1> QED
    BY <1>2, <1>3, ReturnMaps DEF Shows, Service!Return, Returning

LEMMA ResendMaps ==
  ASSUME KVTypes, PutsOnce, NEW c \in Client, Resend(c)
  PROVE  Service!Lose(c) \/ UNCHANGED Service!svars
  <1>1. /\ clerk'[c].args = clerk[c].args /\ clerk'[c].rpc = "sent"
        /\ clerk'[c].reply = NoReply /\ clerk'[c].puts = clerk[c].puts
        /\ \A d \in Client \ {c} : clerk'[d] = clerk[d]
    BY ResendFields, ResendTypes
  <1>2. UNCHANGED <<valueStore, returned, request, performed>>
    <2>1. \A d \in Client : clerk'[d].puts = clerk[d].puts /\ clerk'[d].args = clerk[d].args
      BY <1>1
    <2>2. performed' = performed
      BY <2>1, Zenon DEF performed
    <2>3. request' = request
      BY <2>1, Zenon DEF request
    <2> QED
      BY <2>2, <2>3 DEF Resend
  <1>3. Shows(c) /\ status'[c] = "pending" /\ answer'[c] = NoReply
    BY <1>1, MovesOne, StatusAfter
  <1>4. CASE clerk[c].rpc = "replied"
    <2>1. status[c] = "answered"
      BY <1>4, StatusAfter
    <2> QED
      BY <1>2, <1>3, <2>1 DEF Shows, Service!Lose, Service!NoAnswer, NoReply
  <1>5. CASE clerk[c].rpc = "sent"
    <2>1. clerk[c].reply = NoReply
      BY <1>5 DEF PutsOnce, Once
    <2>2. UNCHANGED <<status, answer>>
      BY <1>1, <1>5, <2>1 DEF status, answer
    <2> QED
      BY <1>2, <2>2 DEF Service!svars
  <1> QED
    BY <1>4, <1>5, ClerkType DEF Resend, Calls

LEMMA ServeMaps ==
  ASSUME KVTypes, PutsOnce, NEW c \in Client, Serve(c)
  PROVE  Service!Perform(c) \/ Service!Decline(c) \/ Service!Read(c)
  <1>1. Reads(c) \/ Performs(c) \/ Declines(c)
    BY ServeCases
  <1>2. /\ clerk[c].rpc = "sent" /\ returned' = returned /\ clerk[c].puts \in Nat
        /\ clerk[c].args.version \in Nat /\ clerk[c].args.key \in Key
    BY ClerkType DEF Serve
  <1>3. /\ clerk'[c].args = clerk[c].args /\ clerk'[c].rpc = "replied"
        /\ \A d \in Client \ {c} : clerk'[d] = clerk[d]
    <2>1. \A d \in Client \ {c} : clerk'[d] = clerk[d]
      BY <1>1 DEF Reads, Performs, Declines, Replied
    <2>2. clerk'[c].args = clerk[c].args /\ clerk'[c].rpc = "replied"
      BY <1>1, ReplyFields DEF Reads, Performs, Declines
    <2> QED
      BY <2>1, <2>2
  <1>4. /\ Shows(c) /\ status[c] = "pending" /\ status'[c] = "answered"
        /\ request[c] = clerk[c].args /\ answer'[c] = clerk'[c].reply
    BY <1>2, <1>3, MovesOne, StatusAfter
  <1>5. request' = request
    <2>1. \A d \in Client : clerk'[d].args = clerk[d].args
      BY <1>3
    <2> QED
      BY <2>1, Zenon DEF request
  <1>6. ASSUME clerk'[c].puts = clerk[c].puts PROVE performed' = performed
    <2>1. \A d \in Client : clerk'[d].puts = clerk[d].puts
      BY <1>3, <1>6
    <2> QED
      BY <2>1, Zenon DEF performed
  <1>7. Service!Answered(c, clerk'[c].reply)
    BY <1>2, <1>4, <1>5 DEF Shows, Service!Answered
  <1>8. CASE Reads(c)
    <2>1. /\ clerk'[c].puts = clerk[c].puts /\ clerk[c].args.op = "Get" /\ valueStore' = valueStore
          /\ clerk'[c].reply = [err |-> IF Record(c).version = 0 THEN "ErrNoKey" ELSE "OK",
                                value |-> Record(c).value, version |-> Record(c).version]
      BY <1>8, ReplyFields DEF Reads
    <2>2. performed' = performed
      BY <1>6, <2>1
    <2> QED
      BY <1>4, <1>7, <2>1, <2>2 DEF Service!Read, Record
  <1>9. CASE Declines(c)
    <2>1. /\ clerk'[c].puts = clerk[c].puts /\ clerk[c].args.op = "Put" /\ valueStore' = valueStore
          /\ clerk[c].args.version # Record(c).version
          /\ clerk'[c].reply = [NoReply EXCEPT !.err =
               IF Record(c).version = 0 THEN "ErrNoKey" ELSE "ErrVersion"]
      BY <1>9, ReplyFields DEF Declines
    <2>2. performed' = performed
      BY <1>6, <2>1
    <2>3. NoReply = Service!NoAnswer
      BY DEF NoReply, Service!NoAnswer
    <2> QED
      BY <1>4, <1>7, <2>1, <2>2, <2>3 DEF Service!Decline, Service!Matching, Record
  <1>10. CASE Performs(c)
    <2>1. /\ clerk'[c].puts = clerk[c].puts + 1 /\ clerk[c].args.op = "Put"
          /\ clerk[c].args.version = Record(c).version /\ clerk'[c].reply = NoReply
          /\ valueStore' = [valueStore EXCEPT ![clerk[c].args.key] =
               [value |-> clerk[c].args.value, version |-> Record(c).version + 1]]
      BY <1>10, ReplyFields DEF Performs
    <2>2. ~(clerk[c].puts > 0)
      BY <1>2, <2>1 DEF PutsOnce, Once
    <2>3. ~performed[c]
      BY <2>2, Zenon DEF performed
    <2>4. performed'[c] = TRUE
      <3>1. (clerk'[c].puts > 0) = TRUE
        BY <1>2, <2>1
      <3> QED
        BY <3>1, Zenon DEF performed
    <2>5. NoReply = Service!NoAnswer
      BY DEF NoReply, Service!NoAnswer
    <2>6. Service!Matching(c)
      BY <1>4, <2>1 DEF Service!Matching, Record
    <2>7. performed' = [performed EXCEPT ![c] = TRUE]
      BY <1>4, <2>4, Zenon DEF Shows
    <2> QED
      BY <1>4, <1>7, <2>1, <2>3, <2>5, <2>6, <2>7 DEF Service!Perform, Record
  <1> QED
    BY <1>1, <1>8, <1>9, <1>10

LEMMA KVStepMaps ==
  ASSUME KVTypes, PutsOnce, NEW c \in Client, KVStep(c)
  PROVE  Service!Next \/ UNCHANGED Service!svars
  <1>1. CASE clerk[c].rpc = "idle" /\ UNCHANGED <<valueStore, returned>>
             /\ \E args \in Args : Call(c, args)
    <2>1. Service!Asks(c)
      BY <1>1, CallMaps
    <2>2. status[c] = "idle"
      BY <1>1, StatusAfter
    <2> QED
      BY <1>1, <2>1, <2>2 DEF Service!Next, Service!Invoke
  <1>2. CASE Returning(c) /\ \E args \in Args : Call(c, args)
    <2>1. Service!Asks(c)
      BY <1>2, CallMaps DEF Returning
    <2> QED
      BY <1>2, <2>1, ReturnMaps DEF Service!Next, Service!ReturnAndInvoke
  <1>3. CASE Returning(c) /\ ThenIdle(c)
    BY <1>3, IdleMaps DEF Service!Next
  <1>4. CASE Resend(c)
    BY <1>4, ResendMaps DEF Service!Next
  <1>5. CASE Serve(c)
    BY <1>5, ServeMaps DEF Service!Next
  <1> QED
    BY <1>1, <1>2, <1>3, <1>4, <1>5 DEF KVStep

LEMMA KVInitMaps ==
  ASSUME NEW k \in Key, KVInit(k)
  PROVE  KVTypes /\ PutsOnce /\ (\A c \in Client : clerk[c].rpc = "idle") /\ Service!Init
  <1> DEFINE call == [Calling(GetArgs(k)) EXCEPT !.rpc = "idle"]
  <1>1. GetArgs(k) \in Args /\ Calling(GetArgs(k)) \in Calls
    BY ArgsType, CallType
  <1>2. /\ call \in Calls /\ call.rpc = "idle" /\ call.args = GetArgs(k)
        /\ call.reply = NoReply /\ call.puts = 0
    BY <1>1, CallFields DEF Calls
  <1>3. clerk = [c \in Client |-> call]
    BY DEF KVInit
  <1> HIDE DEF call
  <1>4. valueStore = [x \in Key |-> NoRecord] /\ returned = [c \in Client |-> NoReply]
    BY DEF KVInit
  <1>5. NoRecord \in Records
    BY ValueAssumption DEF NoRecord, Records
  <1>6. KVTypes
    BY <1>2, <1>3, <1>4, <1>5, NoReplyType DEF KVTypes
  <1>7. PutsOnce
    <2>1. \A c \in Client : clerk[c].rpc = "idle" /\ clerk[c].args.op = "Get"
      <3>1. GetArgs(k).op = "Get"
        BY DEF GetArgs
      <3> QED
        BY <1>2, <1>3, <3>1
    <2>2. ASSUME NEW c \in Client PROVE Once(c)
      <3>1. clerk[c].rpc # "sent" /\ clerk[c].args.op # "Put"
        BY <2>1
      <3> QED
        BY <3>1, Zenon DEF Once
    <2> QED
      BY <2>2 DEF PutsOnce
  <1>8. request \in [Client -> Service!Requests]
    BY <1>1, <1>2, <1>3 DEF request, Service!Requests, Args
  <1>9. status = [c \in Client |-> "idle"]
    BY <1>2, <1>3 DEF status
  <1>10. performed = [c \in Client |-> FALSE]
    <2>1. (call.puts > 0) = FALSE
      BY <1>2
    <2> QED
      BY <1>3, <2>1, Zenon DEF performed
  <1>11. answer = [c \in Client |-> NoReply]
    BY <1>2, <1>3 DEF answer
  <1>12. Service!Init
    BY <1>4, <1>8, <1>9, <1>10, <1>11 DEF Service!Init, Service!NoRecord, Service!NoAnswer,
       NoRecord, NoReply
  <1> QED
    BY <1>2, <1>3, <1>6, <1>7, <1>12
=============================================================================
