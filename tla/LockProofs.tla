----------------------------- MODULE LockProofs -----------------------------
(***************************************************************************)
(* Theorems about the lock, for every set of clients, keys and values.     *)
(***************************************************************************)
EXTENDS Lock, KVSrvProofs

-----------------------------------------------------------------------------
(* The steps of a client, reduced to what they do: it makes a call, goes   *)
(* idle with the answer of one, or has its call served or sent again.      *)

Kept(c) == \A d \in Client \ {c} : clerk'[d] = clerk[d] /\ pc'[d] = pc[d]

CallStep(c, here, there, args) ==
  /\ pc[c] = here /\ pc'[c] = there /\ clerk'[c] = Calling(args)
  /\ Kept(c) /\ valueStore' = valueStore

IdleStep(c, here, there) ==
  /\ pc[c] = here /\ pc'[c] = there /\ clerk[c].rpc = "replied"
  /\ clerk'[c] = [clerk[c] EXCEPT !.rpc = "idle"]
  /\ Kept(c) /\ valueStore' = valueStore

ResendStep(c) ==
  /\ clerk[c].rpc # "idle" /\ pc'[c] = pc[c]
  /\ clerk'[c] = [clerk[c] EXCEPT !.rpc = "sent", !.resent = TRUE, !.reply = NoReply]
  /\ Kept(c) /\ valueStore' = valueStore

ServeStep(c) ==
  /\ clerk[c].rpc = "sent" /\ pc'[c] = pc[c] /\ Kept(c)
  /\ Reads(c) \/ Performs(c) \/ Declines(c)

Replying(c) == clerk[c].rpc = "replied"

Steps(c) ==
  \/ CallStep(c, "new", "making", PutArgs(lockname, Empty, 0))
  \/ IdleStep(c, "making", "idle")
  \/ CallStep(c, "idle", "checking", GetArgs(lockname))
  \/ IdleStep(c, "checking", "held") /\ Answer(c).value = c
  \/ /\ CallStep(c, "checking", "taking", PutArgs(lockname, c, Answer(c).version))
     /\ Replying(c) /\ Answer(c).value = Empty
  \/ CallStep(c, "checking", "checking", GetArgs(lockname))
  \/ CallStep(c, "taking", "checking", GetArgs(lockname))
  \/ CallStep(c, "held", "releasing", GetArgs(lockname))
  \/ /\ CallStep(c, "releasing", "freeing", PutArgs(lockname, Empty, Answer(c).version))
     /\ Replying(c) /\ Answer(c).value = c
  \/ IdleStep(c, "releasing", "idle") /\ Answer(c).value # c
  \/ IdleStep(c, "freeing", "idle")
  \/ \E args \in Args : args.key # lockname /\ CallStep(c, "free", "free", args)
  \/ IdleStep(c, "free", "free")
  \/ ResendStep(c)
  \/ ServeStep(c)

\* The types that do not tie a clerk to its caller.
Types == KVTypes /\ pc \in [Client -> Places] /\ acquires \in [Client -> Nat]

LEMMA CallSteps ==
  ASSUME Types, NEW c \in Client, NEW args \in Args, NEW here, NEW there \in Places,
         At(c, here, there), Call(c, args),
         valueStore' = valueStore, returned' \in [Client -> Replies],
         acquires' \in [Client -> Nat]
  PROVE  Types' /\ CallStep(c, here, there, args)
  <1>1. /\ KVTypes' /\ clerk'[c] = Calling(args)
        /\ \A d \in Client \ {c} : clerk'[d] = clerk[d]
    BY CallTypes DEF Types
  <1>2. /\ pc[c] = here /\ pc' \in [Client -> Places] /\ pc'[c] = there
        /\ \A d \in Client \ {c} : pc'[d] = pc[d]
    BY DEF Types, At
  <1> QED
    BY <1>1, <1>2 DEF Types, CallStep, Kept

LEMMA ReturnCalls ==
  ASSUME Types, NEW c \in Client, NEW args \in Args, NEW here, NEW there \in Places,
         At(c, here, there), Returning(c), ThenCall(c, args), UNCHANGED acquires
  PROVE  Types' /\ CallStep(c, here, there, args) /\ Replying(c)
  <1>1. valueStore' = valueStore /\ returned' \in [Client -> Replies]
    BY ReturningTypes DEF Types
  <1>2. Call(c, args) /\ acquires' \in [Client -> Nat] /\ Replying(c)
    BY DEF ThenCall, Types, Returning, Replying
  <1> QED
    BY <1>1, <1>2, CallSteps

LEMMA ReturnIdles ==
  ASSUME Types, NEW c \in Client, NEW here, NEW there \in Places,
         At(c, here, there), Returning(c), ThenIdle(c), UNCHANGED acquires
  PROVE  Types' /\ IdleStep(c, here, there)
  <1>1. valueStore' = valueStore /\ returned' \in [Client -> Replies] /\ Replying(c)
    BY ReturningTypes DEF Types, Returning, Replying
  <1>2. /\ KVTypes' /\ clerk'[c] = [clerk[c] EXCEPT !.rpc = "idle"]
        /\ \A d \in Client \ {c} : clerk'[d] = clerk[d]
    BY <1>1, IdleTypes DEF Types
  <1>3. /\ pc[c] = here /\ pc' \in [Client -> Places] /\ pc'[c] = there
        /\ \A d \in Client \ {c} : pc'[d] = pc[d]
    BY DEF Types, At
  <1> QED
    BY <1>1, <1>2, <1>3 DEF Types, IdleStep, Kept, Replying

LEMMA ServedSteps ==
  ASSUME Types, NEW c \in Client, Serve(c), UNCHANGED <<pc, acquires>>
  PROVE  Types' /\ ServeStep(c)
  <1>1. KVTypes' /\ (Reads(c) \/ Performs(c) \/ Declines(c))
    BY ServeCases DEF Types
  <1>2. \A d \in Client \ {c} : clerk'[d] = clerk[d]
    BY <1>1 DEF Reads, Performs, Declines, Replied
  <1> QED
    BY <1>1, <1>2 DEF Types, ServeStep, Kept, Serve

LEMMA ResentSteps ==
  ASSUME Types, NEW c \in Client, Resend(c), UNCHANGED <<pc, acquires>>
  PROVE  Types' /\ ResendStep(c)
  <1>1. /\ KVTypes'
        /\ clerk'[c] = [clerk[c] EXCEPT !.rpc = "sent", !.resent = TRUE, !.reply = NoReply]
        /\ \A d \in Client \ {c} : clerk'[d] = clerk[d]
    BY ResendTypes DEF Types
  <1> QED
    BY <1>1 DEF Types, ResendStep, Kept, Resend

LEMMA LockArgs ==
  ASSUME NEW c \in Client
  PROVE  /\ lockname \in Key /\ c \in Value /\ c # Empty /\ GetArgs(lockname) \in Args
         /\ \A n \in Nat : PutArgs(lockname, Empty, n) \in Args /\ PutArgs(lockname, c, n) \in Args
  BY ValueAssumption, LockAssumption, ArgsType

LEMMA CheckSteps ==
  ASSUME Types, NEW c \in Client, Check(c)
  PROVE  Types' /\ Steps(c)
  <1>1. Answer(c) \in Replies /\ Answer(c).version \in Nat
    BY AnswerType DEF Types, Replies
  <1>2. Returning(c) /\ UNCHANGED acquires
    BY DEF Check
  <1>3. CASE Acquired(c)
    <2>1. Types' /\ IdleStep(c, "checking", "held")
      BY <1>2, <1>3, ReturnIdles DEF Acquired, Places
    <2> QED
      BY <1>3, <2>1 DEF Acquired, Steps
  <1>4. CASE Take(c)
    <2>1. PutArgs(lockname, c, Answer(c).version) \in Args
      BY <1>1, LockArgs
    <2>2. Types' /\ Replying(c)
          /\ CallStep(c, "checking", "taking", PutArgs(lockname, c, Answer(c).version))
      BY <1>2, <1>4, <2>1, ReturnCalls DEF Take, Places
    <2> QED
      BY <1>4, <2>2 DEF Take, Steps
  <1>5. CASE LookAgain(c)
    <2>1. Types' /\ CallStep(c, "checking", "checking", GetArgs(lockname))
      BY <1>2, <1>5, LockArgs, ReturnCalls DEF LookAgain, Places
    <2> QED
      BY <2>1 DEF Steps
  <1> QED
    BY <1>3, <1>4, <1>5 DEF Check

LEMMA ReleaseSteps ==
  ASSUME Types, NEW c \in Client, ReleaseCheck(c)
  PROVE  Types' /\ Steps(c)
  <1>1. Answer(c) \in Replies /\ Answer(c).version \in Nat
    BY AnswerType DEF Types, Replies
  <1>2. Returning(c) /\ UNCHANGED acquires
    BY DEF ReleaseCheck
  <1>3. CASE Mine(c)
    <2>1. PutArgs(lockname, Empty, Answer(c).version) \in Args
      BY <1>1, LockArgs
    <2>2. Types' /\ Replying(c)
          /\ CallStep(c, "releasing", "freeing", PutArgs(lockname, Empty, Answer(c).version))
      BY <1>2, <1>3, <2>1, ReturnCalls DEF ReleaseCheck, Places
    <2> QED
      BY <1>3, <2>2 DEF Mine, Steps
  <1>4. CASE ~Mine(c)
    <2>1. Types' /\ IdleStep(c, "releasing", "idle")
      BY <1>2, <1>4, ReturnIdles DEF ReleaseCheck, Places
    <2> QED
      BY <1>4, <2>1 DEF Mine, Steps
  <1> QED
    BY <1>3, <1>4

LEMMA FreeCallSteps ==
  ASSUME Types, NEW c \in Client, NEW args \in FreeArgs(c), FreeCall(c, args)
  PROVE  Types' /\ Steps(c)
  <1>1. args \in Args
    BY LockArgs, ArgsType DEF FreeArgs
  <1>2. pc[c] = "free" /\ args.key # lockname /\ Call(c, args)
        /\ UNCHANGED <<valueStore, returned, pc, acquires>>
    BY DEF FreeCall
  <1>3. At(c, "free", "free")
    BY <1>2 DEF At, Types
  <1>4. returned' \in [Client -> Replies] /\ acquires' \in [Client -> Nat]
    BY <1>2 DEF Types, KVTypes
  <1>5. Types' /\ CallStep(c, "free", "free", args)
    BY <1>1, <1>2, <1>3, <1>4, CallSteps DEF Places
  <1> QED
    BY <1>1, <1>2, <1>5 DEF Steps

LEMMA BeginSteps ==
  ASSUME Types, NEW c \in Client, MakeLock(c) \/ Acquire(c) \/ Release(c)
  PROVE  Types' /\ Steps(c)
  <1>1. /\ valueStore' = valueStore /\ returned' \in [Client -> Replies]
        /\ acquires' \in [Client -> Nat]
    BY DEF Types, KVTypes, MakeLock, Acquire, Release
  <1>2. CASE MakeLock(c)
    <2>1. Types' /\ CallStep(c, "new", "making", PutArgs(lockname, Empty, 0))
      BY <1>1, <1>2, LockArgs, CallSteps DEF MakeLock, Places
    <2> QED
      BY <2>1 DEF Steps
  <1>3. CASE Acquire(c)
    <2>1. Types' /\ CallStep(c, "idle", "checking", GetArgs(lockname))
      BY <1>1, <1>3, LockArgs, CallSteps DEF Acquire, Places
    <2> QED
      BY <2>1 DEF Steps
  <1>4. CASE Release(c)
    <2>1. Types' /\ CallStep(c, "held", "releasing", GetArgs(lockname))
      BY <1>1, <1>4, LockArgs, CallSteps DEF Release, Places
    <2> QED
      BY <2>1 DEF Steps
  <1> QED
    BY <1>2, <1>3, <1>4

LEMMA EndSteps ==
  ASSUME Types, NEW c \in Client, LockMade(c) \/ Taken(c) \/ Freed(c) \/ FreeReturn(c)
  PROVE  Types' /\ Steps(c)
  <1>1. CASE LockMade(c)
    <2>1. Types' /\ IdleStep(c, "making", "idle")
      BY <1>1, ReturnIdles DEF LockMade, Places
    <2> QED
      BY <2>1 DEF Steps
  <1>2. CASE Taken(c)
    <2>1. Types' /\ CallStep(c, "taking", "checking", GetArgs(lockname))
      BY <1>2, LockArgs, ReturnCalls DEF Taken, Places
    <2> QED
      BY <2>1 DEF Steps
  <1>3. CASE Freed(c)
    <2>1. Types' /\ IdleStep(c, "freeing", "idle")
      BY <1>3, ReturnIdles DEF Freed, Places
    <2> QED
      BY <2>1 DEF Steps
  <1>4. CASE FreeReturn(c)
    <2>1. At(c, "free", "free") /\ UNCHANGED acquires
      BY <1>4 DEF FreeReturn, At, Types
    <2>2. Types' /\ IdleStep(c, "free", "free")
      BY <1>4, <2>1, ReturnIdles DEF FreeReturn, Places
    <2> QED
      BY <2>2 DEF Steps
  <1> QED
    BY <1>1, <1>2, <1>3, <1>4

LEMMA NextSteps ==
  ASSUME Types, Next
  PROVE  Types' /\ \E c \in Client : Steps(c)
  <1>1. PICK c \in Client :
          \/ MakeLock(c) \/ Acquire(c) \/ Release(c) \/ Resume(c)
          \/ FreeReturn(c) \/ \E args \in FreeArgs(c) : FreeCall(c, args)
          \/ (Serve(c) \/ Resend(c)) /\ UNCHANGED <<pc, acquires>>
    BY DEF Next
  <1>2. CASE \E args \in FreeArgs(c) : FreeCall(c, args)
    BY <1>2, FreeCallSteps
  <1>3. CASE MakeLock(c) \/ Acquire(c) \/ Release(c)
    BY <1>3, BeginSteps
  <1>4. CASE Resume(c) \/ FreeReturn(c)
    BY <1>4, EndSteps, CheckSteps, ReleaseSteps DEF Resume
  <1>5. CASE Serve(c) /\ UNCHANGED <<pc, acquires>>
    BY <1>5, ServedSteps DEF Steps
  <1>6. CASE Resend(c) /\ UNCHANGED <<pc, acquires>>
    BY <1>6, ResentSteps DEF Steps
  <1> QED
    BY <1>1, <1>2, <1>3, <1>4, <1>5, <1>6

-----------------------------------------------------------------------------
(* Type correctness.                                                       *)

Between == {"new", "idle", "held"}   \* no call outstanding

Matched(c) ==
  /\ pc[c] \in Between => clerk[c].rpc = "idle"
  /\ pc[c] \notin Between \cup {"free"} => clerk[c].rpc # "idle"

LEMMA TypeParts == TypeOK <=> Types /\ \A c \in Client : Matched(c)
  BY DEF TypeOK, Types, Matched, Between

LEMMA RpcOf ==
  ASSUME Types, NEW c \in Client
  PROVE  clerk[c] \in Calls /\ clerk[c].args \in Args /\ clerk[c].reply \in Replies
         /\ clerk[c].puts \in Nat
  BY DEF Types, KVTypes, Calls

LEMMA RpcAfter ==
  ASSUME Types, NEW c \in Client
  PROVE  /\ \A here, there, args : CallStep(c, here, there, args) => clerk'[c].rpc = "sent"
         /\ \A here, there : IdleStep(c, here, there) => clerk'[c].rpc = "idle"
         /\ ResendStep(c) => clerk'[c].rpc = "sent"
         /\ ServeStep(c) => clerk'[c].rpc = "replied"
  <1>1. clerk[c] \in Calls
    BY RpcOf
  <1>2. \A r, n : Replied(c, r, n) => clerk'[c].rpc = "replied"
    BY <1>1 DEF Replied, Calls
  <1>3. ServeStep(c) => clerk'[c].rpc = "replied"
    BY <1>2 DEF ServeStep, Reads, Performs, Declines
  <1>4. ResendStep(c) => clerk'[c].rpc = "sent"
    BY <1>1 DEF ResendStep, Calls
  <1>5. \A here, there : IdleStep(c, here, there) => clerk'[c].rpc = "idle"
    BY <1>1 DEF IdleStep, Calls
  <1> QED
    BY <1>3, <1>4, <1>5 DEF CallStep, Calling

LEMMA MatchedStep ==
  ASSUME Types, NEW c \in Client, \A d \in Client : Matched(d), Steps(c)
  PROVE  \A d \in Client : Matched(d)'
  <1>1. \A d \in Client \ {c} : clerk'[d] = clerk[d] /\ pc'[d] = pc[d]
    BY DEF Steps, CallStep, IdleStep, ResendStep, ServeStep, Kept
  <1>2. \A d \in Client \ {c} : Matched(d)'
    BY <1>1 DEF Matched
  <1>3. Matched(c)'
    <2>1. CASE ResendStep(c) \/ ServeStep(c)
      <3>1. pc'[c] = pc[c] /\ clerk[c].rpc # "idle" /\ clerk'[c].rpc # "idle"
        BY <2>1, RpcAfter DEF ResendStep, ServeStep
      <3> QED
        BY <3>1 DEF Matched
    <2>2. CASE \E there \in {"making", "checking", "taking", "releasing", "freeing", "free"} :
                 pc'[c] = there /\ clerk'[c].rpc = "sent"
      BY <2>2 DEF Matched, Between
    <2>3. CASE \E there \in {"idle", "held", "free"} :
                 pc'[c] = there /\ clerk'[c].rpc = "idle"
      BY <2>3 DEF Matched, Between
    <2> HIDE DEF CallStep, IdleStep
    <2>4. \A here, there, args : CallStep(c, here, there, args) =>
            pc'[c] = there /\ clerk'[c].rpc = "sent"
      BY RpcAfter DEF CallStep
    <2>5. \A here, there : IdleStep(c, here, there) => pc'[c] = there /\ clerk'[c].rpc = "idle"
      BY RpcAfter DEF IdleStep
    <2> QED
      BY <2>1, <2>2, <2>3, <2>4, <2>5 DEF Steps
  <1> QED
    BY <1>2, <1>3

LEMMA TypeInit == Init => TypeOK
  <1> SUFFICES ASSUME Init PROVE TypeOK
    OBVIOUS
  <1>1. \A k \in Key : NoRecord \in Records
    BY ValueAssumption DEF NoRecord, Records
  <1>2. GetArgs(lockname) \in Args /\ Calling(GetArgs(lockname)) \in Calls
    BY LockAssumption, ArgsType, CallType
  <1> DEFINE call == [Calling(GetArgs(lockname)) EXCEPT !.rpc = "idle"]
  <1>3. call \in Calls /\ call.rpc = "idle"
    BY <1>2 DEF Calls
  <1>4. clerk = [c \in Client |-> call]
    BY DEF Init, KVInit
  <1> HIDE DEF call
  <1>5. KVTypes /\ \A c \in Client : clerk[c].rpc = "idle"
    BY <1>1, <1>3, <1>4, NoReplyType DEF Init, KVInit, KVTypes
  <1> QED
    BY <1>5 DEF Init, TypeOK, Places

\* The variables have their types, and a clerk is busy exactly while its
\* caller waits for it.
THEOREM LockTypes == Spec => []TypeOK
  <1>1. TypeOK /\ [Next]_lvars => TypeOK'
    <2> SUFFICES ASSUME TypeOK, [Next]_lvars PROVE TypeOK'
      OBVIOUS
    <2>1. CASE Next
      <3>1. Types /\ \A c \in Client : Matched(c)
        BY TypeParts
      <3>2. Types' /\ \E c \in Client : Steps(c)
        BY <2>1, <3>1, NextSteps
      <3>3. \A c \in Client : Matched(c)'
        BY <3>1, <3>2, MatchedStep
      <3>4. TypeOK' <=> Types' /\ \A c \in Client : Matched(c)'
        BY DEF TypeOK, Types, Matched, Between
      <3> QED
        BY <3>2, <3>3, <3>4
    <2>2. CASE UNCHANGED lvars
      BY <2>2 DEF lvars, TypeOK, KVTypes
    <2> QED
      BY <2>1, <2>2
  <1> QED
    BY <1>1, TypeInit, PTL DEF Spec

-----------------------------------------------------------------------------
(* Mutual exclusion: LockInv is inductive.                                 *)

LEMMA LockType ==
  ASSUME Types
  PROVE  lock \in Records /\ lock.version \in Nat /\ lock.value \in Value
  BY LockAssumption DEF Types, KVTypes, lock, Records

LEMMA ReplyType ==
  ASSUME Types, NEW c \in Client
  PROVE  /\ clerk[c].reply.version \in Nat /\ clerk[c].args.version \in Nat
         /\ Answer(c).value = clerk[c].reply.value
         /\ Answer(c).version = clerk[c].reply.version
  <1>1. clerk[c].reply \in Replies /\ clerk[c].args \in Args
    BY RpcOf
  <1> QED
    BY <1>1 DEF Replies, Args, Answer

LEMMA Ids == \A c \in Client : c # Empty
  BY LockAssumption

\* A client that did not move, when the lock was not written.
LEMMA Unwritten ==
  ASSUME NEW d \in Client, OwnerInv(d), lock' = lock, clerk'[d] = clerk[d], pc'[d] = pc[d]
  PROVE  OwnerInv(d)'
  BY DEF OwnerInv, Checks, Takes, Releases, Frees

\* The lock is taken when empty and emptied by its owner.
Written(c) ==
  /\ lock'.version = lock.version + 1
  /\ \/ lock.value = Empty /\ lock'.value \in {Empty, c}
     \/ lock.value = c /\ lock'.value = Empty

\* A client that did not move, when another wrote the lock.
LEMMA WrittenByAnother ==
  ASSUME Types, NEW c \in Client, NEW d \in Client \ {c}, OwnerInv(d), Written(c),
         clerk'[d] = clerk[d], pc'[d] = pc[d]
  PROVE  OwnerInv(d)'
  <1>1. lock.version \in Nat /\ clerk[d].reply.version \in Nat /\ clerk[d].args.version \in Nat
    BY LockType, ReplyType
  <1>2. d # Empty /\ lock'.value # d /\ lock.value # d /\ lock'.version = lock.version + 1
    BY Ids DEF Written
  <1>3. pc[d] \notin {"held", "releasing"}
    BY <1>2 DEF OwnerInv, Releases
  <1>4. pc[d] = "checking" => Checks(d)'
    BY <1>1, <1>2 DEF OwnerInv, Checks
  <1>5. pc[d] = "taking" => Takes(d)'
    BY <1>1, <1>2 DEF OwnerInv, Takes
  <1>6. pc[d] = "freeing" => Frees(d)'
    BY <1>1, <1>2 DEF OwnerInv, Frees
  <1> QED
    BY <1>2, <1>3, <1>4, <1>5, <1>6 DEF OwnerInv

LEMMA PutFields ==
  ASSUME NEW k, NEW v, NEW n
  PROVE  /\ PutArgs(k, v, n).op = "Put" /\ PutArgs(k, v, n).key = k
         /\ PutArgs(k, v, n).value = v /\ PutArgs(k, v, n).version = n
         /\ GetArgs(k).op = "Get" /\ GetArgs(k).key = k
  BY DEF PutArgs, GetArgs

\* A Put of the lock that is performed comes from one of three places.
LEMMA LockPerformed ==
  ASSUME Types, NEW c \in Client, Matched(c), OwnerInv(c), lock.version = 0 => lock.value = Empty,
         clerk[c].rpc = "sent", Performs(c), clerk[c].args.key = lockname
  PROVE  /\ Written(c) /\ pc[c] \in {"making", "taking", "freeing"}
         /\ lock'.value = clerk[c].args.value
         /\ pc[c] = "freeing" => lock.value = c /\ clerk[c].args.value = Empty
         /\ pc[c] = "making" => clerk[c].args.value = Empty
  <1>1. clerk[c].args.op = "Put" /\ clerk[c].args.version = lock.version
    BY DEF Performs, Record, lock
  <1>2. valueStore \in [Key -> Records] /\ lockname \in Key /\ lock.version \in Nat
    BY LockAssumption, LockType DEF Types, KVTypes
  <1>3. lock'.value = clerk[c].args.value /\ lock'.version = lock.version + 1
    BY <1>2 DEF Performs, Record, lock
  <1>4. pc[c] \in {"making", "taking", "freeing"}
    BY <1>1, PutFields DEF Types, Places, Matched, Between, OwnerInv, Checks, Releases
  <1>5. CASE pc[c] = "making"
    BY <1>1, <1>3, <1>5, PutFields DEF OwnerInv, Written
  <1>6. CASE pc[c] = "taking"
    BY <1>1, <1>3, <1>6, PutFields DEF OwnerInv, Takes, Written
  <1>7. CASE pc[c] = "freeing"
    <2>1. clerk[c].args.value = Empty /\ lock.value = c
      BY <1>1, <1>2, <1>7, PutFields DEF OwnerInv, Frees
    <2> QED
      BY <1>3, <1>7, <2>1 DEF Written
  <1> QED
    BY <1>3, <1>4, <1>5, <1>6, <1>7

\* The client whose request is served.
LEMMA ServedOwner ==
  ASSUME Types, LockInv, NEW c \in Client, Matched(c), ServeStep(c)
  PROVE  OwnerInv(c)' /\ (lock' = lock \/ Written(c))
  <1> DEFINE key == clerk[c].args.key
  <1>1. /\ OwnerInv(c) /\ (lock.version = 0 => lock.value = Empty)
        /\ clerk[c].rpc = "sent" /\ pc'[c] = pc[c] /\ pc[c] \in Places
    BY DEF LockInv, ServeStep, Types
  <1>2. /\ valueStore \in [Key -> Records] /\ lockname \in Key /\ lock.version \in Nat
        /\ c # Empty /\ clerk[c].args.version \in Nat
    BY LockAssumption, LockType, ReplyType DEF Types, KVTypes
  <1>3. clerk'[c].args = clerk[c].args /\ clerk'[c].rpc = "replied"
    BY ReplyFields DEF Types, ServeStep, Reads, Performs, Declines
  <1>4. pc[c] \notin Between
    BY <1>1 DEF Matched
  <1>5. key = lockname \/ pc[c] = "free"
    BY <1>1, <1>4, PutFields DEF OwnerInv, Checks, Takes, Releases, Frees, Places, Between
  <1>6. CASE Performs(c) /\ key = lockname
    <2>1. /\ Written(c) /\ pc[c] \in {"making", "taking", "freeing"}
          /\ lock'.value = clerk[c].args.value
          /\ pc[c] = "freeing" => lock.value = c /\ clerk[c].args.value = Empty
          /\ pc[c] = "making" => clerk[c].args.value = Empty
      BY <1>1, <1>6, LockPerformed
    <2>2. lock'.version = lock.version + 1 /\ clerk[c].args.version = lock.version
      BY <1>6, <2>1 DEF Written, Performs, Record, lock
    <2>3. pc[c] = "making" => OwnerInv(c)'
      BY <1>1, <1>2, <1>3, <2>1 DEF OwnerInv
    <2>4. pc[c] = "taking" => OwnerInv(c)'
      BY <1>1, <1>2, <1>3, <2>2 DEF OwnerInv, Takes
    <2>5. pc[c] = "freeing" => OwnerInv(c)'
      BY <1>1, <1>2, <1>3, <2>1, <2>2 DEF OwnerInv, Frees
    <2> QED
      BY <2>1, <2>3, <2>4, <2>5
  <1>7. CASE Performs(c) /\ key # lockname
    <2>1. lock' = lock
      BY <1>2, <1>7 DEF Performs, lock
    <2> QED
      BY <1>1, <1>3, <1>5, <1>7, <2>1 DEF OwnerInv
  <1>8. CASE Reads(c)
    <2>1. lock' = lock /\ clerk[c].args.op = "Get"
      BY <1>8 DEF Reads, lock
    <2>2. clerk'[c].reply = [err |-> IF Record(c).version = 0 THEN "ErrNoKey" ELSE "OK",
                             value |-> Record(c).value, version |-> Record(c).version]
      BY <1>8, ReplyFields DEF Types, Reads
    <2>3. key = lockname => clerk'[c].reply.value = lock.value /\ clerk'[c].reply.version = lock.version
      BY <2>2 DEF Record, lock
    <2>4. pc[c] \in {"checking", "releasing", "free"}
      BY <1>1, <1>4, <2>1, PutFields DEF OwnerInv, Takes, Frees, Places, Between
    <2>5. pc[c] = "checking" => OwnerInv(c)'
      BY <1>1, <1>2, <1>3, <1>5, <2>1, <2>3 DEF OwnerInv, Checks
    <2>6. pc[c] = "releasing" => OwnerInv(c)'
      BY <1>1, <1>2, <1>3, <1>5, <2>1, <2>3 DEF OwnerInv, Releases
    <2>7. pc[c] = "free" => OwnerInv(c)'
      BY <1>1, <1>3, <2>1 DEF OwnerInv
    <2> QED
      BY <2>1, <2>4, <2>5, <2>6, <2>7
  <1>9. CASE Declines(c)
    <2>1. lock' = lock /\ clerk[c].args.op = "Put"
          /\ (key = lockname => clerk[c].args.version # lock.version)
      BY <1>9 DEF Declines, Record, lock
    <2>2. pc[c] \in {"making", "taking", "freeing", "free"}
      BY <1>1, <1>4, <2>1, PutFields DEF OwnerInv, Checks, Releases, Places, Between
    <2>3. pc[c] \in {"making", "free"} => OwnerInv(c)'
      BY <1>1, <1>3, <2>1 DEF OwnerInv
    <2>4. pc[c] = "taking" => OwnerInv(c)'
      BY <1>1, <1>3, <2>1 DEF OwnerInv, Takes
    <2>5. pc[c] = "freeing" => OwnerInv(c)'
      BY <1>1, <1>3, <1>5, <2>1 DEF OwnerInv, Frees
    <2> QED
      BY <2>1, <2>2, <2>3, <2>4, <2>5
  <1> QED
    BY <1>6, <1>7, <1>8, <1>9 DEF ServeStep

\* The client that calls, goes idle or sends again: the lock is not written.
LEMMA MovedOwner ==
  ASSUME Types, LockInv, NEW c \in Client, Matched(c), Steps(c), ~ServeStep(c)
  PROVE  OwnerInv(c)' /\ lock' = lock
  <1>1. lock' = lock
    BY DEF Steps, CallStep, IdleStep, ResendStep, lock
  <1>2. OwnerInv(c) /\ lock.version \in Nat /\ c # Empty
        /\ (lock.version = 0 => lock.value = Empty)
    BY LockType, Ids DEF LockInv
  <1>3. /\ clerk[c].reply.version \in Nat /\ clerk[c] \in Calls
        /\ Answer(c).value = clerk[c].reply.value /\ Answer(c).version = clerk[c].reply.version
    BY ReplyType, RpcOf
  <1>4. \A here, there : \A args \in Args : CallStep(c, here, there, args) =>
          /\ pc[c] = here /\ pc'[c] = there
          /\ clerk'[c].args = args /\ clerk'[c].rpc = "sent"
    BY DEF CallStep, Calling
  <1>5. \A here, there : IdleStep(c, here, there) =>
          /\ pc[c] = here /\ pc'[c] = there /\ clerk[c].rpc = "replied"
          /\ clerk'[c].args = clerk[c].args /\ clerk'[c].rpc = "idle"
    BY <1>3 DEF IdleStep, Calls
  <1>6. ResendStep(c) =>
          /\ pc'[c] = pc[c] /\ clerk[c].rpc # "idle"
          /\ clerk'[c].args = clerk[c].args /\ clerk'[c].rpc = "sent"
    BY <1>3 DEF ResendStep, Calls
  <1>7. CASE CallStep(c, "new", "making", PutArgs(lockname, Empty, 0))
    BY <1>1, <1>2, <1>4, <1>7, LockArgs DEF OwnerInv
  <1>8. CASE IdleStep(c, "making", "idle")
    BY <1>1, <1>2, <1>5, <1>8 DEF OwnerInv
  <1>9. CASE \/ CallStep(c, "idle", "checking", GetArgs(lockname))
             \/ CallStep(c, "checking", "checking", GetArgs(lockname))
             \/ CallStep(c, "taking", "checking", GetArgs(lockname))
    <2>1. pc'[c] = "checking" /\ clerk'[c].args = GetArgs(lockname) /\ clerk'[c].rpc = "sent"
      BY <1>4, <1>9, LockArgs
    <2> QED
      BY <1>1, <2>1 DEF OwnerInv, Checks
  <1>10. CASE IdleStep(c, "checking", "held") /\ Answer(c).value = c
    BY <1>1, <1>2, <1>3, <1>5, <1>10 DEF OwnerInv, Checks
  <1>11. CASE /\ CallStep(c, "checking", "taking", PutArgs(lockname, c, Answer(c).version))
              /\ Replying(c) /\ Answer(c).value = Empty
    <2>1. PutArgs(lockname, c, Answer(c).version) \in Args
      BY <1>3, LockArgs
    <2>2. pc[c] = "checking" /\ pc'[c] = "taking"
          /\ clerk'[c].args = PutArgs(lockname, c, Answer(c).version)
      BY <1>4, <1>11, <2>1
    <2>3. Takes(c)'
      BY <1>1, <1>2, <1>3, <1>11, <2>2, PutFields DEF OwnerInv, Checks, Takes, Replying
    <2> QED
      BY <1>1, <2>2, <2>3 DEF OwnerInv
  <1>12. CASE CallStep(c, "held", "releasing", GetArgs(lockname))
    BY <1>1, <1>2, <1>4, <1>12, LockArgs DEF OwnerInv, Releases
  <1>13. CASE /\ CallStep(c, "releasing", "freeing", PutArgs(lockname, Empty, Answer(c).version))
              /\ Replying(c) /\ Answer(c).value = c
    <2>1. PutArgs(lockname, Empty, Answer(c).version) \in Args
      BY <1>3, LockArgs
    <2>2. pc[c] = "releasing" /\ pc'[c] = "freeing" /\ clerk'[c].rpc = "sent"
          /\ clerk'[c].args = PutArgs(lockname, Empty, Answer(c).version)
      BY <1>4, <1>13, <2>1
    <2>3. Frees(c)'
      BY <1>1, <1>2, <1>3, <1>13, <2>2, PutFields DEF OwnerInv, Releases, Frees, Replying
    <2> QED
      BY <1>1, <2>2, <2>3 DEF OwnerInv
  <1>14. CASE IdleStep(c, "releasing", "idle") /\ Answer(c).value # c
    BY <1>1, <1>2, <1>3, <1>5, <1>14 DEF OwnerInv, Releases
  <1>15. CASE IdleStep(c, "freeing", "idle")
    BY <1>1, <1>2, <1>5, <1>15 DEF OwnerInv, Frees
  <1>16. CASE \E args \in Args : args.key # lockname /\ CallStep(c, "free", "free", args)
    BY <1>1, <1>2, <1>4, <1>16 DEF OwnerInv
  <1>17. CASE IdleStep(c, "free", "free")
    BY <1>1, <1>2, <1>5, <1>17 DEF OwnerInv
  <1>18. CASE ResendStep(c)
    BY <1>1, <1>2, <1>6, <1>18 DEF OwnerInv, Checks, Takes, Releases, Frees
  <1> QED
    BY <1>1, <1>7, <1>8, <1>9, <1>10, <1>11, <1>12, <1>13, <1>14, <1>15, <1>16, <1>17, <1>18 DEF Steps

LEMMA OwnersStep ==
  ASSUME TypeOK, LockInv, Next
  PROVE  LockInv'
  <1>1. Types /\ \A d \in Client : Matched(d)
    BY TypeParts
  <1>2. PICK c \in Client : Steps(c)
    BY <1>1, NextSteps
  <1>3. \A d \in Client \ {c} : clerk'[d] = clerk[d] /\ pc'[d] = pc[d]
    BY <1>2 DEF Steps, CallStep, IdleStep, ResendStep, ServeStep, Kept
  <1>4. OwnerInv(c)' /\ (lock' = lock \/ Written(c))
    BY <1>1, <1>2, ServedOwner, MovedOwner
  <1>5. \A d \in Client \ {c} : OwnerInv(d)'
    BY <1>1, <1>3, <1>4, Unwritten, WrittenByAnother DEF LockInv
  <1>6. lock.version \in Nat
    BY <1>1, LockType
  <1>7. lock'.version = 0 => lock'.value = Empty
    BY <1>4, <1>6 DEF LockInv, Written
  <1> QED
    BY <1>4, <1>5, <1>7 DEF LockInv

LEMMA OwnersInit == Init => LockInv
  <1> SUFFICES ASSUME Init PROVE LockInv
    OBVIOUS
  <1>1. lock = NoRecord
    BY LockAssumption DEF Init, KVInit, lock
  <1>2. \A c \in Client : pc[c] \in {"new", "free"} /\ clerk[c].rpc = "idle"
    <2> DEFINE call == [Calling(GetArgs(lockname)) EXCEPT !.rpc = "idle"]
    <2>1. call.rpc = "idle"
      BY DEF Calling
    <2>2. clerk = [c \in Client |-> call] /\ pc \in [Client -> {"new", "free"}]
      BY DEF Init, KVInit
    <2> HIDE DEF call
    <2> QED
      BY <2>1, <2>2
  <1> QED
    BY <1>1, <1>2, Ids DEF LockInv, OwnerInv, NoRecord

\* Where every client is in its calls, the record of the lock agrees with it.
THEOREM LockAgrees == Spec => []LockInv
  <1>1. TypeOK /\ LockInv /\ [Next]_lvars => LockInv'
    <2>1. ASSUME LockInv, UNCHANGED lvars PROVE LockInv'
      BY <2>1 DEF lvars, LockInv, OwnerInv, lock, Checks, Takes, Releases, Frees
    <2> QED
      BY <2>1, OwnersStep
  <1> QED
    BY <1>1, OwnersInit, LockTypes, PTL DEF Spec

\* Acquire of lock.go returns to one client at a time, whatever is lost and
\* resent.
THEOREM LockExcludes == Spec => []MutualExclusion
  <1>1. LockInv => MutualExclusion
    BY DEF LockInv, OwnerInv, Releases, MutualExclusion, Holding
  <1> QED
    BY <1>1, LockAgrees, PTL

\* When Release of lock.go returns, the lock no longer carries the client's id.
THEOREM LockIsFreed == Spec => []ReleaseFrees
  <1>1. LockInv => ReleaseFrees
    BY DEF LockInv, OwnerInv, ReleaseFrees, lock
  <1> QED
    BY <1>1, LockAgrees, PTL

-----------------------------------------------------------------------------
(* The lock's clients use the service as KVSrvProofs supposes.             *)

LEMMA NextKVSteps ==
  ASSUME TypeOK, Next
  PROVE  \E c \in Client : KVStep(c)
  <1>1. Types /\ \A d \in Client : Matched(d)
    BY TypeParts
  <1>2. PICK c \in Client :
          \/ MakeLock(c) \/ Acquire(c) \/ Release(c) \/ Resume(c)
          \/ FreeReturn(c) \/ \E args \in FreeArgs(c) : FreeCall(c, args)
          \/ (Serve(c) \/ Resend(c)) /\ UNCHANGED <<pc, acquires>>
    BY DEF Next
  <1>3. Answer(c).version \in Nat
    BY <1>1, AnswerType DEF Types, Replies
  <1>4. CASE MakeLock(c) \/ Acquire(c) \/ Release(c)
    <2>1. clerk[c].rpc = "idle" /\ UNCHANGED <<valueStore, returned>>
      BY <1>1, <1>4 DEF MakeLock, Acquire, Release, At, Matched, Between
    <2>2. \E args \in Args : Call(c, args)
      BY <1>4, LockArgs DEF MakeLock, Acquire, Release
    <2> QED
      BY <2>1, <2>2 DEF KVStep
  <1>5. CASE \E args \in FreeArgs(c) : FreeCall(c, args)
    <2>1. FreeArgs(c) \subseteq Args
      BY LockArgs, ArgsType DEF FreeArgs
    <2> QED
      BY <1>5, <2>1 DEF FreeCall, KVStep
  <1>6. CASE LockMade(c) \/ Taken(c) \/ Freed(c) \/ FreeReturn(c)
    BY <1>6, LockArgs DEF LockMade, Taken, Freed, FreeReturn, ThenCall, KVStep
  <1>7. CASE Check(c)
    BY <1>3, <1>7, LockArgs DEF Check, Acquired, Take, LookAgain, ThenCall, KVStep
  <1>8. CASE ReleaseCheck(c)
    BY <1>3, <1>8, LockArgs DEF ReleaseCheck, ThenCall, KVStep
  <1> QED
    BY <1>2, <1>4, <1>5, <1>6, <1>7, <1>8 DEF Resume, KVStep

\* A Put that the clerk of kvsrv/client.go sent several times is performed once.
THEOREM PutIsPerformedOnce == Spec => []PutsOnce
  <1>1. Init => PutsOnce
    BY KVInitMaps, LockAssumption DEF Init
  <1>2. TypeOK /\ PutsOnce /\ [Next]_lvars => PutsOnce'
    <2>1. ASSUME TypeOK, PutsOnce, Next PROVE PutsOnce'
      BY <2>1, NextKVSteps, OnceStep DEF TypeOK
    <2>2. ASSUME PutsOnce, UNCHANGED lvars PROVE PutsOnce'
      BY <2>2 DEF lvars, PutsOnce, Once, Record
    <2> QED
      BY <2>1, <2>2
  <1> QED
    BY <1>1, <1>2, LockTypes, PTL DEF Spec

\* kvsrv's server and clerks together implement KVService: every step they take
\* under the lock is one of the service's, or none.
THEOREM ImplementsService == Spec => IsService
  <1>1. Init => Service!Init
    BY KVInitMaps, LockAssumption DEF Init
  <1>2. TypeOK /\ PutsOnce /\ [Next]_lvars => [Service!Next]_(Service!svars)
    <2>1. ASSUME TypeOK, PutsOnce, Next PROVE Service!Next \/ UNCHANGED Service!svars
      BY <2>1, NextKVSteps, KVStepMaps DEF TypeOK
    <2>2. ASSUME UNCHANGED lvars PROVE UNCHANGED Service!svars
      BY <2>2 DEF lvars, Service!svars, status, request, performed, answer
    <2> QED
      BY <2>1, <2>2
  <1> QED
    BY <1>1, <1>2, LockTypes, PutIsPerformedOnce, PTL DEF Spec, IsService, Service!Spec
=============================================================================
