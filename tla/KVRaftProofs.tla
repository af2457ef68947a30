----------------------------- MODULE KVRaftProofs -----------------------------
(***************************************************************************)
(* Proved of KVRaft for every set of servers, clerks, keys and requests:   *)
(* the types of its variables and, if no server is ever given a snapshot   *)
(* older than what it has executed (~Rollback), that every server has the  *)
(* map of the operations it has executed (StoresInStep) and that service   *)
(* and clerks together implement KVService (KVIsService).                  *)
(***************************************************************************)
EXTENDS KVRaft, SequenceTheorems, TLAPS

-----------------------------------------------------------------------------
(* Maps.                                                                   *)

\* A record of version 0 stands for none, and holds nothing.
Clean(store) ==
  /\ store \in [Key -> Records]
  /\ \A k \in Key : store[k].version = 0 => store[k] = NoRecord

\* No key of s is missing in t.
Keeps(s, t) == \A k \in Key : t[k].version = 0 => s[k].version = 0

\* NoRecord and NoReply have the types of a record and of a reply.
LEMMA Nothing == NoRecord \in Records /\ NoReply \in Replies /\ Clean(NoStore)
BY ValueAssumption DEF NoRecord, Records, NoReply, Replies, Errors, Clean, NoStore

\* DoOp answers with a reply, keeps a map clean and never removes a key.
LEMMA DoOpKeeps ==
  ASSUME NEW store, Clean(store), NEW a \in Args
  PROVE  /\ Clean(DoOp(store, a).store)
         /\ Keeps(store, DoOp(store, a).store)
         /\ DoOp(store, a).reply \in Replies
<1> DEFINE record == store[a.key]
           d == DoOp(store, a)
<1>1. a.key \in Key /\ a.value \in Value /\ a.version \in Nat /\ a.op \in {"Get", "Put"}
  BY DEF Args
<1>2. record \in Records /\ record.version \in Nat /\ record.value \in Value
  BY <1>1 DEF Clean, Records
<1>3. CASE a.op = "Get"
  <2>1. d = [store |-> store,
             reply |-> [err |-> IF record.version = 0 THEN "ErrNoKey" ELSE "OK",
                        value |-> record.value, version |-> record.version]]
    BY <1>3 DEF DoOp
  <2>2. d.reply \in Replies
    BY <1>2, <2>1 DEF Replies, Errors
  <2> QED BY <2>1, <2>2 DEF Keeps
<1>4. CASE a.op = "Put" /\ SameVersion(a, record)
  <2> DEFINE new == [value |-> a.value, version |-> record.version + 1]
  <2>1. d = [store |-> [store EXCEPT ![a.key] = new], reply |-> NoReply]
    BY <1>4 DEF DoOp
  <2>2. new \in Records /\ new.version # 0
    BY <1>1, <1>2 DEF Records
  <2>0. d.store = [store EXCEPT ![a.key] = new]
    BY <2>1
  <2> HIDE DEF new, d
  <2>3. d.store \in [Key -> Records]
    BY <2>0, <2>2 DEF Clean
  <2>4. \A k \in Key : d.store[k] = IF k = a.key THEN new ELSE store[k]
    BY <2>0 DEF Clean
  <2>5. Clean(d.store) /\ Keeps(store, d.store)
    BY <2>2, <2>3, <2>4 DEF Clean, Keeps
  <2>6. d.reply = NoReply
    BY <2>1
  <2> QED BY <2>5, <2>6, Nothing DEF d
<1>5. CASE a.op = "Put" /\ ~SameVersion(a, record)
  <2>1. d = [store |-> store,
             reply |-> [NoReply EXCEPT !.err =
                          IF record.version = 0 THEN "ErrNoKey" ELSE "ErrVersion"]]
    BY <1>5 DEF DoOp
  <2>2. d.reply \in Replies
    BY <2>1, Nothing DEF NoReply, Replies, Errors
  <2> QED BY <2>1, <2>2 DEF Keeps
<1> QED BY <1>1, <1>3, <1>4, <1>5

\* A snapshot decoded into an older map gives the map it was taken of.
LEMMA DecodedIsData ==
  ASSUME NEW store, Clean(store), NEW data, Clean(data), Keeps(store, data)
  PROVE  Decoded(store, data) = data
<1>1. \A k \in Key : data[k].version = 0 => store[k] = data[k]
  BY DEF Clean, Keeps
<1>2. Decoded(store, data) = [k \in Key |-> data[k]]
  BY <1>1 DEF Decoded
<1> QED BY <1>2 DEF Clean

-----------------------------------------------------------------------------
(* The invariant.                                                          *)

Typed ==
  /\ queue \in Seq(Request) /\ executed \in Seq(Request)
  /\ KVTypeOK

\* history is what the operations executed make of an empty map; the maps in
\* it are clean, and each keeps the keys of the earlier ones.
HistoryInv ==
  /\ history \in Seq([store : [Key -> Records], reply : Replies])
  /\ Len(history) = Len(executed)
  /\ \A n \in 1 .. Len(executed) : history[n] = DoOp(StoreAfter(n - 1), args[executed[n]])
  /\ \A n \in 0 .. Len(executed) : Clean(StoreAfter(n))
  /\ \A m, n \in 0 .. Len(executed) : m <= n => Keeps(StoreAfter(m), StoreAfter(n))

StoresClean == \A i \in Server : Clean(valueStore[i])

KVInv == Typed /\ HistoryInv /\ StoresClean /\ (~Rollback => StoresInStep)

LEMMA CallFields ==
  ASSUME NEW c \in ClerkCalls
  PROVE  c.args \in Args /\ c.attempt \in Nat /\ c.attempt + 1 \in Nat
<1>1. c.args \in Args /\ c.attempt \in Nat
  BY DEF ClerkCalls
<1> QED BY <1>1

\* It holds at first.
LEMMA InvInit == KVInit => KVInv
<1> SUFFICES ASSUME KVInit PROVE KVInv
  OBVIOUS
<1>1. queue = <<>> /\ executed = <<>> /\ history = <<>>
  BY DEF KVInit, Init
<1>2. \A k \in Clerk : (CHOOSE a \in Asked[k] : TRUE) \in Args
  BY AskedAssumption
<1>3. clerk \in [Clerk -> ClerkCalls]
  BY <1>2 DEF KVInit, Idle, ClerkCalls
<1>4. args \in [Request -> Args]
  <2> SUFFICES ASSUME NEW r \in Request PROVE clerk[r[1]].args \in Args
    BY DEF KVInit
  <2>1. r[1] \in Clerk
    <3>1. r \in Clerk \X (Nat \ {0})
      BY AttemptAssumption
    <3> QED BY <3>1
  <2> QED BY <1>3, <2>1, CallFields
<1> HIDE DEF KVInit
<1>5. KVTypeOK
  <2>1. valueStore = [i \in Server |-> NoStore] /\ applied = [i \in Server |-> 0]
    BY DEF KVInit
  <2>2. reply = [k \in Clerk |-> NoReply] /\ result = [k \in Clerk |-> NoReply]
    BY DEF KVInit
  <2>3. NoStore \in [Key -> Records] /\ NoReply \in Replies
    BY Nothing DEF Clean
  <2>4. valueStore \in [Server -> [Key -> Records]]
    BY <2>1, <2>3
  <2>5. Len(executed) = 0
    BY <1>1
  <2>6. applied \in [Server -> 0 .. Len(executed)]
    BY <2>1, <2>5
  <2>7. reply \in [Clerk -> Replies] /\ result \in [Clerk -> Replies]
    BY <2>2, <2>3
  <2> QED BY <1>3, <1>4, <2>4, <2>6, <2>7 DEF KVTypeOK
<1>6. \A n \in 0 .. 0 : StoreAfter(n) = NoStore
  BY DEF StoreAfter
<1>7. HistoryInv
  BY <1>1, <1>6, Nothing DEF HistoryInv, Keeps
<1>8. StoresInStep /\ StoresClean
  BY Nothing DEF KVInit, StoresInStep, StoreAfter, StoresClean
<1> QED BY <1>1, <1>5, <1>7, <1>8 DEF KVInv, Typed
-----------------------------------------------------------------------------
(* The steps preserve it.                                                  *)

\* A request that was executed or waits for it has arguments, and its clerk.
LEMMA RequestTypes ==
  ASSUME Typed, NEW r \in Request
  PROVE  args[r] \in Args /\ r[1] \in Clerk
<1>1. r \in Clerk \X (Nat \ {0})
  BY AttemptAssumption
<1> QED BY <1>1 DEF Typed, KVTypeOK

\* No server has executed more than the group.
LEMMA Bounds ==
  ASSUME KVInv
  PROVE  /\ Len(executed) \in Nat /\ executed \in Seq(Request)
         /\ \A i \in Server : applied[i] \in 0 .. Len(executed)
BY DEF KVInv, Typed, KVTypeOK

\* What was executed stays what it was unless its arguments change.
LEMMA HistoryKept ==
  ASSUME HistoryInv, UNCHANGED <<executed, history>>,
         \A n \in 1 .. Len(executed) : args'[executed[n]] = args[executed[n]]
  PROVE  HistoryInv' /\ \A n : StoreAfter(n)' = StoreAfter(n)
<1>1. \A n : StoreAfter(n)' = StoreAfter(n)
  BY DEF StoreAfter
<1>2. HistoryInv'
  BY DEF HistoryInv, StoreAfter
<1> QED BY <1>1, <1>2

\* The reader of a server executes the next operation.
LEMMA ApplyKeeps ==
  ASSUME KVInv, NEW i \in Server, Apply(i)
  PROVE  KVInv'
<1> DEFINE n == applied[i]
           r == executed[n + 1]
           done == DoOp(valueStore[i], args[r])
<1>1. n \in Nat /\ n + 1 \in 1 .. Len(executed) /\ n \in 0 .. Len(executed)
  BY Bounds DEF Apply
<1>2. r \in Request /\ args[r] \in Args /\ r[1] \in Clerk
  BY <1>1, RequestTypes DEF KVInv, Typed
<1>3. Clean(valueStore[i]) /\ (~Rollback => valueStore[i] = StoreAfter(n))
  BY DEF KVInv, StoresInStep, StoresClean
<1>4. ~Rollback => history[n + 1] = done
  <2>1. (n + 1) - 1 = n
    BY <1>1
  <2> QED BY <1>1, <1>3, <2>1 DEF KVInv, HistoryInv
<1>5. ~Rollback => done.store = StoreAfter(n + 1)
  BY <1>1, <1>4 DEF StoreAfter
<1>6. Clean(done.store) /\ done.store \in [Key -> Records] /\ done.reply \in Replies
  BY <1>2, <1>3, DoOpKeeps DEF Clean
<1>7. /\ applied' = [applied EXCEPT ![i] = n + 1]
      /\ valueStore' = [valueStore EXCEPT ![i] = done.store]
      /\ UNCHANGED <<clerk, args, result, history, queue, executed>>
      /\ reply' = [reply EXCEPT ![r[1]] = done.reply] \/ reply' = reply
  BY DEF Apply, clerks, subvars, Return
<1> HIDE DEF n, r, done
<1>8. HistoryInv' /\ \A m : StoreAfter(m)' = StoreAfter(m)
  BY <1>7, HistoryKept DEF KVInv
<1>9. Typed'
  <2>1. valueStore' \in [Server -> [Key -> Records]]
    BY <1>6, <1>7 DEF KVInv, Typed, KVTypeOK
  <2>2. applied' \in [Server -> 0 .. Len(executed)]
    BY <1>1, <1>7 DEF KVInv, Typed, KVTypeOK
  <2>3. reply' \in [Clerk -> Replies]
    BY <1>2, <1>6, <1>7 DEF KVInv, Typed, KVTypeOK
  <2> QED BY <1>7, <2>1, <2>2, <2>3 DEF KVInv, Typed, KVTypeOK
<1>10. ~Rollback => StoresInStep'
  BY <1>1, <1>5, <1>7, <1>8 DEF KVInv, Typed, KVTypeOK, StoresInStep
<1>11. StoresClean'
  BY <1>6, <1>7 DEF KVInv, Typed, KVTypeOK, StoresClean, Clean
<1> QED BY <1>8, <1>9, <1>10, <1>11 DEF KVInv

\* What a clean map is decoded into stays clean.
LEMMA DecodedIsClean ==
  ASSUME NEW store, Clean(store), NEW data, Clean(data)
  PROVE  Clean(Decoded(store, data))
BY DEF Clean, Decoded

\* A snapshot is decoded into the map that is there.
LEMMA RestoreKeeps ==
  ASSUME KVInv, NEW i \in Server, NEW j \in Server, Restore(i, j)
  PROVE  KVInv'
<1> DEFINE m == applied[i]
           n == applied[j]
           top == IF m < n THEN n ELSE m
           decoded == Restored(i, valueStore[j])
<1>1. m \in 0 .. Len(executed) /\ n \in 0 .. Len(executed) /\ top \in 0 .. Len(executed)
  BY Bounds
<1>2. Clean(decoded)
  BY DecodedIsClean DEF KVInv, StoresClean, Restored
<1>3. /\ applied' = [applied EXCEPT ![i] = top]
      /\ valueStore' = [valueStore EXCEPT ![i] = decoded]
      /\ UNCHANGED <<clerk, args, result, reply, history, queue, executed>>
  BY DEF Restore, clerks, subvars
<1>4. ~Rollback => top = n /\ decoded = StoreAfter(n)
  <2> SUFFICES ASSUME ~Rollback PROVE top = n /\ decoded = StoreAfter(n)
    OBVIOUS
  <2>1. m < n
    BY DEF Restore
  <2>2. valueStore[i] = StoreAfter(m) /\ valueStore[j] = StoreAfter(n)
    BY DEF KVInv, StoresInStep
  <2>3. Clean(StoreAfter(m)) /\ Clean(StoreAfter(n)) /\ Keeps(StoreAfter(m), StoreAfter(n))
    BY <1>1, <2>1 DEF KVInv, HistoryInv
  <2>4. decoded = StoreAfter(n)
    BY <2>2, <2>3, DecodedIsData DEF Restored
  <2> QED BY <2>1, <2>4
<1>5. HistoryInv' /\ \A k : StoreAfter(k)' = StoreAfter(k)
  BY <1>3, HistoryKept DEF KVInv
<1> HIDE DEF m, n, top, decoded
<1>6. Typed'
  BY <1>1, <1>2, <1>3 DEF KVInv, Typed, KVTypeOK, Clean
<1>7. StoresClean'
  BY <1>2, <1>3 DEF KVInv, Typed, KVTypeOK, StoresClean, Clean
<1>8. ~Rollback => StoresInStep'
  BY <1>3, <1>4, <1>5 DEF KVInv, Typed, KVTypeOK, StoresInStep
<1> QED BY <1>5, <1>6, <1>7, <1>8 DEF KVInv

\* A server that crashes starts with an empty map.
LEMMA CrashKeeps ==
  ASSUME KVInv, NEW i \in Server, Crash(i)
  PROVE  KVInv'
<1>1. /\ applied' = [applied EXCEPT ![i] = 0]
      /\ valueStore' = [valueStore EXCEPT ![i] = NoStore]
      /\ UNCHANGED <<args, result, reply, history, queue, executed>>
  BY DEF Crash, subvars
<1>2. HistoryInv' /\ \A k : StoreAfter(k)' = StoreAfter(k)
  BY <1>1, HistoryKept DEF KVInv
<1>3. 0 \in 0 .. Len(executed) /\ NoStore \in [Key -> Records] /\ StoreAfter(0) = NoStore
  BY Nothing DEF KVInv, Typed, Clean, StoreAfter
<1>4. \A k \in Clerk : [clerk[k] EXCEPT !.at = "cut off"] \in ClerkCalls
  BY DEF KVInv, Typed, KVTypeOK, ClerkCalls
<1>5. clerk' \in [Clerk -> ClerkCalls]
  BY <1>4 DEF Crash, KVInv, Typed, KVTypeOK
<1>6. Typed'
  BY <1>1, <1>3, <1>5 DEF KVInv, Typed, KVTypeOK
<1>7. StoresClean' /\ (~Rollback => StoresInStep')
  BY <1>1, <1>2, <1>3, Nothing DEF KVInv, Typed, KVTypeOK, StoresInStep, StoresClean, Clean
<1> QED BY <1>2, <1>6, <1>7 DEF KVInv

\* The group executes one more operation.
LEMMA CommitKeeps ==
  ASSUME KVInv, NEW k \in 1 .. Len(queue), Commit(k)
  PROVE  KVInv'
<1>0. PICK e \in Nat : e = Len(executed)
  BY Bounds
<1> DEFINE r == queue[k]
           done == DoOp(StoreAfter(e), args[r])
           Steps == [store : [Key -> Records], reply : Replies]
<1>1. /\ executed' = Append(executed, r) /\ history' = Append(history, done)
      /\ queue' = SubSeq(queue, k + 1, Len(queue))
      /\ UNCHANGED <<valueStore, applied, clerk, args, result, reply>>
  BY <1>0 DEF Commit, Execute, servers, clerks
<1>2. r \in Request /\ args[r] \in Args
  BY RequestTypes DEF KVInv, Typed
<1>3. e \in Nat /\ e \in 0 .. e /\ executed \in Seq(Request)
      /\ history \in Seq(Steps) /\ Len(history) = e
  BY <1>0 DEF KVInv, Typed, HistoryInv
<1>4. Clean(StoreAfter(e))
  BY <1>3 DEF KVInv, HistoryInv
<1>5. Clean(done.store) /\ Keeps(StoreAfter(e), done.store) /\ done \in Steps
  <2>1. Clean(done.store) /\ Keeps(StoreAfter(e), done.store) /\ done.reply \in Replies
    BY <1>2, <1>4, DoOpKeeps
  <2>2. done = [store |-> done.store, reply |-> done.reply]
    BY <1>2 DEF DoOp, Args
  <2> QED BY <2>1, <2>2 DEF Clean
<1> HIDE DEF done
<1>6. /\ executed' \in Seq(Request) /\ Len(executed') = e + 1
      /\ \A n \in 1 .. e : executed'[n] = executed[n]
      /\ executed'[e + 1] = r
  BY <1>0, <1>1, <1>2, <1>3, AppendProperties
<1>7. /\ history' \in Seq(Steps) /\ Len(history') = e + 1
      /\ \A n \in 1 .. e : history'[n] = history[n]
      /\ history'[e + 1] = done
  BY <1>1, <1>3, <1>5, AppendProperties
<1>8. queue' \in Seq(Request)
  BY <1>1, SubSeqProperties DEF KVInv, Typed
<1>9. /\ \A n \in 0 .. e : StoreAfter(n)' = StoreAfter(n)
      /\ StoreAfter(e + 1)' = done.store
  <2>1. ASSUME NEW n \in 0 .. e PROVE StoreAfter(n)' = StoreAfter(n)
    BY <1>3, <1>7 DEF StoreAfter
  <2>2. e + 1 # 0
    BY <1>3
  <2> QED BY <1>7, <2>1, <2>2 DEF StoreAfter
<1>10. Typed'
  <2>1. applied' \in [Server -> 0 .. Len(executed')]
    BY <1>0, <1>1, <1>3, <1>6 DEF KVInv, Typed, KVTypeOK
  <2> QED BY <1>1, <1>6, <1>8, <2>1 DEF KVInv, Typed, KVTypeOK
<1>11. StoresClean' /\ (~Rollback => StoresInStep')
  BY <1>0, <1>1, <1>9 DEF KVInv, Typed, KVTypeOK, StoresInStep, StoresClean, Clean
<1>12. \A n \in 1 .. e + 1 : history'[n] = DoOp(StoreAfter(n - 1)', args'[executed'[n]])
  <2> TAKE n \in 1 .. e + 1
  <2>1. CASE n = e + 1
    <3>1. n - 1 = e
      BY <1>3, <2>1
    <3> QED BY <1>1, <1>3, <1>6, <1>7, <1>9, <2>1, <3>1 DEF done
  <2>2. CASE n \in 1 .. e
    <3>1. n - 1 \in 0 .. e
      BY <1>3, <2>2
    <3>2. history[n] = DoOp(StoreAfter(n - 1), args[executed[n]])
      BY <1>0, <2>2 DEF KVInv, HistoryInv
    <3> QED BY <1>1, <1>6, <1>7, <1>9, <2>2, <3>1, <3>2
  <2> QED BY <1>3, <2>1, <2>2
<1>13. \A n \in 0 .. e + 1 : Clean(StoreAfter(n)')
  <2>1. \A n \in 0 .. e : Clean(StoreAfter(n))
    BY <1>0 DEF KVInv, HistoryInv
  <2>2. \A n \in 0 .. e : Clean(StoreAfter(n)')
    BY <1>9, <2>1
  <2>3. Clean(StoreAfter(e + 1)')
    BY <1>5, <1>9
  <2> QED BY <1>3, <2>2, <2>3
<1>14. \A m, n \in 0 .. e + 1 : m <= n => Keeps(StoreAfter(m)', StoreAfter(n)')
  <2>1. \A m, n \in 0 .. e : m <= n => Keeps(StoreAfter(m), StoreAfter(n))
    BY <1>0 DEF KVInv, HistoryInv
  <2>2. \A m \in 0 .. e : Keeps(StoreAfter(m), done.store)
    BY <1>3, <1>5, <2>1 DEF Keeps
  <2>3. Keeps(done.store, done.store)
    BY DEF Keeps
  <2> TAKE m, n \in 0 .. e + 1
  <2> HAVE m <= n
  <2>4. CASE m \in 0 .. e /\ n \in 0 .. e
    BY <1>9, <2>1, <2>4
  <2>5. CASE m \in 0 .. e /\ n = e + 1
    BY <1>9, <2>2, <2>5
  <2>6. CASE m = e + 1 /\ n = e + 1
    BY <1>9, <2>3, <2>6
  <2> QED BY <1>3, <2>4, <2>5, <2>6
<1>15. HistoryInv'
  BY <1>0, <1>6, <1>7, <1>12, <1>13, <1>14 DEF HistoryInv, Steps
<1> QED BY <1>10, <1>11, <1>15 DEF KVInv

\* The steps of a clerk leave the servers and the history alone.
LEMMA ClerkKeeps ==
  ASSUME KVInv, NEW k \in Clerk,
         Call(k) \/ TryInVain(k) \/ Resend(k) \/ Finish(k) \/ \E i \in Server : Try(k, i)
  PROVE  KVInv'
<1>1. UNCHANGED <<executed, history, valueStore, applied, reply>>
  BY DEF Call, TryInVain, Resend, Finish, Try, Submit, subvars, servers
<1>2. clerk[k] \in ClerkCalls
  BY DEF KVInv, Typed, KVTypeOK
<1>3. clerk' \in [Clerk -> ClerkCalls] /\ queue' \in Seq(Request) /\ args' \in [Request -> Args]
      /\ result' \in [Clerk -> Replies]
      /\ \A n \in 1 .. Len(executed) : args'[executed[n]] = args[executed[n]]
  <2>1. CASE Call(k)
    <3>1. PICK a \in Asked[k] : clerk' = [clerk EXCEPT ![k] =
            [Idle(a) EXCEPT !.at = "calling", !.first = clerk[k].attempt + 1,
                            !.attempt = clerk[k].attempt]]
      BY <2>1 DEF Call
    <3>2. a \in Args
      BY AskedAssumption
    <3>3. [Idle(a) EXCEPT !.at = "calling", !.first = clerk[k].attempt + 1,
                          !.attempt = clerk[k].attempt] \in ClerkCalls
      <4>1. clerk[k].attempt \in Nat /\ clerk[k].attempt + 1 \in Nat
        BY <1>2, CallFields
      <4> HIDE DEF ClerkCalls
      <4> QED BY <3>2, <4>1 DEF Idle, ClerkCalls
    <3> QED BY <2>1, <3>1, <3>3 DEF Call, KVInv, Typed, KVTypeOK, subvars
  <2>2. CASE TryInVain(k)
    BY <1>2, <2>2 DEF TryInVain, KVInv, Typed, KVTypeOK, ClerkCalls, subvars
  <2>3. CASE Resend(k)
    BY <1>2, <2>3 DEF Resend, KVInv, Typed, KVTypeOK, ClerkCalls, subvars
  <2>4. CASE Finish(k)
    <3>1. Answer(k) \in Replies
      BY DEF Answer, Replies, Errors, KVInv, Typed, KVTypeOK
    <3> QED BY <1>2, <2>4, <3>1 DEF Finish, KVInv, Typed, KVTypeOK, ClerkCalls, subvars
  <2>5. CASE \E i \in Server : Try(k, i)
    <3>1. PICK i \in Server : Try(k, i)
      BY <2>5
    <3> DEFINE r == <<k, clerk[k].attempt + 1>>
    <3>2. /\ r \in Request /\ Unknown(r) /\ queue' = Append(queue, r)
          /\ args' = [args EXCEPT ![r] = clerk[k].args]
          /\ clerk' = [clerk EXCEPT ![k].at = i, ![k].attempt = @ + 1]
          /\ result' = result
      BY <3>1 DEF Try, Submit
    <3>3. clerk' \in [Clerk -> ClerkCalls]
      <4>1. [clerk[k] EXCEPT !.at = i, !.attempt = @ + 1] \in ClerkCalls
        <5> DEFINE c == clerk[k]
        <5>1. c \in ClerkCalls /\ c.attempt + 1 \in Nat
          BY <1>2, CallFields
        <5> HIDE DEF c
        <5>2. [c EXCEPT !.at = i, !.attempt = c.attempt + 1] \in ClerkCalls
          BY <5>1 DEF ClerkCalls
        <5> QED BY <5>2 DEF c
      <4>2. clerk' = [clerk EXCEPT ![k] = [clerk[k] EXCEPT !.at = i, !.attempt = @ + 1]]
        BY <3>2 DEF KVInv, Typed, KVTypeOK
      <4> QED BY <4>1, <4>2 DEF KVInv, Typed, KVTypeOK
    <3> HIDE DEF r
    <3>4. queue' \in Seq(Request)
      BY <3>2 DEF KVInv, Typed
    <3>5. args' \in [Request -> Args]
      BY <1>2, <3>2 DEF KVInv, Typed, KVTypeOK, ClerkCalls
    <3>6. \A n \in 1 .. Len(executed) : executed[n] # r
      BY <3>2 DEF Unknown, InSeq
    <3>7. \A n \in 1 .. Len(executed) : args'[executed[n]] = args[executed[n]]
      <4>1. \A n \in 1 .. Len(executed) : executed[n] \in Request
        BY Bounds
      <4>2. DOMAIN args = Request
        BY DEF KVInv, Typed, KVTypeOK
      <4> QED BY <3>2, <3>6, <4>1, <4>2
    <3> QED BY <3>2, <3>3, <3>4, <3>5, <3>7 DEF KVInv, Typed, KVTypeOK
  <2> QED BY <2>1, <2>2, <2>3, <2>4, <2>5
<1>4. HistoryInv' /\ \A n : StoreAfter(n)' = StoreAfter(n)
  BY <1>1, <1>3, HistoryKept DEF KVInv
<1>5. Typed'
  BY <1>1, <1>3 DEF KVInv, Typed, KVTypeOK
<1>6. StoresClean' /\ (~Rollback => StoresInStep')
  BY <1>1, <1>4 DEF KVInv, StoresInStep, StoresClean, Clean
<1> QED BY <1>4, <1>5, <1>6 DEF KVInv

\* Nothing changes.
LEMMA StutterKeeps ==
  ASSUME KVInv, UNCHANGED kvvars
  PROVE  KVInv'
<1>1. UNCHANGED <<queue, executed, valueStore, applied, clerk, args, result, reply, history>>
  BY DEF kvvars, subvars, servers, clerks
<1>2. HistoryInv' /\ \A n : StoreAfter(n)' = StoreAfter(n)
  BY <1>1, HistoryKept DEF KVInv
<1> QED BY <1>1, <1>2 DEF KVInv, Typed, KVTypeOK, StoresInStep, StoresClean, Clean

-----------------------------------------------------------------------------

LEMMA InvInductive == KVSpec => []KVInv
<1>1. KVInv /\ [KVNext]_kvvars => KVInv'
  <2> SUFFICES ASSUME KVInv, [KVNext]_kvvars PROVE KVInv'
    OBVIOUS
  <2>1. ASSUME NEW i \in Server, Apply(i) \/ Crash(i) \/ \E j \in Server : Restore(i, j)
        PROVE  KVInv'
    BY <2>1, ApplyKeeps, CrashKeeps, RestoreKeeps
  <2>2. ASSUME NEW n \in 1 .. Len(queue), Commit(n)
        PROVE  KVInv'
    BY <2>2, CommitKeeps
  <2>3. ASSUME NEW k \in Clerk,
               Call(k) \/ TryInVain(k) \/ Resend(k) \/ Finish(k) \/ \E i \in Server : Try(k, i)
        PROVE  KVInv'
    BY <2>3, ClerkKeeps
  <2>4. CASE UNCHANGED kvvars
    BY <2>4, StutterKeeps
  <2> QED BY <2>1, <2>2, <2>3, <2>4 DEF KVNext
<1> QED BY InvInit, <1>1, PTL DEF KVSpec

\* The variables keep their types, whatever snapshots arrive: every answer a
\* clerk takes is a reply of the server (server.go:25-61, client.go:29-85).
THEOREM KVRaftTypes == KVSpec => []KVTypeOK
BY InvInductive, PTL DEF KVInv, Typed

\* If no server is given a snapshot older than what it has executed, replicas
\* of the service agree: a server that has executed n operations has the map of
\* the group's first n operations, although Restore decodes a snapshot into the
\* map that is already there (server.go:74-81).  No Put removes a key, so what
\* survives the decoding is in the newer snapshot as well.  Of an older one that
\* is not true, and Raft may hand one over (ServiceInStep, raft.go:584).
THEOREM StoresAgree ==
  ASSUME ~Rollback
  PROVE  KVSpec => []StoresInStep
<1>1. KVInv => StoresInStep
  BY DEF KVInv
<1> QED BY <1>1, InvInductive, PTL

-----------------------------------------------------------------------------
(* The refinement of KVService.                                            *)

\* Of each clerk the attempts are executed, and wait for it, in ascending order.
Ascends(s) == \A m, n \in 1 .. Len(s) : m < n /\ s[m][1] = s[n][1] => s[m][2] < s[n][2]
AttemptsAscend ==
  /\ Ascends(executed) /\ Ascends(queue)
  /\ \A m \in 1 .. Len(executed) : \A n \in 1 .. Len(queue) :
       executed[m][1] = queue[n][1] => executed[m][2] < queue[n][2]

\* What waits in the log belongs to the clerk's present call, and what the clerk
\* has not sent is nowhere.
QueueOfCalls ==
  \A n \in 1 .. Len(queue) :
    /\ clerk[queue[n][1]].at # "idle" /\ args[queue[n]] = clerk[queue[n][1]].args
    /\ clerk[queue[n][1]].first <= queue[n][2] /\ queue[n][2] <= clerk[queue[n][1]].attempt
ExecutedOfCalls ==
  \A n \in 1 .. Len(executed) :
    /\ executed[n][2] <= clerk[executed[n][1]].attempt
    /\ clerk[executed[n][1]].first <= executed[n][2] =>
         args[executed[n]] = clerk[executed[n][1]].args

\* A call that has sent nothing twice has made one attempt, or none yet.
AttemptsCounted ==
  \A k \in Clerk :
    /\ clerk[k].at = "calling" => clerk[k].first <= clerk[k].attempt + 1
                                  /\ (clerk[k].resent \/ clerk[k].first = clerk[k].attempt + 1)
    /\ Waiting(k) => /\ clerk[k].first <= clerk[k].attempt /\ Attempt(k) \in Request
                     /\ clerk[k].resent \/ clerk[k].first = clerk[k].attempt

\* OK means executed, and the reply is the one to that execution.
RepliesRight ==
  /\ returned \in [Request -> {"none", "OK"}]
  /\ \A r \in Request : returned[r] = "OK" => Executed(r)
  /\ \A k \in Clerk : Waiting(k) /\ returned[Attempt(k)] = "OK" =>
       \A n \in 1 .. Len(executed) : executed[n] = Attempt(k) => reply[k] = history[n].reply

\* The n-th operation executed is one of clerk k's present call, and took effect.
TookEffect(k, n) ==
  /\ executed[n][1] = k /\ clerk[k].first <= executed[n][2] /\ clerk[k].args.op = "Put"
  /\ history[n].reply.err = "OK"

\* Once a Put has taken effect no other copy of it finds its version.
PastVersion ==
  \A k \in Clerk : \A n \in 1 .. Len(executed) : TookEffect(k, n) =>
    StoreAfter(Len(executed))[clerk[k].args.key].version > clerk[k].args.version

\* A key that an attempt does not find has not been written by an earlier one.
NoKeyIsTrue ==
  \A k \in Clerk : \A n \in 1 .. Len(executed) :
    Waiting(k) /\ executed[n] = Attempt(k) /\ history[n].reply.err = "ErrNoKey" =>
      \A m \in 1 .. Len(executed) : ~TookEffect(k, m)

CallsInv ==
  /\ AttemptsAscend /\ QueueOfCalls /\ ExecutedOfCalls /\ AttemptsCounted
  /\ RepliesRight /\ PastVersion /\ NoKeyIsTrue

-----------------------------------------------------------------------------
(* What DoOp does, and where an attempt was executed.                      *)

DoOpFacts(store, a, d) ==
  /\ a.key \in Key /\ store[a.key].version \in Nat /\ a.version \in Nat /\ a.op \in {"Get", "Put"}
  /\ a.op = "Get" =>
       /\ d.store = store
       /\ d.reply = [err |-> IF store[a.key].version = 0 THEN "ErrNoKey" ELSE "OK",
                     value |-> store[a.key].value, version |-> store[a.key].version]
  /\ a.op = "Put" /\ store[a.key].version = a.version =>
       /\ d.store = [store EXCEPT ![a.key] = [value |-> a.value, version |-> a.version + 1]]
       /\ d.store[a.key].version = a.version + 1 /\ d.reply = NoReply
  /\ a.op = "Put" /\ store[a.key].version # a.version =>
       /\ d.store = store
       /\ d.reply = [NoReply EXCEPT !.err =
                      IF store[a.key].version = 0 THEN "ErrNoKey" ELSE "ErrVersion"]
       /\ d.reply.err = IF store[a.key].version = 0 THEN "ErrNoKey" ELSE "ErrVersion"
  /\ \A k \in Key : store[k].version \in Nat /\ d.store[k].version \in Nat
                     /\ d.store[k].version >= store[k].version

LEMMA DoOpIs ==
  ASSUME NEW store, Clean(store), NEW a \in Args, NEW d, d = DoOp(store, a)
  PROVE  DoOpFacts(store, a, d)
<1>1. a.key \in Key /\ a.value \in Value /\ a.version \in Nat /\ a.op \in {"Get", "Put"}
  BY DEF Args
<1>2. store \in [Key -> Records] /\ \A k \in Key : store[k].version \in Nat
  BY DEF Clean, Records
<1>3. CASE a.op = "Get"
  <2>1. d = [store |-> store,
             reply |-> [err |-> IF store[a.key].version = 0 THEN "ErrNoKey" ELSE "OK",
                        value |-> store[a.key].value, version |-> store[a.key].version]]
    BY <1>3 DEF DoOp
  <2> QED BY <1>1, <1>2, <1>3, <2>1 DEF DoOpFacts
<1>4. CASE a.op = "Put" /\ store[a.key].version = a.version
  <2>1. d = [store |-> [store EXCEPT ![a.key] =
                          [value |-> a.value, version |-> store[a.key].version + 1]],
             reply |-> NoReply]
    BY <1>4 DEF DoOp, SameVersion
  <2>2. d.store = [store EXCEPT ![a.key] = [value |-> a.value, version |-> a.version + 1]]
        /\ d.reply = NoReply
    BY <1>4, <2>1
  <2>3. PICK new : new = [value |-> a.value, version |-> a.version + 1]
    OBVIOUS
  <2>4. new.version = a.version + 1
    BY <2>3
  <2>5. \A k \in Key : d.store[k] = IF k = a.key THEN new ELSE store[k]
    BY <1>2, <2>2, <2>3
  <2>6. d.store[a.key].version = a.version + 1
    BY <1>1, <2>4, <2>5
  <2>7. \A k \in Key : d.store[k].version \in Nat /\ d.store[k].version >= store[k].version
    <3> TAKE k \in Key
    <3>1. CASE k = a.key
      BY <1>1, <1>4, <2>6, <3>1
    <3>2. CASE k # a.key
      BY <1>2, <2>5, <3>2
    <3> QED BY <3>1, <3>2
  <2> QED BY <1>1, <1>2, <1>4, <2>2, <2>6, <2>7 DEF DoOpFacts
<1>5. CASE a.op = "Put" /\ store[a.key].version # a.version
  <2>1. d = [store |-> store,
             reply |-> [NoReply EXCEPT !.err =
                          IF store[a.key].version = 0 THEN "ErrNoKey" ELSE "ErrVersion"]]
    BY <1>5 DEF DoOp, SameVersion
  <2>2. d.reply.err = IF store[a.key].version = 0 THEN "ErrNoKey" ELSE "ErrVersion"
    BY <2>1 DEF NoReply
  <2> QED BY <1>1, <1>2, <1>5, <2>1, <2>2 DEF DoOpFacts
<1> QED BY <1>1, <1>3, <1>4, <1>5 DEF DoOpFacts

LEMMA AttemptsAre ==
  ASSUME NEW r \in Request
  PROVE  r[1] \in Clerk /\ r[2] \in Nat /\ r[2] # 0 /\ r = <<r[1], r[2]>>
<1>1. r \in Clerk \X (Nat \ {0})
  BY AttemptAssumption
<1> QED BY <1>1

LEMMA Sequences ==
  ASSUME Typed
  PROVE  /\ executed \in Seq(Request) /\ queue \in Seq(Request)
         /\ Len(executed) \in Nat /\ Len(queue) \in Nat
         /\ \A n \in 1 .. Len(executed) : executed[n] \in Request
         /\ \A n \in 1 .. Len(queue) : queue[n] \in Request
<1>1. executed \in Seq(Request) /\ queue \in Seq(Request)
  BY DEF Typed
<1> QED BY <1>1

LEMMA AscendsOnce ==
  ASSUME NEW s \in Seq(Request), Ascends(s)
  PROVE  \A m, n \in 1 .. Len(s) : s[m] = s[n] => m = n
<1> SUFFICES ASSUME NEW m \in 1 .. Len(s), NEW n \in 1 .. Len(s), s[m] = s[n] PROVE m = n
  OBVIOUS
<1>1. s[m] \in Request /\ s[n] \in Request
  OBVIOUS
<1>2. s[m][2] \in Nat /\ ~(s[m][2] < s[m][2])
  BY <1>1, AttemptsAre
<1>3. ~(m < n) /\ ~(n < m)
  BY <1>2 DEF Ascends
<1> QED BY <1>3

LEMMA PlaceIs ==
  ASSUME NEW s, NEW n \in 1 .. Len(s), \A l, m \in 1 .. Len(s) : s[l] = s[m] => l = m
  PROVE  (CHOOSE m \in 1 .. Len(s) : s[m] = s[n]) = n
<1>1. \E m \in 1 .. Len(s) : s[m] = s[n]
  OBVIOUS
<1> QED BY <1>1

\* A call has been performed if one of its attempts was executed with "OK".
ReadOK(s, h, k, first, attempt) ==
  \E a \in first .. attempt :
    /\ \E n \in 1 .. Len(s) : s[n] = <<k, a>>
    /\ h[CHOOSE n \in 1 .. Len(s) : s[n] = <<k, a>>].reply.err = "OK"

LEMMA PerformedRead ==
  ASSUME NEW s \in Seq(Request), Ascends(s), NEW h, NEW k, NEW first \in Nat, NEW attempt \in Nat,
         \A n \in 1 .. Len(s) : s[n][1] = k => s[n][2] <= attempt
  PROVE  ReadOK(s, h, k, first, attempt)
         <=> \E n \in 1 .. Len(s) : s[n][1] = k /\ first <= s[n][2] /\ h[n].reply.err = "OK"
<1>1. \A l, m \in 1 .. Len(s) : s[l] = s[m] => l = m
  BY AscendsOnce
<1>2. ASSUME NEW a \in first .. attempt, NEW n \in 1 .. Len(s), s[n] = <<k, a>>
      PROVE  (CHOOSE m \in 1 .. Len(s) : s[m] = <<k, a>>) = n
  BY <1>1, <1>2, PlaceIs
<1>3. ASSUME NEW a \in first .. attempt, \E n \in 1 .. Len(s) : s[n] = <<k, a>>,
             h[CHOOSE n \in 1 .. Len(s) : s[n] = <<k, a>>].reply.err = "OK"
      PROVE  \E n \in 1 .. Len(s) : s[n][1] = k /\ first <= s[n][2] /\ h[n].reply.err = "OK"
  <2>1. PICK n \in 1 .. Len(s) : s[n] = <<k, a>>
    BY <1>3
  <2>2. h[n].reply.err = "OK"
    BY <1>2, <1>3, <2>1
  <2> QED BY <2>1, <2>2
<1>4. ASSUME NEW n \in 1 .. Len(s), s[n][1] = k, first <= s[n][2], h[n].reply.err = "OK"
      PROVE  \E a \in first .. attempt :
               /\ \E m \in 1 .. Len(s) : s[m] = <<k, a>>
               /\ h[CHOOSE m \in 1 .. Len(s) : s[m] = <<k, a>>].reply.err = "OK"
  <2>1. s[n] \in Request
    OBVIOUS
  <2>2. PICK a \in Nat : a = s[n][2] /\ s[n] = <<k, a>>
    BY <1>4, <2>1, AttemptsAre
  <2>3. a \in first .. attempt
    <3>1. s[n][2] <= attempt
      BY <1>4
    <3>2. a <= attempt /\ first <= a
      BY <1>4, <2>2, <3>1
    <3> QED BY <3>2
  <2>4. (CHOOSE m \in 1 .. Len(s) : s[m] = <<k, a>>) = n
    BY <1>2, <2>2, <2>3
  <2> QED BY <1>4, <2>2, <2>3, <2>4
<1> QED BY <1>3, <1>4 DEF ReadOK

-----------------------------------------------------------------------------
(* The steps that leave the log alone preserve CallsInv.                   *)

LEMMA FieldTypes ==
  ASSUME Typed, NEW k \in Clerk
  PROVE  /\ clerk[k].first \in Nat /\ clerk[k].attempt \in Nat
         /\ clerk[k].args \in Args /\ clerk[k].resent \in BOOLEAN
         /\ clerk[k].at \in {"idle", "calling", "cut off"} \cup Server
<1>1. clerk[k] \in ClerkCalls
  BY DEF Typed, KVTypeOK
<1> QED BY <1>1 DEF ClerkCalls

\* What a step may do to the clerks' calls without looking at the log.
SameCalls(c) ==
  /\ clerk'[c].args = clerk[c].args /\ clerk'[c].first = clerk[c].first
  /\ clerk'[c].attempt = clerk[c].attempt
  /\ clerk'[c].at \in Server \cup {"cut off"} => Waiting(c)
  /\ clerk[c].resent => clerk'[c].resent

LEMMA CallsKept ==
  ASSUME Typed, CallsInv, UNCHANGED <<queue, executed, args, history, returned, reply>>,
         \A c \in Clerk : SameCalls(c),
         \A c \in Clerk : clerk'[c].at = "calling" =>
           (clerk'[c].resent /\ clerk[c].first <= clerk[c].attempt + 1) \/ clerk[c].at = "calling",
         \A n \in 1 .. Len(queue) : clerk'[queue[n][1]].at # "idle"
  PROVE  CallsInv'
<1>1. \A n \in 1 .. Len(queue) : queue[n] \in Request /\ queue[n][1] \in Clerk
  BY Sequences, AttemptsAre
<1>2. \A n \in 1 .. Len(executed) : executed[n] \in Request /\ executed[n][1] \in Clerk
  BY Sequences, AttemptsAre
<1>3. AttemptsAscend'
  BY DEF CallsInv, AttemptsAscend, Ascends
<1>4. QueueOfCalls'
  BY <1>1 DEF CallsInv, QueueOfCalls, SameCalls
<1>5. ExecutedOfCalls'
  BY <1>2 DEF CallsInv, ExecutedOfCalls, SameCalls
<1>6. \A c \in Clerk : Attempt(c)' = Attempt(c) /\ (Waiting(c)' => Waiting(c))
  BY DEF SameCalls, Attempt, Waiting
<1>7. AttemptsCounted'
  <2> SUFFICES ASSUME NEW c \in Clerk
      PROVE  /\ clerk'[c].at = "calling" =>
                  clerk'[c].first <= clerk'[c].attempt + 1
                  /\ (clerk'[c].resent \/ clerk'[c].first = clerk'[c].attempt + 1)
             /\ Waiting(c)' => /\ clerk'[c].first <= clerk'[c].attempt /\ Attempt(c)' \in Request
                               /\ clerk'[c].resent \/ clerk'[c].first = clerk'[c].attempt
    BY DEF AttemptsCounted
  <2>1. SameCalls(c)
    OBVIOUS
  <2>2. clerk'[c].at = "calling" =>
          clerk'[c].first <= clerk'[c].attempt + 1
          /\ (clerk'[c].resent \/ clerk'[c].first = clerk'[c].attempt + 1)
    <3>1. clerk[c].at = "calling" => clerk[c].first <= clerk[c].attempt + 1
            /\ (clerk[c].resent \/ clerk[c].first = clerk[c].attempt + 1)
      BY DEF CallsInv, AttemptsCounted
    <3> QED BY <2>1, <3>1 DEF SameCalls
  <2>3. Waiting(c)' => /\ clerk'[c].first <= clerk'[c].attempt /\ Attempt(c)' \in Request
                       /\ clerk'[c].resent \/ clerk'[c].first = clerk'[c].attempt
    <3>1. Waiting(c) => /\ clerk[c].first <= clerk[c].attempt /\ Attempt(c) \in Request
                        /\ clerk[c].resent \/ clerk[c].first = clerk[c].attempt
      BY DEF CallsInv, AttemptsCounted
    <3> QED BY <1>6, <2>1, <3>1 DEF SameCalls
  <2> QED BY <2>2, <2>3
<1>8. RepliesRight'
  BY <1>6 DEF CallsInv, RepliesRight, Executed, InSeq
<1>9. \A c \in Clerk : \A n \in 1 .. Len(executed) : TookEffect(c, n)' <=> TookEffect(c, n)
  BY DEF TookEffect, SameCalls
<1>10. PastVersion'
  BY <1>9 DEF CallsInv, PastVersion, StoreAfter, SameCalls
<1>11. NoKeyIsTrue'
  BY <1>6, <1>9 DEF CallsInv, NoKeyIsTrue
<1> QED BY <1>3, <1>4, <1>5, <1>7, <1>8, <1>10, <1>11 DEF CallsInv

\* What leaves the clerks alone as well: a snapshot, or nothing.
LEMMA CallsAlone ==
  ASSUME Typed, CallsInv, UNCHANGED <<queue, executed, args, history, returned, reply, clerk>>
  PROVE  CallsInv'
<1>1. \A c \in Clerk : SameCalls(c)
  BY DEF SameCalls, Waiting
<1>2. \A n \in 1 .. Len(queue) : clerk'[queue[n][1]].at # "idle"
  BY DEF CallsInv, QueueOfCalls
<1> QED BY <1>1, <1>2, CallsKept

LEMMA CrashCalls ==
  ASSUME Typed, CallsInv, NEW i \in Server, Crash(i)
  PROVE  CallsInv'
<1>1. UNCHANGED <<queue, executed, args, history, returned, reply>>
  BY DEF Crash, subvars
<1>2. \A c \in Clerk :
        clerk'[c] = IF Waits(Attempt(c), i) THEN [clerk[c] EXCEPT !.at = "cut off"] ELSE clerk[c]
  BY DEF Crash
<1>3. \A c \in Clerk : Waits(Attempt(c), i) => clerk[c].at = i
  BY DEF Waits, Attempt
<1>4. ASSUME NEW c \in Clerk
      PROVE  /\ SameCalls(c)
             /\ clerk'[c].at = "calling" => clerk[c].at = "calling"
             /\ clerk[c].at # "idle" => clerk'[c].at # "idle"
  <2>1. clerk[c] \in ClerkCalls
    BY DEF Typed, KVTypeOK
  <2>2. CASE Waits(Attempt(c), i)
    <3>1. clerk'[c] = [clerk[c] EXCEPT !.at = "cut off"] /\ clerk[c].at = i
      BY <1>2, <1>3, <2>2
    <3> QED BY <2>1, <3>1 DEF SameCalls, ClerkCalls, Waiting
  <2>3. CASE ~Waits(Attempt(c), i)
    <3>1. clerk'[c] = clerk[c]
      BY <1>2, <2>3
    <3> QED BY <3>1 DEF SameCalls, Waiting
  <2> QED BY <2>2, <2>3
<1>5. \A n \in 1 .. Len(queue) : clerk'[queue[n][1]].at # "idle"
  BY <1>4, Sequences, AttemptsAre DEF CallsInv, QueueOfCalls
<1> QED BY <1>1, <1>4, <1>5, CallsKept

LEMMA ResendCalls ==
  ASSUME Typed, CallsInv, NEW k \in Clerk, TryInVain(k) \/ Resend(k)
  PROVE  CallsInv'
<1>1. UNCHANGED <<queue, executed, args, history, returned, reply>>
  BY DEF TryInVain, Resend, subvars
<1>2. clerk[k].at \in {"calling", "cut off"} \cup Server
  BY DEF TryInVain, Resend, Waiting
<1>3. clerk' = [clerk EXCEPT ![k] = [clerk[k] EXCEPT !.at = "calling", !.resent = TRUE]]
  <2>1. clerk \in [Clerk -> ClerkCalls]
    BY DEF Typed, KVTypeOK
  <2>2. CASE TryInVain(k)
    <3>1. clerk[k].at = "calling" /\ clerk' = [clerk EXCEPT ![k] = [clerk[k] EXCEPT !.resent = TRUE]]
      BY <2>2 DEF TryInVain
    <3>2. [clerk[k] EXCEPT !.at = "calling"] = clerk[k]
      BY <2>1, <3>1 DEF ClerkCalls
    <3> QED BY <3>1, <3>2
  <2>3. CASE Resend(k)
    BY <2>1, <2>3 DEF Resend
  <2> QED BY <2>2, <2>3
<1>4. ASSUME NEW c \in Clerk
      PROVE  /\ SameCalls(c)
             /\ clerk'[c].at = "calling" =>
                  \/ clerk'[c].resent /\ clerk[c].first <= clerk[c].attempt + 1
                  \/ clerk[c].at = "calling"
             /\ clerk[c].at # "idle" => clerk'[c].at # "idle"
  <2>1. clerk[c] \in ClerkCalls /\ clerk \in [Clerk -> ClerkCalls]
    BY DEF Typed, KVTypeOK
  <2>2. CASE c = k
    <3>1. clerk'[k] = [clerk[k] EXCEPT !.at = "calling", !.resent = TRUE]
      BY <1>3, <2>1
    <3>2. /\ clerk'[k].args = clerk[k].args /\ clerk'[k].first = clerk[k].first
          /\ clerk'[k].attempt = clerk[k].attempt
          /\ clerk'[k].at = "calling" /\ clerk'[k].resent
      BY <2>1, <2>2, <3>1 DEF ClerkCalls
    <3>3. clerk[k].first <= clerk[k].attempt + 1
      <4>1. clerk[k].first \in Nat /\ clerk[k].attempt \in Nat
        BY FieldTypes
      <4>2. clerk[k].first <= clerk[k].attempt + 1 \/ clerk[k].first <= clerk[k].attempt
        BY <1>2 DEF CallsInv, AttemptsCounted, Waiting
      <4> QED BY <4>1, <4>2
    <3>4. "calling" \notin Server \cup {"cut off"}
      BY ServerAssumption
    <3> QED BY <2>2, <3>2, <3>3, <3>4 DEF SameCalls
  <2>3. CASE c # k
    <3>1. clerk'[c] = clerk[c]
      BY <1>3, <2>1, <2>3
    <3> QED BY <3>1 DEF SameCalls, Waiting
  <2> QED BY <2>2, <2>3
<1>5. \A n \in 1 .. Len(queue) : clerk'[queue[n][1]].at # "idle"
  BY <1>4, Sequences, AttemptsAre DEF CallsInv, QueueOfCalls
<1> QED BY <1>1, <1>4, <1>5, CallsKept

\* Once an attempt is executed no earlier one is left in the log.
LEMMA FinishCalls ==
  ASSUME Typed, CallsInv, NEW k \in Clerk, Finish(k)
  PROVE  CallsInv'
<1>1. UNCHANGED <<queue, executed, args, history, returned, reply>>
  BY DEF Finish, subvars
<1>2. clerk' = [clerk EXCEPT ![k] = [clerk[k] EXCEPT !.at = "idle"]] /\ Waiting(k)
  BY DEF Finish
<1>3. PICK m \in 1 .. Len(executed) : executed[m] = <<k, clerk[k].attempt>>
  <2>1. Attempt(k) \in Request /\ returned[Attempt(k)] = "OK"
    BY DEF CallsInv, AttemptsCounted, Finish
  <2> QED BY <2>1 DEF CallsInv, RepliesRight, Executed, InSeq, Attempt
<1>4. \A n \in 1 .. Len(queue) : queue[n][1] \in Clerk /\ queue[n][1] # k
  <2> TAKE n \in 1 .. Len(queue)
  <2>1. queue[n][1] \in Clerk /\ queue[n][2] \in Nat
    BY Sequences, AttemptsAre
  <2>2. SUFFICES ASSUME queue[n][1] = k PROVE FALSE
    BY <2>1
  <2>3. queue[n][2] <= clerk[k].attempt /\ clerk[k].attempt \in Nat
    BY <2>2, FieldTypes DEF CallsInv, QueueOfCalls
  <2>4. executed[m][1] = k /\ executed[m][2] = clerk[k].attempt
    BY <1>3
  <2>5. clerk[k].attempt < queue[n][2]
    BY <2>2, <2>4 DEF CallsInv, AttemptsAscend
  <2> QED BY <2>1, <2>3, <2>5
<1>5. ASSUME NEW c \in Clerk
      PROVE  /\ SameCalls(c)
             /\ clerk'[c].at = "calling" => clerk[c].at = "calling"
             /\ c # k => clerk'[c] = clerk[c]
  <2>1. clerk[c] \in ClerkCalls /\ clerk \in [Clerk -> ClerkCalls]
    BY DEF Typed, KVTypeOK
  <2>2. CASE c = k
    <3>1. clerk'[k] = [clerk[k] EXCEPT !.at = "idle"]
      BY <1>2, <2>1
    <3>2. /\ clerk'[k].args = clerk[k].args /\ clerk'[k].first = clerk[k].first
          /\ clerk'[k].attempt = clerk[k].attempt
          /\ clerk'[k].at = "idle" /\ clerk'[k].resent = clerk[k].resent
      BY <2>1, <2>2, <3>1 DEF ClerkCalls
    <3>3. "idle" \notin Server \cup {"cut off"}
      BY ServerAssumption
    <3> QED BY <2>2, <3>2, <3>3 DEF SameCalls
  <2>3. CASE c # k
    <3>1. clerk'[c] = clerk[c]
      BY <1>2, <2>1, <2>3
    <3> QED BY <2>3, <3>1 DEF SameCalls, Waiting
  <2> QED BY <2>2, <2>3
<1>6. \A n \in 1 .. Len(queue) : clerk'[queue[n][1]].at # "idle"
  BY <1>4, <1>5 DEF CallsInv, QueueOfCalls
<1> QED BY <1>1, <1>5, <1>6, CallsKept

\* Whoever is answered is answered with the reply of the group.
LEMMA ApplyCalls ==
  ASSUME ~Rollback, KVInv, CallsInv, NEW i \in Server, Apply(i)
  PROVE  CallsInv'
<1>0. Typed
  BY DEF KVInv
<1>1. UNCHANGED <<queue, executed, args, history, clerk>>
  BY DEF Apply, clerks, subvars, Return
<1>2. PICK n \in Nat : n = applied[i] /\ n \in 0 .. Len(executed) /\ n + 1 \in 1 .. Len(executed)
  BY Bounds DEF Apply
<1>3. PICK r \in Request : r = executed[n + 1]
  BY <1>0, <1>2, Sequences
<1>4. PICK done : done = DoOp(valueStore[i], args[r])
  OBVIOUS
<1>5. history[n + 1] = done
  <2>1. (n + 1) - 1 = n
    BY <1>2
  <2>2. valueStore[i] = StoreAfter(n)
    BY <1>2 DEF KVInv, StoresInStep
  <2>3. history[n + 1] = DoOp(StoreAfter((n + 1) - 1), args[executed[n + 1]])
    BY <1>2 DEF KVInv, HistoryInv
  <2> QED BY <1>3, <1>4, <2>1, <2>2, <2>3
<1>6. IF Waits(r, i) THEN /\ returned[r] = "none" /\ returned' = [returned EXCEPT ![r] = "OK"]
                          /\ reply' = [reply EXCEPT ![r[1]] = done.reply]
                     ELSE returned' = returned /\ reply' = reply
  BY <1>2, <1>3, <1>4 DEF Apply, Return, subvars
<1>7. Executed(r)
  BY <1>2, <1>3 DEF Executed, InSeq
<1>8. \A c \in Clerk : SameCalls(c)
  BY <1>1 DEF SameCalls, Waiting
<1>9. r[1] \in Clerk /\ r[2] \in Nat /\ r = <<r[1], r[2]>>
  BY AttemptsAre
<1>10. RepliesRight'
  <2>0. RepliesRight /\ returned \in [Request -> {"none", "OK"}]
    BY DEF CallsInv, RepliesRight
  <2>1. returned' \in [Request -> {"none", "OK"}]
    BY <1>6, <2>0
  <2>2. \A s \in Request : returned'[s] = "OK" => returned[s] = "OK" \/ s = r
    BY <1>6, <2>0
  <2>3. \A s \in Request : returned'[s] = "OK" => Executed(s)'
    <3>1. \A s \in Request : returned'[s] = "OK" => Executed(s)
      BY <1>7, <2>0, <2>2 DEF RepliesRight
    <3>2. \A s \in Request : Executed(s)' <=> Executed(s)
      BY <1>1 DEF Executed, InSeq
    <3> QED BY <3>1, <3>2
  <2>4. ASSUME NEW c \in Clerk, Waiting(c), returned'[Attempt(c)] = "OK",
               NEW m \in 1 .. Len(executed), executed[m] = Attempt(c)
        PROVE  reply'[c] = history[m].reply
    <3>1. Attempt(c) \in Request /\ Attempt(c)[1] = c
      BY <2>4 DEF CallsInv, AttemptsCounted, Attempt
    <3>2. CASE Waits(r, i) /\ r[1] = c
      <4>1. Attempt(c) = r
        BY <1>9, <3>2 DEF Waits, Attempt
      <4>2. executed \in Seq(Request) /\ Ascends(executed)
        BY <1>0, Sequences DEF CallsInv, AttemptsAscend
      <4>3. m = n + 1
        BY <1>2, <1>3, <2>4, <4>1, <4>2, AscendsOnce
      <4>4. reply' = [reply EXCEPT ![c] = done.reply] /\ reply \in [Clerk -> Replies]
        BY <1>0, <1>6, <3>2 DEF Typed, KVTypeOK
      <4> QED BY <1>5, <4>3, <4>4
    <3>3. CASE Waits(r, i) /\ r[1] # c
      <4>1. returned'[Attempt(c)] = returned[Attempt(c)]
        BY <1>6, <2>0, <3>1, <3>3
      <4>2. reply'[c] = reply[c]
        BY <1>0, <1>6, <1>9, <3>3 DEF Typed, KVTypeOK
      <4> QED BY <2>0, <2>4, <4>1, <4>2 DEF RepliesRight
    <3>4. CASE ~Waits(r, i)
      BY <1>6, <2>0, <2>4, <3>4 DEF RepliesRight
    <3> QED BY <3>2, <3>3, <3>4
  <2>5. \A c \in Clerk : (Waiting(c)' <=> Waiting(c)) /\ Attempt(c)' = Attempt(c)
    BY <1>1 DEF Waiting, Attempt
  <2> QED BY <1>1, <2>1, <2>3, <2>4, <2>5 DEF RepliesRight
<1>11. AttemptsAscend' /\ QueueOfCalls' /\ ExecutedOfCalls'
  BY <1>1 DEF CallsInv, AttemptsAscend, Ascends, QueueOfCalls, ExecutedOfCalls
<1>12. AttemptsCounted'
  BY <1>1 DEF CallsInv, AttemptsCounted, Waiting, Attempt
<1>13. PastVersion' /\ NoKeyIsTrue'
  BY <1>1 DEF CallsInv, PastVersion, NoKeyIsTrue, TookEffect, StoreAfter, Waiting, Attempt
<1> QED BY <1>10, <1>11, <1>12, <1>13 DEF CallsInv

\* Nothing of a clerk's earlier calls counts for the next one.
LEMMA CallCalls ==
  ASSUME Typed, CallsInv, NEW k \in Clerk, Call(k)
  PROVE  CallsInv'
<1>1. UNCHANGED <<queue, executed, args, history, returned, reply>> /\ clerk[k].at = "idle"
  BY DEF Call, subvars
<1>2. PICK a \in Args : clerk' = [clerk EXCEPT ![k] =
        [Idle(a) EXCEPT !.at = "calling", !.first = clerk[k].attempt + 1,
                        !.attempt = clerk[k].attempt]]
  BY AskedAssumption DEF Call
<1>3. clerk \in [Clerk -> ClerkCalls] /\ clerk[k].attempt \in Nat
  BY FieldTypes DEF Typed, KVTypeOK
<1>4. /\ clerk'[k].at = "calling" /\ clerk'[k].args = a
      /\ clerk'[k].first = clerk[k].attempt + 1 /\ clerk'[k].attempt = clerk[k].attempt
  BY <1>2, <1>3 DEF Idle
<1>5. \A c \in Clerk : c # k => clerk'[c] = clerk[c]
  BY <1>2, <1>3
<1>6. \A n \in 1 .. Len(queue) : queue[n][1] \in Clerk /\ queue[n][1] # k
  BY <1>1, Sequences, AttemptsAre DEF CallsInv, QueueOfCalls
<1>7. \A n \in 1 .. Len(executed) : executed[n][1] \in Clerk /\ executed[n][2] \in Nat
        /\ (executed[n][1] = k => ~(clerk[k].attempt + 1 <= executed[n][2]))
  <2> TAKE n \in 1 .. Len(executed)
  <2>1. executed[n][1] \in Clerk /\ executed[n][2] \in Nat
    BY Sequences, AttemptsAre
  <2>2. executed[n][1] = k => executed[n][2] <= clerk[k].attempt
    BY DEF CallsInv, ExecutedOfCalls
  <2> QED BY <1>3, <2>1, <2>2
<1>8. AttemptsAscend'
  BY <1>1 DEF CallsInv, AttemptsAscend, Ascends
<1>9. QueueOfCalls'
  BY <1>1, <1>5, <1>6 DEF CallsInv, QueueOfCalls
<1>10. ExecutedOfCalls'
  <2> SUFFICES ASSUME NEW n \in 1 .. Len(executed)
      PROVE  /\ executed[n][2] <= clerk'[executed[n][1]].attempt
             /\ clerk'[executed[n][1]].first <= executed[n][2] =>
                  args[executed[n]] = clerk'[executed[n][1]].args
    BY <1>1 DEF ExecutedOfCalls
  <2>1. CASE executed[n][1] = k
    BY <1>4, <1>7, <2>1 DEF CallsInv, ExecutedOfCalls
  <2>2. CASE executed[n][1] # k
    BY <1>5, <1>7, <2>2 DEF CallsInv, ExecutedOfCalls
  <2> QED BY <2>1, <2>2
<1>11. ~Waiting(k)' /\ \A c \in Clerk : c # k =>
         (Waiting(c)' <=> Waiting(c)) /\ Attempt(c)' = Attempt(c)
  <2>1. ~Waiting(k)'
    BY <1>4, ServerAssumption DEF Waiting
  <2> QED BY <1>5, <2>1 DEF Waiting, Attempt
<1>12. AttemptsCounted'
  <2>1. clerk'[k].first <= clerk'[k].attempt + 1 /\ clerk'[k].first = clerk'[k].attempt + 1
    BY <1>3, <1>4
  <2>2. \A c \in Clerk : c # k => clerk'[c] = clerk[c] /\ (Waiting(c)' <=> Waiting(c))
                                  /\ Attempt(c)' = Attempt(c)
    BY <1>5, <1>11
  <2> QED BY <1>11, <2>1, <2>2 DEF CallsInv, AttemptsCounted
<1>13. RepliesRight'
  <2>1. \A c \in Clerk : Waiting(c)' => Waiting(c) /\ Attempt(c)' = Attempt(c)
    BY <1>11
  <2> QED BY <1>1, <2>1 DEF CallsInv, RepliesRight, Executed, InSeq
<1>14. \A c \in Clerk : \A n \in 1 .. Len(executed) :
         TookEffect(c, n)' => c # k /\ TookEffect(c, n)
  <2> TAKE c \in Clerk
  <2> TAKE n \in 1 .. Len(executed)
  <2>1. c = k => ~TookEffect(c, n)'
    BY <1>1, <1>4, <1>7 DEF TookEffect
  <2>2. c # k => (TookEffect(c, n)' => TookEffect(c, n))
    BY <1>1, <1>5 DEF TookEffect
  <2> QED BY <2>1, <2>2
<1>15. PastVersion'
  BY <1>1, <1>5, <1>14 DEF CallsInv, PastVersion, StoreAfter
<1>16. NoKeyIsTrue'
  BY <1>1, <1>11, <1>14 DEF CallsInv, NoKeyIsTrue
<1> QED BY <1>8, <1>9, <1>10, <1>12, <1>13, <1>15, <1>16 DEF CallsInv

\* An attempt goes to the end of the log, behind all of the clerk's earlier ones.
LEMMA TryCalls ==
  ASSUME Typed, CallsInv, NEW k \in Clerk, NEW i \in Server, Try(k, i)
  PROVE  CallsInv'
<1>1. UNCHANGED <<executed, history, returned, reply>> /\ clerk[k].at = "calling"
  BY DEF Try, Submit, subvars
<1>2. PICK a \in Nat : a = clerk[k].attempt
  <2>1. clerk[k].attempt \in Nat
    BY FieldTypes
  <2> QED BY <2>1
<1>3. PICK r \in Request : r = <<k, a + 1>>
  BY <1>2 DEF Try
<1>4. /\ Unknown(r) /\ queue' = Append(queue, r)
      /\ args' = [args EXCEPT ![r] = clerk[k].args]
      /\ clerk' = [clerk EXCEPT ![k] = [clerk[k] EXCEPT !.at = i, !.attempt = a + 1]]
  <2>1. clerk' = [clerk EXCEPT ![k].at = i, ![k].attempt = @ + 1]
    BY DEF Try
  <2>2. clerk \in [Clerk -> ClerkCalls]
    BY DEF Typed, KVTypeOK
  <2> QED BY <1>2, <1>3, <2>1, <2>2 DEF Try, Submit
<1>5. clerk \in [Clerk -> ClerkCalls] /\ args \in [Request -> Args]
  BY DEF Typed, KVTypeOK
<1>6. /\ clerk'[k].at = i /\ clerk'[k].args = clerk[k].args /\ clerk'[k].first = clerk[k].first
      /\ clerk'[k].attempt = a + 1 /\ clerk'[k].resent = clerk[k].resent
  <2>1. clerk'[k] = [clerk[k] EXCEPT !.at = i, !.attempt = a + 1]
    BY <1>4, <1>5
  <2> QED BY <1>5, <2>1 DEF ClerkCalls
<1>7. \A c \in Clerk : c # k => clerk'[c] = clerk[c]
  BY <1>4, <1>5
<1>8. i \notin {"idle", "calling", "cut off"}
  BY ServerAssumption
<1>9. PICK q \in Nat : q = Len(queue)
  BY Sequences
<1>10. /\ Len(queue') = q + 1 /\ queue'[q + 1] = r
       /\ \A n \in 1 .. q : queue'[n] = queue[n]
  <2>1. queue \in Seq(Request)
    BY Sequences
  <2> QED BY <1>4, <1>9, <2>1, AppendProperties
<1>11. 1 .. Len(queue') = 1 .. q + 1 /\ \A n \in 1 .. q + 1 : n \in 1 .. q \/ n = q + 1
  BY <1>9, <1>10
<1>12. \A n \in 1 .. q : queue[n] \in Request /\ queue[n][1] \in Clerk /\ queue[n][2] \in Nat
                          /\ queue[n] # r /\ (queue[n][1] = k => queue[n][2] <= a)
  <2> TAKE n \in 1 .. q
  <2>1. queue[n] \in Request /\ queue[n][1] \in Clerk /\ queue[n][2] \in Nat
    BY <1>9, Sequences, AttemptsAre
  <2>2. queue[n] # r
    BY <1>4, <1>9 DEF Unknown, InSeq
  <2>3. queue[n][1] = k => queue[n][2] <= a
    BY <1>2, <1>9 DEF CallsInv, QueueOfCalls
  <2> QED BY <2>1, <2>2, <2>3
<1>13. \A n \in 1 .. Len(executed) :
         /\ executed[n] \in Request /\ executed[n][1] \in Clerk /\ executed[n][2] \in Nat
         /\ executed[n] # r /\ (executed[n][1] = k => executed[n][2] <= a)
  <2> TAKE n \in 1 .. Len(executed)
  <2>1. executed[n] \in Request /\ executed[n][1] \in Clerk /\ executed[n][2] \in Nat
    BY Sequences, AttemptsAre
  <2>2. executed[n] # r
    BY <1>4 DEF Unknown, InSeq
  <2>3. executed[n][1] = k => executed[n][2] <= a
    BY <1>2 DEF CallsInv, ExecutedOfCalls
  <2> QED BY <2>1, <2>2, <2>3
<1>14. r[1] = k /\ r[2] = a + 1
  BY <1>3
<1>15. \A s \in Request : s # r => args'[s] = args[s]
  BY <1>4, <1>5
<1>16. args'[r] = clerk[k].args
  BY <1>4, <1>5
<1>17. AttemptsAscend'
  <2>1. Ascends(executed)'
    BY <1>1 DEF CallsInv, AttemptsAscend, Ascends
  <2>2. Ascends(queue)'
    <3> SUFFICES ASSUME NEW m \in 1 .. q + 1, NEW n \in 1 .. q + 1, m < n,
                        queue'[m][1] = queue'[n][1]
        PROVE  queue'[m][2] < queue'[n][2]
      BY <1>11 DEF Ascends
    <3>1. m \in 1 .. q
      BY <1>9, <1>11
    <3>2. CASE n = q + 1
      <4>1. queue[m][1] = k /\ queue'[n][2] = a + 1 /\ queue'[m] = queue[m]
        BY <1>10, <1>14, <3>1, <3>2
      <4> QED BY <1>2, <1>12, <3>1, <4>1
    <3>3. CASE n \in 1 .. q
      <4>1. queue'[m] = queue[m] /\ queue'[n] = queue[n]
        BY <1>10, <3>1, <3>3
      <4> QED BY <1>9, <3>1, <3>3, <4>1 DEF CallsInv, AttemptsAscend, Ascends
    <3> QED BY <1>11, <3>2, <3>3
  <2>3. \A m \in 1 .. Len(executed) : \A n \in 1 .. q + 1 :
          executed[m][1] = queue'[n][1] => executed[m][2] < queue'[n][2]
    <3> TAKE m \in 1 .. Len(executed)
    <3> TAKE n \in 1 .. q + 1
    <3>1. CASE n = q + 1
      <4>1. queue'[n][1] = k /\ queue'[n][2] = a + 1
        BY <1>10, <1>14, <3>1
      <4> QED BY <1>2, <1>13, <4>1
    <3>2. CASE n \in 1 .. q
      <4>1. queue'[n] = queue[n]
        BY <1>10, <3>2
      <4> QED BY <1>9, <3>2, <4>1 DEF CallsInv, AttemptsAscend
    <3> QED BY <1>11, <3>1, <3>2
  <2> QED BY <1>1, <1>11, <2>1, <2>2, <2>3 DEF AttemptsAscend
<1>18. QueueOfCalls'
  <2> SUFFICES ASSUME NEW n \in 1 .. q + 1
      PROVE  /\ clerk'[queue'[n][1]].at # "idle"
             /\ args'[queue'[n]] = clerk'[queue'[n][1]].args
             /\ clerk'[queue'[n][1]].first <= queue'[n][2]
             /\ queue'[n][2] <= clerk'[queue'[n][1]].attempt
    BY <1>11 DEF QueueOfCalls
  <2>1. CASE n = q + 1
    <3>1. queue'[n] = r
      BY <1>10, <2>1
    <3>2. clerk[k].first <= a + 1
      BY <1>1, <1>2 DEF CallsInv, AttemptsCounted
    <3>3. /\ clerk'[k].at # "idle" /\ args'[r] = clerk'[k].args
          /\ clerk'[k].first <= a + 1 /\ a + 1 <= clerk'[k].attempt
      <4>1. a + 1 <= a + 1
        BY <1>2
      <4> QED BY <1>6, <1>8, <1>16, <3>2, <4>1
    <3> QED BY <1>14, <3>1, <3>3
  <2>2. CASE n \in 1 .. q
    <3>1. queue'[n] = queue[n]
      BY <1>10, <2>2
    <3>2. args'[queue[n]] = args[queue[n]]
      BY <1>12, <1>15, <2>2
    <3>3. /\ clerk[queue[n][1]].at # "idle" /\ args[queue[n]] = clerk[queue[n][1]].args
          /\ clerk[queue[n][1]].first <= queue[n][2] /\ queue[n][2] <= clerk[queue[n][1]].attempt
      BY <1>9, <2>2 DEF CallsInv, QueueOfCalls
    <3>4. CASE queue[n][1] = k
      <4>1. queue[n][2] <= a + 1
        BY <1>2, <1>12, <2>2, <3>4
      <4> QED BY <1>6, <1>8, <3>1, <3>2, <3>3, <3>4, <4>1
    <3>5. CASE queue[n][1] # k
      BY <1>7, <1>12, <2>2, <3>1, <3>2, <3>3, <3>5
    <3> QED BY <3>4, <3>5
  <2> QED BY <1>11, <2>1, <2>2
<1>19. ExecutedOfCalls'
  <2> SUFFICES ASSUME NEW n \in 1 .. Len(executed)
      PROVE  /\ executed[n][2] <= clerk'[executed[n][1]].attempt
             /\ clerk'[executed[n][1]].first <= executed[n][2] =>
                  args'[executed[n]] = clerk'[executed[n][1]].args
    BY <1>1 DEF ExecutedOfCalls
  <2>1. args'[executed[n]] = args[executed[n]]
    BY <1>13, <1>15
  <2>2. /\ executed[n][2] <= clerk[executed[n][1]].attempt
        /\ clerk[executed[n][1]].first <= executed[n][2] =>
             args[executed[n]] = clerk[executed[n][1]].args
    BY DEF CallsInv, ExecutedOfCalls
  <2>3. CASE executed[n][1] = k
    <3>1. executed[n][2] <= a + 1
      BY <1>2, <1>13, <2>3
    <3> QED BY <1>6, <2>1, <2>2, <2>3, <3>1
  <2>4. CASE executed[n][1] # k
    BY <1>7, <1>13, <2>1, <2>2, <2>4
  <2> QED BY <2>3, <2>4
<1>20. Attempt(k)' = r /\ \A c \in Clerk : c # k =>
         (Waiting(c)' <=> Waiting(c)) /\ Attempt(c)' = Attempt(c)
  BY <1>3, <1>6, <1>7 DEF Attempt, Waiting
<1>21. AttemptsCounted'
  <2> SUFFICES ASSUME NEW c \in Clerk
      PROVE  /\ clerk'[c].at = "calling" =>
                  clerk'[c].first <= clerk'[c].attempt + 1
                  /\ (clerk'[c].resent \/ clerk'[c].first = clerk'[c].attempt + 1)
             /\ Waiting(c)' => /\ clerk'[c].first <= clerk'[c].attempt /\ Attempt(c)' \in Request
                               /\ clerk'[c].resent \/ clerk'[c].first = clerk'[c].attempt
    BY DEF AttemptsCounted
  <2>1. CASE c = k
    <3>1. clerk[k].first <= a + 1 /\ (clerk[k].resent \/ clerk[k].first = a + 1)
      BY <1>1, <1>2 DEF CallsInv, AttemptsCounted
    <3>2. clerk'[k].first <= clerk'[k].attempt /\ Attempt(k)' \in Request
          /\ (clerk'[k].resent \/ clerk'[k].first = clerk'[k].attempt)
      BY <1>6, <1>20, <3>1
    <3>3. clerk'[k].at # "calling"
      BY <1>6, <1>8
    <3> QED BY <2>1, <3>2, <3>3
  <2>2. CASE c # k
    <3>1. clerk'[c] = clerk[c] /\ (Waiting(c)' <=> Waiting(c)) /\ Attempt(c)' = Attempt(c)
      BY <1>7, <1>20, <2>2
    <3> QED BY <3>1 DEF CallsInv, AttemptsCounted
  <2> QED BY <2>1, <2>2
<1>22. RepliesRight'
  <2>1. \A c \in Clerk : c # k => (Waiting(c)' => Waiting(c)) /\ Attempt(c)' = Attempt(c)
    BY <1>20
  <2>2. returned[r] # "OK"
    BY <1>4 DEF Unknown
  <2>3. ASSUME NEW c \in Clerk, Waiting(c)', returned'[Attempt(c)'] = "OK",
               NEW n \in 1 .. Len(executed'), executed'[n] = Attempt(c)'
        PROVE  reply'[c] = history'[n].reply
    <3>1. c # k
      BY <1>1, <1>20, <2>2, <2>3
    <3> QED BY <1>1, <2>1, <2>3, <3>1 DEF CallsInv, RepliesRight
  <2>4. returned' \in [Request -> {"none", "OK"}]
        /\ \A s \in Request : returned'[s] = "OK" => Executed(s)'
    BY <1>1 DEF CallsInv, RepliesRight, Executed, InSeq
  <2> QED BY <2>3, <2>4 DEF RepliesRight
<1>23. \A c \in Clerk : \A n \in 1 .. Len(executed) : TookEffect(c, n)' <=> TookEffect(c, n)
  <2> TAKE c \in Clerk
  <2>1. clerk'[c].first = clerk[c].first /\ clerk'[c].args = clerk[c].args
    BY <1>6, <1>7
  <2> QED BY <1>1, <2>1 DEF TookEffect
<1>24. PastVersion'
  <2>1. \A c \in Clerk : clerk'[c].args = clerk[c].args
    BY <1>6, <1>7
  <2> QED BY <1>1, <1>23, <2>1 DEF CallsInv, PastVersion, StoreAfter
<1>25. NoKeyIsTrue'
  <2> SUFFICES ASSUME NEW c \in Clerk, NEW n \in 1 .. Len(executed), Waiting(c)',
                      executed[n] = Attempt(c)', history[n].reply.err = "ErrNoKey",
                      NEW m \in 1 .. Len(executed), TookEffect(c, m)'
      PROVE  FALSE
    BY <1>1 DEF NoKeyIsTrue
  <2>1. c # k
    BY <1>13, <1>20
  <2>2. Waiting(c) /\ executed[n] = Attempt(c) /\ TookEffect(c, m)
    BY <1>20, <1>23, <2>1
  <2> QED BY <2>2 DEF CallsInv, NoKeyIsTrue
<1> QED BY <1>17, <1>18, <1>19, <1>21, <1>22, <1>24, <1>25 DEF CallsInv

\* The group executes its (e + 1)-st operation: attempt r of clerk k, from place n.
Committed(n, e, q, r, k, done) ==
  /\ e = Len(executed) /\ q = Len(queue) /\ r = queue[n] /\ k = r[1] /\ r[2] \in Nat
  /\ done = DoOp(StoreAfter(e), args[r])
  /\ UNCHANGED <<returned, valueStore, applied, clerk, args, result, reply>>
  /\ Len(executed') = e + 1 /\ executed'[e + 1] = r
  /\ \A m \in 1 .. e : executed'[m] = executed[m]
  /\ Len(history') = e + 1 /\ history'[e + 1] = done
  /\ \A m \in 1 .. e : history'[m] = history[m]
  /\ Len(queue') = q - n /\ \A m \in 1 .. q - n : queue'[m] = queue[n + m]
  /\ StoreAfter(Len(executed))' = done.store
  /\ clerk[k].at # "idle" /\ args[r] = clerk[k].args
  /\ clerk[k].first <= r[2] /\ r[2] <= clerk[k].attempt
  /\ \A m \in 1 .. e : executed[m][1] = k => executed[m][2] < r[2]

LEMMA CommitIs ==
  ASSUME KVInv, CallsInv, NEW n \in 1 .. Len(queue), Commit(n)
  PROVE  \E done : \E e \in Nat, q \in Nat, r \in Request, k \in Clerk : Committed(n, e, q, r, k, done)
<1>0. Typed /\ HistoryInv
  BY DEF KVInv
<1>1. PICK e \in Nat, q \in Nat : e = Len(executed) /\ q = Len(queue)
  BY <1>0, Sequences
<1>2. PICK r \in Request : r = queue[n]
  BY <1>0, Sequences
<1>3. PICK k \in Clerk : k = r[1] /\ r[2] \in Nat
  BY AttemptsAre
<1>4. PICK done : done = DoOp(StoreAfter(e), args[r])
  OBVIOUS
<1>5. /\ executed' = Append(executed, r) /\ history' = Append(history, done)
      /\ queue' = SubSeq(queue, n + 1, Len(queue))
      /\ UNCHANGED <<returned, valueStore, applied, clerk, args, result, reply>>
  BY <1>1, <1>2, <1>4 DEF Commit, Execute, servers, clerks
<1>6. executed \in Seq(Request) /\ queue \in Seq(Request) /\ Len(history) = e
  BY <1>0, <1>1, Sequences DEF HistoryInv
<1>7. history \in Seq([store : [Key -> Records], reply : Replies])
  BY <1>0 DEF HistoryInv
<1>8. Len(executed') = e + 1 /\ executed'[e + 1] = r /\ \A m \in 1 .. e : executed'[m] = executed[m]
  BY <1>1, <1>5, <1>6, AppendProperties
<1>9. Len(history') = e + 1 /\ history'[e + 1] = done /\ \A m \in 1 .. e : history'[m] = history[m]
  BY <1>5, <1>6, <1>7
<1>10. Len(queue') = q - n /\ \A m \in 1 .. q - n : queue'[m] = queue[n + m]
  <2>1. n \in 1 .. q
    BY <1>1
  <2>2. queue' = SubSeq(queue, n + 1, q)
    BY <1>1, <1>5
  <2>3. n + 1 \in 1 .. q + 1 /\ q \in n .. q
    BY <1>1, <2>1
  <2>4. Len(queue') = q - n
    BY <1>1, <1>6, <2>1, <2>2
  <2>5. \A m \in 1 .. q - n : queue'[m] = queue[n + m]
    BY <1>1, <1>6, <2>1, <2>2
  <2> QED BY <2>4, <2>5
<1>11. StoreAfter(Len(executed))' = done.store
  <2>1. e + 1 # 0
    BY <1>1
  <2> QED BY <1>8, <1>9, <2>1 DEF StoreAfter
<1>12. /\ clerk[k].at # "idle" /\ args[r] = clerk[k].args
       /\ clerk[k].first <= r[2] /\ r[2] <= clerk[k].attempt
  BY <1>2, <1>3 DEF CallsInv, QueueOfCalls
<1>13. \A m \in 1 .. e : executed[m][1] = k => executed[m][2] < r[2]
  BY <1>1, <1>2, <1>3 DEF CallsInv, AttemptsAscend
<1>14. Committed(n, e, q, r, k, done)
  BY <1>1, <1>2, <1>3, <1>4, <1>5, <1>8, <1>9, <1>10, <1>11, <1>12, <1>13 DEF Committed
<1> QED BY <1>14

\* The group executes an attempt, and perhaps skips earlier ones.
LEMMA CommitCalls ==
  ASSUME KVInv, CallsInv, NEW n \in 1 .. Len(queue), Commit(n)
  PROVE  CallsInv'
<1>0. Typed /\ HistoryInv
  BY DEF KVInv
<1>a. PICK done : \E e \in Nat, q \in Nat, r \in Request, k \in Clerk : Committed(n, e, q, r, k, done)
  BY CommitIs
<1>1. PICK e \in Nat, q \in Nat, r \in Request, k \in Clerk :
           /\ e = Len(executed) /\ q = Len(queue) /\ r = queue[n] /\ k = r[1] /\ r[2] \in Nat
           /\ done = DoOp(StoreAfter(e), args[r])
           /\ UNCHANGED <<returned, valueStore, applied, clerk, args, result, reply>>
           /\ Len(executed') = e + 1 /\ executed'[e + 1] = r
           /\ \A m \in 1 .. e : executed'[m] = executed[m]
           /\ Len(history') = e + 1 /\ history'[e + 1] = done
           /\ \A m \in 1 .. e : history'[m] = history[m]
           /\ Len(queue') = q - n /\ \A m \in 1 .. q - n : queue'[m] = queue[n + m]
           /\ StoreAfter(Len(executed))' = done.store
           /\ clerk[k].at # "idle" /\ args[r] = clerk[k].args
           /\ clerk[k].first <= r[2] /\ r[2] <= clerk[k].attempt
           /\ \A m \in 1 .. e : executed[m][1] = k => executed[m][2] < r[2]
  BY <1>a DEF Committed
<1>2. 1 .. Len(executed') = 1 .. e + 1 /\ \A m \in 1 .. e + 1 : m \in 1 .. e \/ m = e + 1
  BY <1>1
<1>3. n \in 1 .. q /\ 1 .. Len(queue') = 1 .. q - n /\ \A m \in 1 .. q - n : n + m \in 1 .. q /\ n < n + m
  BY <1>1
<1>4. \A m \in 1 .. e : executed[m] \in Request /\ executed[m][1] \in Clerk /\ executed[m][2] \in Nat
  BY <1>0, <1>1, Sequences, AttemptsAre
<1>5. \A m \in 1 .. q : queue[m] \in Request /\ queue[m][1] \in Clerk /\ queue[m][2] \in Nat
  BY <1>0, <1>1, Sequences, AttemptsAre
<1>6. UNCHANGED <<returned, clerk, args, reply>>
  BY <1>1
<1>7. executed'[e + 1] = r /\ \A m \in 1 .. e : executed'[m] = executed[m] /\ history'[m] = history[m]
  BY <1>1
<1>8. \A m \in 1 .. q - n : queue'[m] = queue[n + m]
  BY <1>1
<1>9. AttemptsAscend'
  <2>1. Ascends(executed)'
    <3> SUFFICES ASSUME NEW l \in 1 .. e + 1, NEW m \in 1 .. e + 1, l < m,
                        executed'[l][1] = executed'[m][1]
        PROVE  executed'[l][2] < executed'[m][2]
      BY <1>2 DEF Ascends
    <3>1. l \in 1 .. e
      BY <1>1, <1>2
    <3>2. CASE m = e + 1
      <4>1. executed'[m] = r /\ executed'[l] = executed[l]
        BY <1>7, <3>1, <3>2
      <4> QED BY <1>1, <3>1, <4>1
    <3>3. CASE m \in 1 .. e
      <4>1. executed'[l] = executed[l] /\ executed'[m] = executed[m]
        BY <1>7, <3>1, <3>3
      <4> QED BY <1>1, <3>1, <3>3, <4>1 DEF CallsInv, AttemptsAscend, Ascends
    <3> QED BY <1>2, <3>2, <3>3
  <2>2. Ascends(queue)'
    <3> SUFFICES ASSUME NEW l \in 1 .. q - n, NEW m \in 1 .. q - n, l < m,
                        queue'[l][1] = queue'[m][1]
        PROVE  queue'[l][2] < queue'[m][2]
      BY <1>3 DEF Ascends
    <3>1. n + l \in 1 .. q /\ n + m \in 1 .. q /\ n + l < n + m
      BY <1>1, <1>3
    <3>2. queue'[l] = queue[n + l] /\ queue'[m] = queue[n + m]
      BY <1>8
    <3>3. Ascends(queue)
      BY DEF CallsInv, AttemptsAscend
    <3>4. n + l \in 1 .. Len(queue) /\ n + m \in 1 .. Len(queue)
      BY <1>1, <3>1
    <3> QED BY <3>1, <3>2, <3>3, <3>4 DEF Ascends
  <2>3. \A l \in 1 .. e + 1 : \A m \in 1 .. q - n :
          executed'[l][1] = queue'[m][1] => executed'[l][2] < queue'[m][2]
    <3> TAKE l \in 1 .. e + 1
    <3> TAKE m \in 1 .. q - n
    <3>1. n + m \in 1 .. q /\ n < n + m /\ queue'[m] = queue[n + m]
      BY <1>3, <1>8
    <3>2. CASE l = e + 1
      <4>1. executed'[l] = queue[n]
        BY <1>1, <3>2
      <4> QED BY <1>1, <1>3, <3>1, <4>1 DEF CallsInv, AttemptsAscend, Ascends
    <3>3. CASE l \in 1 .. e
      <4>1. executed'[l] = executed[l]
        BY <1>7, <3>3
      <4> QED BY <1>1, <3>1, <3>3, <4>1 DEF CallsInv, AttemptsAscend
    <3> QED BY <1>2, <3>2, <3>3
  <2> QED BY <1>2, <1>3, <2>1, <2>2, <2>3 DEF AttemptsAscend
<1>10. QueueOfCalls'
  <2> SUFFICES ASSUME NEW m \in 1 .. q - n
      PROVE  /\ clerk[queue'[m][1]].at # "idle" /\ args[queue'[m]] = clerk[queue'[m][1]].args
             /\ clerk[queue'[m][1]].first <= queue'[m][2]
             /\ queue'[m][2] <= clerk[queue'[m][1]].attempt
    BY <1>3, <1>6 DEF QueueOfCalls
  <2>1. n + m \in 1 .. q /\ queue'[m] = queue[n + m]
    BY <1>3, <1>8
  <2> QED BY <1>1, <2>1 DEF CallsInv, QueueOfCalls
<1>11. ExecutedOfCalls'
  <2> SUFFICES ASSUME NEW m \in 1 .. e + 1
      PROVE  /\ executed'[m][2] <= clerk[executed'[m][1]].attempt
             /\ clerk[executed'[m][1]].first <= executed'[m][2] =>
                  args[executed'[m]] = clerk[executed'[m][1]].args
    BY <1>2, <1>6 DEF ExecutedOfCalls
  <2>1. CASE m = e + 1
    BY <1>1, <2>1
  <2>2. CASE m \in 1 .. e
    <3>1. executed'[m] = executed[m]
      BY <1>7, <2>2
    <3> QED BY <1>1, <2>2, <3>1 DEF CallsInv, ExecutedOfCalls
  <2> QED BY <1>2, <2>1, <2>2
<1>12. \A c \in Clerk : (Waiting(c)' <=> Waiting(c)) /\ Attempt(c)' = Attempt(c)
  BY <1>6 DEF Waiting, Attempt
<1>13. AttemptsCounted'
  BY <1>6 DEF CallsInv, AttemptsCounted, Waiting, Attempt
<1>14. RepliesRight'
  <2>1. \A s \in Request : Executed(s) => Executed(s)'
    <3> SUFFICES ASSUME NEW s \in Request, NEW m \in 1 .. e, executed[m] = s
        PROVE  \E l \in 1 .. e + 1 : executed'[l] = s
      BY <1>1, <1>2 DEF Executed, InSeq
    <3>1. m \in 1 .. e + 1
      BY <1>1
    <3> QED BY <1>7, <3>1
  <2>2. ASSUME NEW c \in Clerk, Waiting(c), returned[Attempt(c)] = "OK",
               NEW m \in 1 .. e + 1, executed'[m] = Attempt(c)
        PROVE  reply[c] = history'[m].reply
    <3>1. Attempt(c) \in Request
      BY <2>2 DEF CallsInv, AttemptsCounted
    <3>2. PICK l \in 1 .. e : executed[l] = Attempt(c)
      BY <1>1, <2>2, <3>1 DEF CallsInv, RepliesRight, Executed, InSeq
    <3>3. m # e + 1
      <4> SUFFICES ASSUME m = e + 1 PROVE FALSE
        OBVIOUS
      <4>1. executed[l] = r
        BY <1>7, <2>2, <3>2
      <4>2. r[2] < r[2]
        BY <1>1, <4>1
      <4> QED BY <1>1, <4>2
    <3>4. m \in 1 .. e /\ executed[m] = Attempt(c)
      BY <1>2, <1>7, <2>2, <3>3
    <3>5. reply[c] = history[m].reply
      BY <1>1, <2>2, <3>4 DEF CallsInv, RepliesRight
    <3> QED BY <1>7, <3>4, <3>5
  <2>3. RepliesRight
    BY DEF CallsInv
  <2>4. returned' \in [Request -> {"none", "OK"}]
        /\ \A s \in Request : returned'[s] = "OK" => Executed(s)'
    BY <1>6, <2>1, <2>3 DEF RepliesRight
  <2> QED BY <1>2, <1>6, <1>12, <2>2, <2>4 DEF RepliesRight
<1>15. PICK old : old = StoreAfter(e) /\ Clean(old)
  BY <1>0, <1>1 DEF HistoryInv
<1>16. PICK a \in Args : a = clerk[k].args /\ a = args[r]
  BY <1>0, <1>1, FieldTypes
<1>17. done = DoOp(old, a)
  BY <1>1, <1>15, <1>16
<1>18. /\ a.key \in Key /\ a.version \in Nat /\ old[a.key].version \in Nat
       /\ a.op = "Put" /\ old[a.key].version = a.version =>
            done.store[a.key].version = a.version + 1 /\ done.reply.err = "OK"
       /\ a.op = "Put" /\ old[a.key].version # a.version =>
            done.reply.err = IF old[a.key].version = 0 THEN "ErrNoKey" ELSE "ErrVersion"
       /\ \A x \in Key : old[x].version \in Nat /\ done.store[x].version \in Nat
                          /\ done.store[x].version >= old[x].version
  <2>0. DoOpFacts(old, a, done)
    BY <1>15, <1>17, DoOpIs
  <2>1. /\ a.key \in Key /\ a.version \in Nat /\ old[a.key].version \in Nat
        /\ \A x \in Key : old[x].version \in Nat /\ done.store[x].version \in Nat
                           /\ done.store[x].version >= old[x].version
    BY <2>0 DEF DoOpFacts
  <2>2. a.op = "Put" /\ old[a.key].version = a.version =>
            done.store[a.key].version = a.version + 1 /\ done.reply = NoReply
    BY <2>0 DEF DoOpFacts
  <2>3. a.op = "Put" /\ old[a.key].version # a.version =>
            done.reply.err = IF old[a.key].version = 0 THEN "ErrNoKey" ELSE "ErrVersion"
    BY <2>0 DEF DoOpFacts
  <2>4. NoReply.err = "OK"
    BY DEF NoReply
  <2> QED BY <2>1, <2>2, <2>3, <2>4
<1>19. ASSUME NEW c \in Clerk, NEW m \in 1 .. e + 1, TookEffect(c, m)'
       PROVE  \/ m \in 1 .. e /\ TookEffect(c, m)
              \/ m = e + 1 /\ c = k /\ a.op = "Put" /\ done.reply.err = "OK"
  <2>1. CASE m \in 1 .. e
    BY <1>6, <1>7, <1>19, <2>1 DEF TookEffect
  <2>2. CASE m = e + 1
    <3>1. executed'[m][1] = c /\ clerk[c].args.op = "Put" /\ history'[m].reply.err = "OK"
      BY <1>6, <1>19 DEF TookEffect
    <3> QED BY <1>1, <1>16, <2>2, <3>1
  <2> QED BY <1>2, <2>1, <2>2
<1>20. PastVersion'
  <2> SUFFICES ASSUME NEW c \in Clerk, NEW m \in 1 .. e + 1, TookEffect(c, m)'
      PROVE  done.store[clerk[c].args.key].version > clerk[c].args.version
    BY <1>1, <1>2, <1>6 DEF PastVersion
  <2>1. CASE m \in 1 .. e /\ TookEffect(c, m)
    <3>1. old[clerk[c].args.key].version > clerk[c].args.version
      BY <1>1, <1>15, <2>1 DEF CallsInv, PastVersion
    <3>2. clerk[c].args.key \in Key /\ clerk[c].args.version \in Nat
      BY <1>0, FieldTypes DEF Args
    <3> QED BY <1>18, <3>1, <3>2
  <2>2. CASE m = e + 1 /\ c = k /\ a.op = "Put" /\ done.reply.err = "OK"
    <3>1. old[a.key].version = a.version
      BY <1>18, <2>2
    <3>2. done.store[a.key].version = a.version + 1 /\ a.version \in Nat
      BY <1>18, <2>2, <3>1
    <3>3. done.store[a.key].version > a.version
      BY <3>2
    <3> QED BY <1>16, <2>2, <3>3
  <2> QED BY <1>19, <2>1, <2>2
<1>21. NoKeyIsTrue'
  <2> SUFFICES ASSUME NEW c \in Clerk, NEW m \in 1 .. e + 1, Waiting(c),
                      executed'[m] = Attempt(c), history'[m].reply.err = "ErrNoKey",
                      NEW l \in 1 .. e + 1, TookEffect(c, l)'
      PROVE  FALSE
    BY <1>2, <1>12 DEF NoKeyIsTrue
  <2>1. CASE m \in 1 .. e /\ l \in 1 .. e /\ TookEffect(c, l)
    <3>1. executed[m] = Attempt(c) /\ history[m].reply.err = "ErrNoKey"
      BY <1>7, <2>1
    <3> QED BY <1>1, <2>1, <3>1 DEF CallsInv, NoKeyIsTrue
  <2>2. CASE m \in 1 .. e /\ l = e + 1 /\ c = k
    <3>1. executed[m] = Attempt(k)
      BY <1>7, <2>2
    <3>2. executed[m][1] = k /\ executed[m][2] = clerk[k].attempt
      BY <3>1 DEF Attempt
    <3>3. clerk[k].attempt < r[2] /\ r[2] <= clerk[k].attempt
      BY <1>1, <2>2, <3>2
    <3>4. clerk[k].attempt \in Nat
      BY <1>0, FieldTypes
    <3> QED BY <1>1, <3>3, <3>4
  <2>3. CASE m = e + 1 /\ l \in 1 .. e /\ TookEffect(c, l)
    <3>1. c = k
      BY <1>1, <2>3 DEF Attempt
    <3>2. a.op = "Put" /\ old[a.key].version > a.version
      BY <1>1, <1>15, <1>16, <2>3, <3>1 DEF CallsInv, PastVersion, TookEffect
    <3>3. old[a.key].version # a.version /\ old[a.key].version # 0
      BY <1>18, <3>2
    <3>4. done.reply.err = "ErrVersion"
      BY <1>18, <3>2, <3>3
    <3>5. history'[m] = done
      BY <1>1, <2>3
    <3> QED BY <3>4, <3>5
  <2>4. CASE m = e + 1 /\ l = e + 1 /\ done.reply.err = "OK"
    <3>1. history'[m] = done
      BY <1>1, <2>4
    <3> QED BY <2>4, <3>1
  <2> QED BY <1>2, <1>19, <2>1, <2>2, <2>3, <2>4
<1> QED BY <1>9, <1>10, <1>11, <1>13, <1>14, <1>20, <1>21 DEF CallsInv

LEMMA CallsInit == KVInit => CallsInv
<1> SUFFICES ASSUME KVInit PROVE CallsInv
  OBVIOUS
<1>1. Len(queue) = 0 /\ Len(executed) = 0 /\ returned = [r \in Request |-> "none"]
  BY DEF KVInit, Init
<1>2. \A n \in 1 .. 0 : FALSE
  OBVIOUS
<1>3. \A k \in Clerk : clerk[k].at = "idle"
  BY DEF KVInit, Idle
<1>4. \A k \in Clerk : ~Waiting(k) /\ clerk[k].at # "calling"
  BY <1>3, ServerAssumption DEF Waiting
<1>5. AttemptsAscend /\ QueueOfCalls /\ ExecutedOfCalls
  BY <1>1, <1>2 DEF AttemptsAscend, Ascends, QueueOfCalls, ExecutedOfCalls
<1>6. AttemptsCounted
  BY <1>4 DEF AttemptsCounted
<1>7. RepliesRight
  BY <1>1, <1>4 DEF RepliesRight
<1>8. PastVersion /\ NoKeyIsTrue
  BY <1>1, <1>2 DEF PastVersion, NoKeyIsTrue
<1> QED BY <1>5, <1>6, <1>7, <1>8 DEF CallsInv

\* The calls of the clerks and what the group has made of their attempts fit together.
LEMMA CallsAlways ==
  ASSUME ~Rollback
  PROVE  KVSpec => [](KVInv /\ CallsInv)
<1>1. KVInv /\ CallsInv /\ [KVNext]_kvvars => CallsInv'
  <2> SUFFICES ASSUME KVInv, CallsInv, [KVNext]_kvvars PROVE CallsInv'
    OBVIOUS
  <2>0. Typed
    BY DEF KVInv
  <2>1. ASSUME NEW i \in Server, Apply(i) \/ Crash(i)
        PROVE  CallsInv'
    BY <2>0, <2>1, ApplyCalls, CrashCalls
  <2>2. ASSUME NEW i \in Server, NEW j \in Server, Restore(i, j)
        PROVE  CallsInv'
    <3>1. UNCHANGED <<queue, executed, args, history, returned, reply, clerk>>
      BY <2>2 DEF Restore, clerks, subvars
    <3> QED BY <2>0, <3>1, CallsAlone
  <2>3. ASSUME NEW n \in 1 .. Len(queue), Commit(n)
        PROVE  CallsInv'
    BY <2>3, CommitCalls
  <2>4. ASSUME NEW k \in Clerk, Call(k) \/ TryInVain(k) \/ Resend(k) \/ Finish(k)
        PROVE  CallsInv'
    BY <2>0, <2>4, CallCalls, ResendCalls, FinishCalls
  <2>5. ASSUME NEW k \in Clerk, NEW i \in Server, Try(k, i)
        PROVE  CallsInv'
    BY <2>0, <2>5, TryCalls
  <2>6. CASE UNCHANGED kvvars
    <3>1. UNCHANGED <<queue, executed, args, history, returned, reply, clerk>>
      BY <2>6 DEF kvvars, clerks, subvars
    <3> QED BY <2>0, <3>1, CallsAlone
  <2> QED BY <2>1, <2>2, <2>3, <2>4, <2>5, <2>6 DEF KVNext
<1> QED BY <1>1, InvInductive, CallsInit, PTL DEF KVSpec

-----------------------------------------------------------------------------
(* What KVService sees of a clerk.                                         *)

View(k) ==
  /\ Performed(k) \in BOOLEAN
  /\ Performed(k) <=> \E n \in 1 .. Len(executed) : TookEffect(k, n)
  /\ clerk[k].at = "idle" => StatusOf(k) = "idle"
  /\ \A n \in 1 .. Len(executed) : executed[n] = Attempt(k) =>
       /\ clerk[k].at # "calling" => AnswerOf(k) = history[n].reply
       /\ Waiting(k) => StatusOf(k) = "answered"
  /\ clerk[k].at = "calling" \/ (\A n \in 1 .. Len(executed) : executed[n] # Attempt(k)) =>
       AnswerOf(k) = NoReply /\ (clerk[k].at # "idle" => StatusOf(k) = "pending")

Views == \A k \in Clerk : View(k)

LEMMA ViewsHold == Typed /\ CallsInv => Views
<1> SUFFICES ASSUME Typed, CallsInv, NEW k \in Clerk PROVE View(k)
  BY DEF Views
<1>1. executed \in Seq(Request) /\ Ascends(executed)
  BY Sequences DEF CallsInv, AttemptsAscend
<1>2. clerk[k].first \in Nat /\ clerk[k].attempt \in Nat
      /\ clerk[k].at \in {"idle", "calling", "cut off"} \cup Server
  BY FieldTypes
<1>3. Performed(k) \in BOOLEAN
  BY DEF Performed
<1>4. Performed(k) <=> \E n \in 1 .. Len(executed) : TookEffect(k, n)
  <2>1. \A n \in 1 .. Len(executed) : executed[n][1] = k => executed[n][2] <= clerk[k].attempt
    BY DEF CallsInv, ExecutedOfCalls
  <2>2. ReadOK(executed, history, k, clerk[k].first, clerk[k].attempt)
         <=> \E n \in 1 .. Len(executed) : executed[n][1] = k /\ clerk[k].first <= executed[n][2]
                                           /\ history[n].reply.err = "OK"
    <3>1. PICK s \in Seq(Request), first \in Nat, attempt \in Nat :
            s = executed /\ first = clerk[k].first /\ attempt = clerk[k].attempt
      BY <1>1, <1>2
    <3>2. Ascends(s) /\ \A n \in 1 .. Len(s) : s[n][1] = k => s[n][2] <= attempt
      BY <1>1, <2>1, <3>1
    <3>3. ReadOK(s, history, k, first, attempt)
            <=> \E n \in 1 .. Len(s) : s[n][1] = k /\ first <= s[n][2] /\ history[n].reply.err = "OK"
      BY <3>2, PerformedRead
    <3> QED BY <3>1, <3>3
  <2>3. Performed(k) <=> clerk[k].args.op = "Put" /\ 
             ReadOK(executed, history, k, clerk[k].first, clerk[k].attempt)
    BY DEF ReadOK, Performed, Executed, InSeq, Position
  <2>4. (\E n \in 1 .. Len(executed) : TookEffect(k, n)) <=>
          clerk[k].args.op = "Put" /\ \E n \in 1 .. Len(executed) :
            executed[n][1] = k /\ clerk[k].first <= executed[n][2] /\ history[n].reply.err = "OK"
    BY DEF TookEffect
  <2> QED BY <2>2, <2>3, <2>4
<1>5. Executed(Attempt(k)) <=> \E n \in 1 .. Len(executed) : executed[n] = Attempt(k)
  BY DEF Executed, InSeq
<1>6. ASSUME NEW n \in 1 .. Len(executed), executed[n] = Attempt(k)
      PROVE  Position(Attempt(k)) = n
  <2>1. \A l, m \in 1 .. Len(executed) : executed[l] = executed[m] => l = m
    BY <1>1, AscendsOnce
  <2>2. (CHOOSE m \in 1 .. Len(executed) : executed[m] = executed[n]) = n
    BY <2>1, PlaceIs
  <2> QED BY <1>6, <2>2 DEF Position
<1>7. Waiting(k) => clerk[k].at # "idle" /\ clerk[k].at # "calling"
  BY ServerAssumption DEF Waiting
<1>8. clerk[k].at # "idle" /\ clerk[k].at # "calling" => Waiting(k)
  BY <1>2 DEF Waiting
<1>9. clerk[k].at = "idle" => StatusOf(k) = "idle"
  BY <1>7 DEF StatusOf
<1>10. ASSUME NEW n \in 1 .. Len(executed), executed[n] = Attempt(k)
       PROVE  /\ clerk[k].at # "calling" => AnswerOf(k) = history[n].reply
              /\ Waiting(k) => StatusOf(k) = "answered"
  <2>1. Executed(Attempt(k)) /\ Position(Attempt(k)) = n
    BY <1>5, <1>6, <1>10
  <2>2. clerk[k].at # "calling" => AnswerOf(k) = history[n].reply
    BY <2>1 DEF AnswerOf
  <2>3. Waiting(k) => StatusOf(k) = "answered"
    BY <1>7, <2>1 DEF StatusOf
  <2> QED BY <2>2, <2>3
<1>11. ASSUME clerk[k].at = "calling" \/ (\A n \in 1 .. Len(executed) : executed[n] # Attempt(k))
       PROVE  AnswerOf(k) = NoReply /\ (clerk[k].at # "idle" => StatusOf(k) = "pending")
  <2>1. clerk[k].at = "calling" \/ ~Executed(Attempt(k))
    BY <1>5, <1>11
  <2>2. ~(Waiting(k) /\ Executed(Attempt(k)))
    BY <1>7, <2>1
  <2>3. AnswerOf(k) = NoReply
    BY <2>1 DEF AnswerOf
  <2>4. clerk[k].at # "idle" => StatusOf(k) = "pending"
    BY <2>2 DEF StatusOf
  <2> QED BY <2>3, <2>4
<1> QED BY <1>3, <1>4, <1>9, <1>10, <1>11 DEF View

-----------------------------------------------------------------------------
(* Every step is a step of KVService, or is not seen there.                *)

\* KVService sees nothing of clerk c in this step.
Unseen(c) ==
  /\ StatusOf(c)' = StatusOf(c) /\ AnswerOf(c)' = AnswerOf(c)
  /\ Performed(c)' = Performed(c) /\ clerk'[c].args = clerk[c].args

LEMMA UnseenAlone ==
  ASSUME UNCHANGED <<executed, history>>, NEW c \in Clerk, clerk'[c] = clerk[c]
  PROVE  Unseen(c)
<1>1. Attempt(c)' = Attempt(c) /\ (Waiting(c)' <=> Waiting(c))
  BY DEF Attempt, Waiting
<1>2. \A r : Executed(r)' <=> Executed(r)
  BY DEF Executed, InSeq
<1>3. \A r : Position(r)' = Position(r)
  BY DEF Position
<1>4. StatusOf(c)' = StatusOf(c)
  BY <1>1, <1>2 DEF StatusOf
<1>5. AnswerOf(c)' = AnswerOf(c)
  BY <1>1, <1>2, <1>3 DEF AnswerOf
<1>6. Performed(c)' = Performed(c)
  BY DEF Performed, Executed, InSeq, Position
<1> QED BY <1>4, <1>5, <1>6 DEF Unseen

LEMMA PerformedKept ==
  ASSUME NEW k \in Clerk, View(k), View(k)', UNCHANGED <<executed, history>>,
         clerk'[k].args = clerk[k].args, clerk'[k].first = clerk[k].first
  PROVE  Performed(k)' = Performed(k)
<1>1. \A n \in 1 .. Len(executed) : TookEffect(k, n)' <=> TookEffect(k, n)
  BY DEF TookEffect
<1>2. Performed(k)' <=> Performed(k)
  BY <1>1 DEF View
<1>3. Performed(k)' \in BOOLEAN /\ Performed(k) \in BOOLEAN
  BY DEF View
<1> QED BY <1>2, <1>3

LEMMA StutterSeen ==
  ASSUME UNCHANGED <<executed, history, result>>, \A c \in Clerk : Unseen(c)
  PROVE  UNCHANGED Service!svars
<1>1. UNCHANGED StoreAfter(Len(executed))
  BY DEF StoreAfter
<1>2. UNCHANGED [c \in Clerk |-> StatusOf(c)]
  BY DEF Unseen
<1>3. UNCHANGED [c \in Clerk |-> AnswerOf(c)]
  BY DEF Unseen
<1>4. UNCHANGED [c \in Clerk |-> Performed(c)]
  BY DEF Unseen
<1>5. UNCHANGED [c \in Clerk |-> clerk[c].args]
  BY DEF Unseen
<1> QED BY <1>1, <1>2, <1>3, <1>4, <1>5 DEF Service!svars

LEMMA OneSeen ==
  ASSUME NEW k \in Clerk, \A c \in Clerk : c # k => Unseen(c)
  PROVE  /\ [c \in Clerk |-> StatusOf(c)]' = [[c \in Clerk |-> StatusOf(c)] EXCEPT ![k] = StatusOf(k)']
         /\ [c \in Clerk |-> AnswerOf(c)]' = [[c \in Clerk |-> AnswerOf(c)] EXCEPT ![k] = AnswerOf(k)']
         /\ [c \in Clerk |-> Performed(c)]' = [[c \in Clerk |-> Performed(c)] EXCEPT ![k] = Performed(k)']
         /\ [c \in Clerk |-> clerk[c].args]' = [[c \in Clerk |-> clerk[c].args] EXCEPT ![k] = clerk'[k].args]
<1>1. [c \in Clerk |-> StatusOf(c)]' = [[c \in Clerk |-> StatusOf(c)] EXCEPT ![k] = StatusOf(k)']
  BY DEF Unseen
<1>2. [c \in Clerk |-> AnswerOf(c)]' = [[c \in Clerk |-> AnswerOf(c)] EXCEPT ![k] = AnswerOf(k)']
  BY DEF Unseen
<1>3. [c \in Clerk |-> Performed(c)]' = [[c \in Clerk |-> Performed(c)] EXCEPT ![k] = Performed(k)']
  BY DEF Unseen
<1>4. [c \in Clerk |-> clerk[c].args]' = [[c \in Clerk |-> clerk[c].args] EXCEPT ![k] = clerk'[k].args]
  BY DEF Unseen
<1> QED BY <1>1, <1>2, <1>3, <1>4

\* The servers execute what the group has executed: nobody sees when.
LEMMA ServersSeen ==
  ASSUME Typed, CallsInv, NEW i \in Server, Apply(i) \/ Crash(i) \/ \E j \in Server : Restore(i, j)
  PROVE  UNCHANGED Service!svars
<1>1. UNCHANGED <<executed, history, result>>
  BY DEF Apply, Crash, Restore, clerks, subvars, Return
<1>2. CASE Apply(i) \/ \E j \in Server : Restore(i, j)
  <2>1. clerk' = clerk
    BY <1>2 DEF Apply, Restore, clerks
  <2>2. \A c \in Clerk : Unseen(c)
    BY <1>1, <2>1, UnseenAlone
  <2> QED BY <1>1, <2>2, StutterSeen
<1>3. CASE Crash(i)
  <2> SUFFICES ASSUME NEW c \in Clerk PROVE Unseen(c)
    BY <1>1, StutterSeen
  <2>1. clerk'[c] = IF Waits(Attempt(c), i) THEN [clerk[c] EXCEPT !.at = "cut off"] ELSE clerk[c]
    BY <1>3 DEF Crash
  <2>2. CASE ~Waits(Attempt(c), i)
    BY <1>1, <2>1, <2>2, UnseenAlone
  <2>3. CASE Waits(Attempt(c), i)
    <3>1. clerk[c].at = i /\ clerk[c] \in ClerkCalls
      BY <2>3 DEF Waits, Attempt, Typed, KVTypeOK
    <3>2. /\ clerk'[c].at = "cut off" /\ clerk'[c].args = clerk[c].args
          /\ clerk'[c].first = clerk[c].first /\ clerk'[c].attempt = clerk[c].attempt
      BY <2>1, <2>3, <3>1 DEF ClerkCalls
    <3>3. Waiting(c)' /\ Waiting(c) /\ Attempt(c)' = Attempt(c)
          /\ clerk[c].at # "idle" /\ clerk[c].at # "calling"
          /\ clerk'[c].at # "idle" /\ clerk'[c].at # "calling"
      BY <3>1, <3>2, ServerAssumption DEF Waiting, Attempt
    <3>4. \A r : (Executed(r)' <=> Executed(r)) /\ Position(r)' = Position(r)
      BY <1>1 DEF Executed, InSeq, Position
    <3>5. StatusOf(c)' = StatusOf(c)
      BY <3>3, <3>4 DEF StatusOf
    <3>6. AnswerOf(c)' = AnswerOf(c)
      BY <1>1, <3>3, <3>4 DEF AnswerOf
    <3>7. Performed(c)' = Performed(c)
      BY <1>1, <3>2 DEF Performed, Executed, InSeq, Position
    <3> QED BY <3>2, <3>5, <3>6, <3>7 DEF Unseen
  <2> QED BY <2>2, <2>3
<1> QED BY <1>2, <1>3

LEMMA CallSeen ==
  ASSUME Typed, CallsInv, Typed', NEW k \in Clerk, Call(k), View(k), View(k)'
  PROVE  Service!Invoke(k)
<1>1. UNCHANGED <<executed, history, result>> /\ clerk[k].at = "idle"
  BY DEF Call, subvars
<1>2. PICK a \in Args : clerk' = [clerk EXCEPT ![k] =
        [Idle(a) EXCEPT !.at = "calling", !.first = clerk[k].attempt + 1,
                        !.attempt = clerk[k].attempt]]
  BY AskedAssumption DEF Call
<1>3. clerk \in [Clerk -> ClerkCalls]
  BY DEF Typed, KVTypeOK
<1>4. PICK b \in Nat : b = clerk[k].attempt
  <2>1. clerk[k].attempt \in Nat
    BY FieldTypes
  <2> QED BY <2>1
<1>5. clerk'[k].at = "calling" /\ clerk'[k].args = a /\ clerk'[k].first = b + 1
  BY <1>2, <1>3, <1>4 DEF Idle
<1>6. \A c \in Clerk : c # k => Unseen(c)
  <2>1. \A c \in Clerk : c # k => clerk'[c] = clerk[c]
    BY <1>2, <1>3
  <2> QED BY <1>1, <2>1, UnseenAlone
<1>7. StatusOf(k) = "idle"
  BY <1>1 DEF View
<1>8. StatusOf(k)' = "pending" /\ AnswerOf(k)' = NoReply
  BY <1>5 DEF View
<1>9. Performed(k)' = FALSE
  <2>1. \A n \in 1 .. Len(executed) : ~TookEffect(k, n)'
    <3> SUFFICES ASSUME NEW n \in 1 .. Len(executed), executed[n][1] = k, b + 1 <= executed[n][2]
        PROVE  FALSE
      BY <1>1, <1>5 DEF TookEffect
    <3>1. executed[n][2] \in Nat
      BY Sequences, AttemptsAre
    <3>2. executed[n][2] <= b
      BY <1>4 DEF CallsInv, ExecutedOfCalls
    <3> QED BY <3>1, <3>2
  <2> QED BY <1>1, <2>1 DEF View
<1>10. UNCHANGED StoreAfter(Len(executed))
  BY <1>1 DEF StoreAfter
<1>11. /\ [c \in Clerk |-> StatusOf(c)]' = [[c \in Clerk |-> StatusOf(c)] EXCEPT ![k] = "pending"]
       /\ [c \in Clerk |-> AnswerOf(c)]' = [[c \in Clerk |-> AnswerOf(c)] EXCEPT ![k] = NoReply]
  BY <1>6, <1>8, OneSeen
<1>12. [c \in Clerk |-> Performed(c)]' = [[c \in Clerk |-> Performed(c)] EXCEPT ![k] = FALSE]
  BY <1>6, <1>9, OneSeen
<1>13. [c \in Clerk |-> clerk[c].args]' = [[c \in Clerk |-> clerk[c].args] EXCEPT ![k] = clerk'[k].args]
  BY <1>6, OneSeen
<1>14. [c \in Clerk |-> clerk[c].args]'[k] = clerk'[k].args
  OBVIOUS
<1>15. clerk'[k].args \in Service!Requests
  BY <1>5 DEF Args, Service!Requests
<1>16. Service!NoAnswer = NoReply
  BY DEF Service!NoAnswer, NoReply
<1>17. Service!Asks(k)
  BY <1>10, <1>11, <1>12, <1>13, <1>14, <1>15, <1>16 DEF Service!Asks
<1> QED BY <1>1, <1>7, <1>17 DEF Service!Invoke

\* An attempt goes into the log: its call is pending before and after.
LEMMA TrySeen ==
  ASSUME Typed, NEW k \in Clerk, NEW i \in Server, Try(k, i), View(k), View(k)'
  PROVE  UNCHANGED Service!svars
<1>1. UNCHANGED <<executed, history, result>> /\ clerk[k].at = "calling"
  BY DEF Try, Submit
<1>2. PICK b \in Nat : b = clerk[k].attempt
  <2>1. clerk[k].attempt \in Nat
    BY FieldTypes
  <2> QED BY <2>1
<1>3. clerk \in [Clerk -> ClerkCalls]
  BY DEF Typed, KVTypeOK
<1>4. clerk' = [clerk EXCEPT ![k] = [clerk[k] EXCEPT !.at = i, !.attempt = b + 1]]
  <2>1. clerk' = [clerk EXCEPT ![k].at = i, ![k].attempt = @ + 1]
    BY DEF Try
  <2> QED BY <1>2, <1>3, <2>1
<1>5. /\ clerk'[k].at = i /\ clerk'[k].args = clerk[k].args
      /\ clerk'[k].first = clerk[k].first /\ clerk'[k].attempt = b + 1
  <2>1. clerk'[k] = [clerk[k] EXCEPT !.at = i, !.attempt = b + 1]
    BY <1>3, <1>4
  <2> QED BY <1>3, <2>1 DEF ClerkCalls
<1>6. \A n \in 1 .. Len(executed) : executed[n] # Attempt(k)'
  <2>1. Unknown(<<k, b + 1>>)
    BY <1>2 DEF Try, Submit
  <2> QED BY <1>5, <2>1 DEF Unknown, InSeq, Attempt
<1>7. StatusOf(k) = "pending" /\ AnswerOf(k) = NoReply
  BY <1>1 DEF View
<1>8. StatusOf(k)' = "pending" /\ AnswerOf(k)' = NoReply
  <2>1. i # "idle"
    BY ServerAssumption
  <2> QED BY <1>1, <1>5, <1>6, <2>1 DEF View
<1>9. Unseen(k)
  BY <1>1, <1>5, <1>7, <1>8, PerformedKept DEF Unseen
<1>10. \A c \in Clerk : Unseen(c)
  <2>1. \A c \in Clerk : c # k => clerk'[c] = clerk[c]
    BY <1>3, <1>4
  <2>2. \A c \in Clerk : c # k => Unseen(c)
    BY <1>1, <2>1, UnseenAlone
  <2> QED BY <1>9, <2>2
<1> QED BY <1>1, <1>10, StutterSeen

\* A clerk goes on to the next server: what it had been answered is lost.
LEMMA ResendSeen ==
  ASSUME Typed, CallsInv, NEW k \in Clerk, TryInVain(k) \/ Resend(k), View(k), View(k)'
  PROVE  Service!Lose(k) \/ UNCHANGED Service!svars
<1>1. UNCHANGED <<executed, history, result>>
  BY DEF TryInVain, Resend, subvars
<1>2. clerk \in [Clerk -> ClerkCalls]
  BY DEF Typed, KVTypeOK
<1>3. /\ clerk'[k].at = "calling" /\ clerk'[k].args = clerk[k].args
      /\ clerk'[k].first = clerk[k].first /\ clerk'[k].attempt = clerk[k].attempt
      /\ \A c \in Clerk : c # k => clerk'[c] = clerk[c]
  <2>1. CASE TryInVain(k)
    <3>1. clerk' = [clerk EXCEPT ![k] = [clerk[k] EXCEPT !.resent = TRUE]] /\ clerk[k].at = "calling"
      BY <2>1 DEF TryInVain
    <3>2. clerk'[k] = [clerk[k] EXCEPT !.resent = TRUE]
      BY <1>2, <3>1
    <3> QED BY <1>2, <3>1, <3>2 DEF ClerkCalls
  <2>2. CASE Resend(k)
    <3>1. clerk' = [clerk EXCEPT ![k] = [clerk[k] EXCEPT !.at = "calling", !.resent = TRUE]]
      BY <1>2, <2>2 DEF Resend
    <3>2. clerk'[k] = [clerk[k] EXCEPT !.at = "calling", !.resent = TRUE]
      BY <1>2, <3>1
    <3> QED BY <1>2, <3>1, <3>2 DEF ClerkCalls
  <2> QED BY <2>1, <2>2
<1>4. StatusOf(k)' = "pending" /\ AnswerOf(k)' = NoReply
  BY <1>3 DEF View
<1>5. Performed(k)' = Performed(k)
  BY <1>1, <1>3, PerformedKept
<1>6. \A c \in Clerk : c # k => Unseen(c)
  BY <1>1, <1>3, UnseenAlone
<1>7. CASE clerk[k].at = "calling" \/ (\A n \in 1 .. Len(executed) : executed[n] # Attempt(k))
  <2>1. clerk[k].at # "idle"
    BY ServerAssumption DEF TryInVain, Resend, Waiting
  <2>2. StatusOf(k) = "pending" /\ AnswerOf(k) = NoReply
    BY <1>7, <2>1 DEF View
  <2>3. Unseen(k)
    BY <1>3, <1>4, <1>5, <2>2 DEF Unseen
  <2>4. \A c \in Clerk : Unseen(c)
    BY <1>6, <2>3
  <2> QED BY <1>1, <2>4, StutterSeen
<1>8. CASE clerk[k].at # "calling" /\ \E n \in 1 .. Len(executed) : executed[n] = Attempt(k)
  <2>1. Waiting(k)
    BY <1>8 DEF TryInVain, Resend
  <2>2. StatusOf(k) = "answered"
    BY <1>8, <2>1 DEF View
  <2>3. UNCHANGED StoreAfter(Len(executed))
    BY <1>1 DEF StoreAfter
  <2>4. /\ [c \in Clerk |-> StatusOf(c)]' = [[c \in Clerk |-> StatusOf(c)] EXCEPT ![k] = "pending"]
        /\ [c \in Clerk |-> AnswerOf(c)]' = [[c \in Clerk |-> AnswerOf(c)] EXCEPT ![k] = NoReply]
    BY <1>4, <1>6, OneSeen
  <2>5. UNCHANGED [c \in Clerk |-> Performed(c)]
    BY <1>5, <1>6 DEF Unseen
  <2>6. UNCHANGED [c \in Clerk |-> clerk[c].args]
    BY <1>3, <1>6 DEF Unseen
  <2>7. Service!NoAnswer = NoReply
    BY DEF Service!NoAnswer, NoReply
  <2>8. Service!Lose(k)
    BY <1>1, <2>2, <2>3, <2>4, <2>5, <2>6, <2>7 DEF Service!Lose
  <2> QED BY <2>8
<1> QED BY <1>7, <1>8

\* A call returns what its last attempt was answered, or that it cannot tell.
LEMMA FinishSeen ==
  ASSUME Typed, CallsInv, NEW k \in Clerk, Finish(k), View(k), View(k)'
  PROVE  Service!Return(k)
<1>1. UNCHANGED <<executed, history>> /\ Waiting(k) /\ returned[Attempt(k)] = "OK"
      /\ result' = [result EXCEPT ![k] = Answer(k)]
  BY DEF Finish, subvars
<1>2. clerk \in [Clerk -> ClerkCalls] /\ clerk[k] \in ClerkCalls
  BY DEF Typed, KVTypeOK
<1>3. /\ clerk'[k].at = "idle" /\ clerk'[k].args = clerk[k].args
      /\ clerk'[k].first = clerk[k].first /\ clerk'[k].attempt = clerk[k].attempt
      /\ \A c \in Clerk : c # k => clerk'[c] = clerk[c]
  <2>1. clerk' = [clerk EXCEPT ![k] = [clerk[k] EXCEPT !.at = "idle"]]
    BY DEF Finish
  <2>2. clerk'[k] = [clerk[k] EXCEPT !.at = "idle"]
    BY <1>2, <2>1
  <2> QED BY <1>2, <2>1, <2>2 DEF ClerkCalls
<1>4. PICK b \in Nat : b = clerk[k].attempt
  <2>1. clerk[k].attempt \in Nat
    BY FieldTypes
  <2> QED BY <2>1
<1>5. Attempt(k) = <<k, b>> /\ Attempt(k) \in Request
      /\ clerk[k].first <= b /\ (clerk[k].resent \/ clerk[k].first = b)
  BY <1>1, <1>4 DEF CallsInv, AttemptsCounted, Attempt
<1>6. PICK m \in 1 .. Len(executed) : executed[m] = Attempt(k)
  BY <1>1, <1>5 DEF CallsInv, RepliesRight, Executed, InSeq
<1>7. PICK rp \in Replies : rp = reply[k] /\ rp = history[m].reply
  <2>1. reply[k] \in Replies
    BY DEF Typed, KVTypeOK
  <2>2. reply[k] = history[m].reply
    BY <1>1, <1>6 DEF CallsInv, RepliesRight
  <2> QED BY <2>1, <2>2
<1>8. clerk[k].at # "calling" /\ clerk[k].at # "idle"
  BY <1>1, ServerAssumption DEF Waiting
<1>9. StatusOf(k) = "answered" /\ AnswerOf(k) = rp
  BY <1>1, <1>6, <1>7, <1>8 DEF View
<1>10. StatusOf(k)' = "idle" /\ AnswerOf(k)' = rp
  <2>1. executed'[m] = Attempt(k)' /\ m \in 1 .. Len(executed') /\ history'[m].reply = rp
    BY <1>1, <1>3, <1>6, <1>7 DEF Attempt
  <2>2. clerk'[k].at # "calling"
    BY <1>3
  <2> QED BY <1>3, <2>1, <2>2 DEF View
<1>11. Performed(k)' = Performed(k)
  BY <1>1, <1>3, PerformedKept
<1>12. \A c \in Clerk : c # k => Unseen(c)
  BY <1>1, <1>3, UnseenAlone
<1>13. PICK err : err = Answer(k).err
  OBVIOUS
<1>14. /\ err \in {rp.err} \cup (IF clerk[k].args.op = "Put" THEN {"ErrMaybe"} ELSE {})
       /\ Answer(k) = [rp EXCEPT !.err = err]
       /\ err = "ErrVersion" /\ clerk[k].args.op = "Put" => ~clerk[k].resent
  <2>1. CASE clerk[k].args.op = "Put" /\ clerk[k].resent /\ rp.err = "ErrVersion"
    <3>1. Answer(k) = [rp EXCEPT !.err = "ErrMaybe"]
      BY <1>7, <2>1 DEF Answer
    <3>2. err = "ErrMaybe"
      BY <1>13, <3>1 DEF Replies
    <3> QED BY <2>1, <3>1, <3>2
  <2>2. CASE ~(clerk[k].args.op = "Put" /\ clerk[k].resent /\ rp.err = "ErrVersion")
    <3>1. Answer(k) = rp
      BY <1>7, <2>2 DEF Answer
    <3>2. err = rp.err /\ [rp EXCEPT !.err = err] = rp
      BY <1>13, <3>1 DEF Replies
    <3> QED BY <2>2, <3>1, <3>2
  <2> QED BY <2>1, <2>2
<1>15. ASSUME clerk[k].args.op = "Put", err = "OK" PROVE Performed(k)
  <2>1. rp.err = "OK"
    BY <1>14, <1>15
  <2>2. executed[m][1] = k /\ clerk[k].first <= executed[m][2]
    BY <1>5, <1>6
  <2>3. TookEffect(k, m)
    BY <1>7, <1>15, <2>1, <2>2 DEF TookEffect
  <2> QED BY <2>3 DEF View
<1>16. ASSUME clerk[k].args.op = "Put", err \in {"ErrVersion", "ErrNoKey"} PROVE ~Performed(k)
  <2>1. rp.err = err
    BY <1>14, <1>16
  <2> SUFFICES ASSUME NEW n \in 1 .. Len(executed), TookEffect(k, n) PROVE FALSE
    BY DEF View
  <2>2. CASE err = "ErrNoKey"
    BY <1>1, <1>6, <1>7, <2>1, <2>2 DEF CallsInv, NoKeyIsTrue
  <2>3. CASE err = "ErrVersion"
    <3>1. clerk[k].first = b
      BY <1>5, <1>14, <1>16, <2>3
    <3>2. executed[n] \in Request /\ executed[n][1] = k /\ b <= executed[n][2]
          /\ history[n].reply.err = "OK"
      BY <3>1, Sequences DEF TookEffect
    <3>3. executed[n][2] <= b
      BY <1>4, <3>2 DEF CallsInv, ExecutedOfCalls
    <3>4. executed[n][2] = b
      BY <3>2, <3>3, AttemptsAre
    <3>5. executed[n] = <<k, b>>
      BY <3>2, <3>4, AttemptsAre
    <3>6. executed \in Seq(Request) /\ Ascends(executed)
      BY Sequences DEF CallsInv, AttemptsAscend
    <3>7. n = m
      BY <1>5, <1>6, <3>5, <3>6, AscendsOnce
    <3> QED BY <1>7, <2>1, <2>3, <3>2, <3>7
  <2> QED BY <1>16, <2>2, <2>3
<1>17. UNCHANGED StoreAfter(Len(executed))
  BY <1>1 DEF StoreAfter
<1>18. [c \in Clerk |-> StatusOf(c)]' = [[c \in Clerk |-> StatusOf(c)] EXCEPT ![k] = "idle"]
  BY <1>10, <1>12, OneSeen
<1>19. UNCHANGED [c \in Clerk |-> AnswerOf(c)]
  BY <1>9, <1>10, <1>12 DEF Unseen
<1>20. UNCHANGED [c \in Clerk |-> Performed(c)]
  BY <1>11, <1>12 DEF Unseen
<1>21. UNCHANGED [c \in Clerk |-> clerk[c].args]
  BY <1>3, <1>12 DEF Unseen
<1>22. Service!Truthful(k, err)
  BY <1>15, <1>16 DEF Service!Truthful
<1>23. Service!Returns(k)
  <2>1. [c \in Clerk |-> AnswerOf(c)][k] = rp /\ [c \in Clerk |-> StatusOf(c)][k] = "answered"
        /\ [c \in Clerk |-> clerk[c].args][k] = clerk[k].args
    BY <1>9
  <2>2. result' = [result EXCEPT ![k] = [rp EXCEPT !.err = err]]
    BY <1>1, <1>14
  <2> QED BY <1>14, <1>22, <2>1, <2>2 DEF Service!Returns
<1> QED BY <1>17, <1>18, <1>19, <1>20, <1>21, <1>23 DEF Service!Return

\* Of a clerk whose present attempt is not the one executed nothing is answered.
LEMMA CommitUnanswered ==
  ASSUME NEW n, NEW e \in Nat, NEW q, NEW r, NEW k, NEW done, Committed(n, e, q, r, k, done),
         NEW c \in Clerk, Typed, View(c), View(c)', clerk[c].at = "calling" \/ Attempt(c) # r
  PROVE  StatusOf(c)' = StatusOf(c) /\ AnswerOf(c)' = AnswerOf(c)
<1>1. /\ e = Len(executed) /\ UNCHANGED clerk
      /\ Len(executed') = e + 1 /\ executed'[e + 1] = r
      /\ \A m \in 1 .. e : executed'[m] = executed[m] /\ history'[m] = history[m]
  BY DEF Committed
<1>2. Attempt(c)' = Attempt(c) /\ (Waiting(c)' <=> Waiting(c))
  BY <1>1 DEF Attempt, Waiting
<1>3. clerk[c].at \in {"idle", "calling", "cut off"} \cup Server
  BY FieldTypes
<1>4. CASE clerk[c].at = "calling"
  BY <1>1, <1>4 DEF View
<1>5. CASE clerk[c].at # "calling" /\ \E m \in 1 .. e : executed[m] = Attempt(c)
  <2>1. PICK m \in 1 .. e : executed[m] = Attempt(c)
    BY <1>5
  <2>2. m \in 1 .. Len(executed') /\ executed'[m] = Attempt(c)' /\ history'[m] = history[m]
    BY <1>1, <1>2, <2>1
  <2>3. AnswerOf(c) = history[m].reply /\ (Waiting(c) => StatusOf(c) = "answered")
        /\ (clerk[c].at = "idle" => StatusOf(c) = "idle")
    BY <1>1, <1>5, <2>1 DEF View
  <2>4. AnswerOf(c)' = history'[m].reply /\ (Waiting(c) => StatusOf(c)' = "answered")
        /\ (clerk[c].at = "idle" => StatusOf(c)' = "idle")
    BY <1>1, <1>2, <1>5, <2>2 DEF View
  <2>5. clerk[c].at = "idle" \/ Waiting(c)
    BY <1>3, <1>5 DEF Waiting
  <2> QED BY <2>2, <2>3, <2>4, <2>5
<1>6. CASE Attempt(c) # r /\ \A m \in 1 .. e : executed[m] # Attempt(c)
  <2>1. \A m \in 1 .. Len(executed') : executed'[m] # Attempt(c)'
    <3>1. \A m \in 1 .. e + 1 : m \in 1 .. e \/ m = e + 1
      OBVIOUS
    <3> QED BY <1>1, <1>2, <1>6, <3>1
  <2>2. AnswerOf(c) = NoReply /\ (clerk[c].at # "idle" => StatusOf(c) = "pending")
        /\ (clerk[c].at = "idle" => StatusOf(c) = "idle")
    BY <1>1, <1>6 DEF View
  <2>3. AnswerOf(c)' = NoReply /\ (clerk[c].at # "idle" => StatusOf(c)' = "pending")
        /\ (clerk[c].at = "idle" => StatusOf(c)' = "idle")
    BY <1>1, <2>1 DEF View
  <2> QED BY <2>2, <2>3
<1> QED BY <1>4, <1>5, <1>6

\* What executing attempt r makes of the calls that have been performed.
LEMMA CommitPerforms ==
  ASSUME NEW n, NEW e \in Nat, NEW q, NEW r, NEW k, NEW done, Committed(n, e, q, r, k, done),
         NEW c \in Clerk, View(c), View(c)'
  PROVE  Performed(c)' = (Performed(c) \/ (c = k /\ clerk[c].args.op = "Put" /\ done.reply.err = "OK"))
<1>1. /\ e = Len(executed) /\ UNCHANGED clerk /\ k = r[1] /\ clerk[k].first <= r[2]
      /\ Len(executed') = e + 1 /\ executed'[e + 1] = r /\ history'[e + 1] = done
      /\ \A m \in 1 .. e : executed'[m] = executed[m] /\ history'[m] = history[m]
  BY DEF Committed
<1>2. 1 .. Len(executed') = 1 .. e + 1 /\ \A m \in 1 .. e + 1 : m \in 1 .. e \/ m = e + 1
  BY <1>1
<1>3. \A m \in 1 .. e : m \in 1 .. e + 1 /\ (TookEffect(c, m)' <=> TookEffect(c, m))
  BY <1>1 DEF TookEffect
<1>4. TookEffect(c, e + 1)' <=> c = k /\ clerk[c].args.op = "Put" /\ done.reply.err = "OK"
  BY <1>1 DEF TookEffect
<1>5. (\E m \in 1 .. e + 1 : TookEffect(c, m)') <=>
        (\E m \in 1 .. e : TookEffect(c, m)) \/ TookEffect(c, e + 1)'
  <2>1. e + 1 \in 1 .. e + 1
    OBVIOUS
  <2> QED BY <1>2, <1>3, <2>1
<1>6. Performed(c)' \in BOOLEAN /\ Performed(c) \in BOOLEAN
  BY DEF View
<1>7. Performed(c)' <=> \E m \in 1 .. e + 1 : TookEffect(c, m)'
  BY <1>2 DEF View
<1>8. Performed(c) <=> \E m \in 1 .. e : TookEffect(c, m)
  BY <1>1 DEF View
<1> QED BY <1>4, <1>5, <1>6, <1>7, <1>8

\* Executing an attempt is the effect of its call and, if the clerk waits for
\* just that attempt, its answer.
LEMMA CommitSeen ==
  ASSUME KVInv, CallsInv, Views, Views', NEW n \in 1 .. Len(queue), Commit(n)
  PROVE  \/ \E k \in Clerk : \/ Service!Perform(k) \/ Service!PerformUnanswered(k)
                             \/ Service!Decline(k) \/ Service!Read(k)
         \/ UNCHANGED Service!svars
<1>0. Typed /\ HistoryInv
  BY DEF KVInv
<1>a. PICK done : \E e \in Nat, q \in Nat, r \in Request, k \in Clerk : Committed(n, e, q, r, k, done)
  BY CommitIs
<1>1. PICK e \in Nat, q \in Nat, r \in Request, k \in Clerk : Committed(n, e, q, r, k, done)
  BY <1>a
<1>2. /\ e = Len(executed) /\ k = r[1] /\ r[2] \in Nat /\ done = DoOp(StoreAfter(e), args[r])
      /\ UNCHANGED <<clerk, result>> /\ StoreAfter(Len(executed))' = done.store
      /\ Len(executed') = e + 1 /\ executed'[e + 1] = r /\ history'[e + 1] = done
      /\ clerk[k].at # "idle" /\ args[r] = clerk[k].args /\ r[2] <= clerk[k].attempt
      /\ \A m \in 1 .. e : executed[m][1] = k => executed[m][2] < r[2]
  BY <1>1 DEF Committed
<1>3. View(k) /\ View(k)'
  BY DEF Views
<1>4. PICK old : old = StoreAfter(Len(executed)) /\ old = StoreAfter(e) /\ Clean(old)
  BY <1>0, <1>2 DEF HistoryInv
<1>5. PICK a \in Args : a = clerk[k].args /\ a = args[r]
  BY <1>0, <1>2, FieldTypes
<1>6. DoOpFacts(old, a, done)
  BY <1>2, <1>4, <1>5, DoOpIs
<1>7. \A c \in Clerk : c # k => Unseen(c)
  <2> SUFFICES ASSUME NEW c \in Clerk, c # k PROVE Unseen(c)
    OBVIOUS
  <2>1. View(c) /\ View(c)'
    BY DEF Views
  <2>2. Attempt(c) # r
    BY <1>2 DEF Attempt
  <2>3. StatusOf(c)' = StatusOf(c) /\ AnswerOf(c)' = AnswerOf(c)
    BY <1>0, <1>1, <2>1, <2>2, CommitUnanswered
  <2>4. Performed(c)' = (Performed(c) \/ (c = k /\ clerk[c].args.op = "Put" /\ done.reply.err = "OK"))
    BY <1>1, <2>1, CommitPerforms
  <2>5. Performed(c) \in BOOLEAN
    BY <2>1 DEF View
  <2>6. Performed(c)' = Performed(c)
    BY <2>4, <2>5
  <2> QED BY <1>2, <2>3, <2>6 DEF Unseen
<1>8. Performed(k)' = (Performed(k) \/ (a.op = "Put" /\ done.reply.err = "OK"))
  <2>1. Performed(k)' = (Performed(k) \/ (k = k /\ clerk[k].args.op = "Put" /\ done.reply.err = "OK"))
    BY <1>1, <1>3, CommitPerforms
  <2> QED BY <1>5, <2>1
<1>9. Performed(k) \in BOOLEAN
  BY <1>3 DEF View
<1>10. /\ a.key \in Key /\ a.version \in Nat /\ a.op \in {"Get", "Put"}
       /\ old[a.key].version \in Nat
  BY <1>6 DEF DoOpFacts
<1>11. old[a.key].version = a.version => Performed(k) = FALSE
  <2> SUFFICES ASSUME old[a.key].version = a.version, Performed(k) PROVE FALSE
    BY <1>9
  <2>1. PICK m \in 1 .. Len(executed) : TookEffect(k, m)
    BY <1>3 DEF View
  <2>2. old[a.key].version > a.version
    BY <1>4, <1>5, <2>1 DEF CallsInv, PastVersion
  <2> QED BY <1>10, <2>2
<1>12. [c \in Clerk |-> clerk[c].args][k] = a /\ UNCHANGED [c \in Clerk |-> clerk[c].args]
  BY <1>2, <1>5
<1>13. ASSUME r = Attempt(k), clerk[k].at # "calling"
       PROVE  StatusOf(k) = "pending" /\ StatusOf(k)' = "answered" /\ AnswerOf(k)' = done.reply
  <2>1. Waiting(k) /\ Waiting(k)'
    <3>1. clerk[k].at \in {"idle", "calling", "cut off"} \cup Server
      BY <1>0, FieldTypes
    <3> QED BY <1>2, <1>13, <3>1 DEF Waiting
  <2>2. \A m \in 1 .. e : executed[m] # r
    <3> SUFFICES ASSUME NEW m \in 1 .. e, executed[m] = r PROVE FALSE
      OBVIOUS
    <3>1. r[2] < r[2]
      BY <1>2
    <3> QED BY <1>2, <3>1
  <2>3. StatusOf(k) = "pending"
    BY <1>2, <1>3, <1>13, <2>2 DEF View
  <2>4. e + 1 \in 1 .. Len(executed') /\ executed'[e + 1] = Attempt(k)' /\ clerk'[k].at # "calling"
    BY <1>2, <1>13 DEF Attempt
  <2>5. StatusOf(k)' = "answered" /\ AnswerOf(k)' = history'[e + 1].reply
    BY <1>3, <2>1, <2>4 DEF View
  <2> QED BY <1>2, <2>3, <2>5
<1>14. ASSUME clerk[k].at = "calling" \/ Attempt(k) # r
       PROVE  StatusOf(k) = "pending" /\ StatusOf(k)' = StatusOf(k) /\ AnswerOf(k)' = AnswerOf(k)
  <2>1. StatusOf(k)' = StatusOf(k) /\ AnswerOf(k)' = AnswerOf(k)
    BY <1>0, <1>1, <1>3, <1>14, CommitUnanswered
  <2>2. ASSUME NEW m \in 1 .. e, executed[m] = Attempt(k) PROVE FALSE
    <3>1. executed[m][1] = k /\ executed[m][2] = clerk[k].attempt
      BY <2>2 DEF Attempt
    <3>2. clerk[k].attempt < r[2] /\ r[2] <= clerk[k].attempt
      BY <1>2, <3>1
    <3>3. clerk[k].attempt \in Nat
      BY <1>0, FieldTypes
    <3> QED BY <1>2, <3>2, <3>3
  <2>3. StatusOf(k) = "pending"
    BY <1>2, <1>3, <2>2 DEF View
  <2> QED BY <2>1, <2>3
<1>15. Service!NoAnswer = NoReply
  BY DEF Service!NoAnswer, NoReply
<1>16. UNCHANGED result
  BY <1>2
<1>17. CASE a.op = "Put" /\ old[a.key].version = a.version
  <2>1. /\ done.store = [old EXCEPT ![a.key] = [value |-> a.value, version |-> a.version + 1]]
        /\ done.reply = NoReply
    BY <1>6, <1>17 DEF DoOpFacts
  <2>2. done.reply.err = "OK"
    BY <2>1 DEF NoReply
  <2>3. Performed(k) = FALSE /\ Performed(k)' = TRUE
    BY <1>8, <1>9, <1>11, <1>17, <2>2
  <2>4. [c \in Clerk |-> Performed(c)]' = [[c \in Clerk |-> Performed(c)] EXCEPT ![k] = TRUE]
    BY <1>7, <2>3, OneSeen
  <2>5. [c \in Clerk |-> Performed(c)][k] = FALSE
    BY <2>3
  <2>6. StoreAfter(Len(executed))' = [StoreAfter(Len(executed)) EXCEPT ![a.key] =
                                       [value |-> a.value, version |-> a.version + 1]]
    BY <1>2, <1>4, <2>1
  <2>7. StoreAfter(Len(executed))[a.key].version = a.version
    BY <1>4, <1>17
  <2>8. CASE r = Attempt(k) /\ clerk[k].at # "calling"
    <3>1. /\ [c \in Clerk |-> StatusOf(c)]' = [[c \in Clerk |-> StatusOf(c)] EXCEPT ![k] = "answered"]
          /\ [c \in Clerk |-> AnswerOf(c)]' = [[c \in Clerk |-> AnswerOf(c)] EXCEPT ![k] = NoReply]
      BY <1>7, <1>13, <2>1, <2>8, OneSeen
    <3>2. [c \in Clerk |-> StatusOf(c)][k] = "pending"
      BY <1>13, <2>8
    <3>3. Service!Perform(k)
      BY <1>12, <1>15, <1>16, <1>17, <2>4, <2>5, <2>6, <2>7, <3>1, <3>2
      DEF Service!Perform, Service!Matching, Service!Answered
    <3> QED BY <3>3
  <2>9. CASE clerk[k].at = "calling" \/ Attempt(k) # r
    <3>1. UNCHANGED [c \in Clerk |-> StatusOf(c)] /\ UNCHANGED [c \in Clerk |-> AnswerOf(c)]
      BY <1>7, <1>14, <2>9 DEF Unseen
    <3>2. [c \in Clerk |-> StatusOf(c)][k] = "pending"
      BY <1>14, <2>9
    <3>3. Service!PerformUnanswered(k)
      BY <1>12, <1>15, <1>16, <1>17, <2>4, <2>5, <2>6, <2>7, <3>1, <3>2
      DEF Service!PerformUnanswered, Service!Matching
    <3> QED BY <3>3
  <2> QED BY <2>8, <2>9
<1>18. CASE ~(a.op = "Put" /\ old[a.key].version = a.version)
  <2>1. done.store = old /\ (a.op = "Put" => done.reply.err # "OK")
    BY <1>6, <1>10, <1>18 DEF DoOpFacts
  <2>2. UNCHANGED StoreAfter(Len(executed))
    BY <1>2, <1>4, <2>1
  <2>3. Performed(k)' = Performed(k)
    BY <1>8, <1>9, <2>1
  <2>4. UNCHANGED [c \in Clerk |-> Performed(c)]
    BY <1>7, <2>3 DEF Unseen
  <2>5. CASE r = Attempt(k) /\ clerk[k].at # "calling"
    <3>1. /\ [c \in Clerk |-> StatusOf(c)]' = [[c \in Clerk |-> StatusOf(c)] EXCEPT ![k] = "answered"]
          /\ [c \in Clerk |-> AnswerOf(c)]' = [[c \in Clerk |-> AnswerOf(c)] EXCEPT ![k] = done.reply]
      BY <1>7, <1>13, <2>5, OneSeen
    <3>2. [c \in Clerk |-> StatusOf(c)][k] = "pending"
      BY <1>13, <2>5
    <3>3. CASE a.op = "Get"
      <4>1. done.reply = [err |-> IF old[a.key].version = 0 THEN "ErrNoKey" ELSE "OK",
                          value |-> old[a.key].value, version |-> old[a.key].version]
        BY <1>6, <3>3 DEF DoOpFacts
      <4>2. Service!Read(k)
        BY <1>4, <1>12, <1>16, <2>2, <2>4, <3>1, <3>2, <3>3, <4>1
        DEF Service!Read, Service!Answered
      <4> QED BY <4>2
    <3>4. CASE a.op = "Put"
      <4>1. /\ old[a.key].version # a.version
            /\ done.reply = [NoReply EXCEPT !.err =
                              IF old[a.key].version = 0 THEN "ErrNoKey" ELSE "ErrVersion"]
        BY <1>6, <1>18, <3>4 DEF DoOpFacts
      <4>2. Service!Decline(k)
        BY <1>4, <1>12, <1>15, <1>16, <2>2, <2>4, <3>1, <3>2, <3>4, <4>1
        DEF Service!Decline, Service!Matching, Service!Answered
      <4> QED BY <4>2
    <3> QED BY <1>10, <3>3, <3>4
  <2>6. CASE clerk[k].at = "calling" \/ Attempt(k) # r
    <3>1. UNCHANGED [c \in Clerk |-> StatusOf(c)] /\ UNCHANGED [c \in Clerk |-> AnswerOf(c)]
      BY <1>7, <1>14, <2>6 DEF Unseen
    <3>2. UNCHANGED Service!svars
      BY <1>12, <1>16, <2>2, <2>4, <3>1 DEF Service!svars
    <3> QED BY <3>2
  <2> QED BY <2>5, <2>6
<1> QED BY <1>17, <1>18

-----------------------------------------------------------------------------

LEMMA ServiceInit == KVInit /\ Typed /\ CallsInv /\ Views => Service!Init
<1> SUFFICES ASSUME KVInit, Typed, Views PROVE Service!Init
  OBVIOUS
<1>1. Len(executed) = 0 /\ \A n \in 1 .. 0 : FALSE
  BY DEF KVInit, Init
<1>2. \A c \in Clerk : clerk[c].at = "idle"
  BY DEF KVInit, Idle
<1>3. \A c \in Clerk : StatusOf(c) = "idle" /\ AnswerOf(c) = NoReply /\ Performed(c) = FALSE
  BY <1>1, <1>2 DEF Views, View
<1>4. \A c \in Clerk : clerk[c].args \in Args
  BY FieldTypes
<1>5. StoreAfter(Len(executed)) = [k \in Key |-> Service!NoRecord]
  BY <1>1 DEF StoreAfter, NoStore, NoRecord, Service!NoRecord
<1>6. Service!NoAnswer = NoReply /\ Service!Requests = Args
  BY DEF Service!NoAnswer, NoReply, Service!Requests, Args
<1>7. result = [c \in Clerk |-> NoReply]
  BY DEF KVInit
<1>8. [c \in Clerk |-> clerk[c].args] \in [Clerk -> Args]
  BY <1>4
<1>9. /\ [c \in Clerk |-> StatusOf(c)] = [c \in Clerk |-> "idle"]
      /\ [c \in Clerk |-> AnswerOf(c)] = [c \in Clerk |-> NoReply]
      /\ [c \in Clerk |-> Performed(c)] = [c \in Clerk |-> FALSE]
  BY <1>3
<1> QED BY <1>5, <1>6, <1>7, <1>8, <1>9 DEF Service!Init

LEMMA ServiceStep ==
  ASSUME KVInv, CallsInv, Views, Typed', Views', [KVNext]_kvvars
  PROVE  [Service!Next]_(Service!svars)
<1>0. Typed /\ \A k \in Clerk : View(k) /\ View(k)'
  BY DEF KVInv, Views
<1>1. ASSUME NEW i \in Server, Apply(i) \/ Crash(i) \/ \E j \in Server : Restore(i, j)
      PROVE  UNCHANGED Service!svars
  BY <1>0, <1>1, ServersSeen
<1>2. ASSUME NEW n \in 1 .. Len(queue), Commit(n)
      PROVE  Service!Next \/ UNCHANGED Service!svars
  BY <1>2, CommitSeen DEF Service!Next
<1>3. ASSUME NEW k \in Clerk, Call(k) PROVE Service!Next
  <2>1. Service!Invoke(k)
    BY <1>0, <1>3, CallSeen
  <2> QED BY <2>1 DEF Service!Next
<1>4. ASSUME NEW k \in Clerk, TryInVain(k) \/ Resend(k)
      PROVE  Service!Next \/ UNCHANGED Service!svars
  <2>1. Service!Lose(k) \/ UNCHANGED Service!svars
    BY <1>0, <1>4, ResendSeen
  <2> QED BY <2>1 DEF Service!Next
<1>5. ASSUME NEW k \in Clerk, Finish(k) PROVE Service!Next
  <2>1. Service!Return(k)
    BY <1>0, <1>5, FinishSeen
  <2> QED BY <2>1 DEF Service!Next
<1>6. ASSUME NEW k \in Clerk, NEW i \in Server, Try(k, i)
      PROVE  UNCHANGED Service!svars
  BY <1>0, <1>6, TrySeen
<1>7. CASE UNCHANGED kvvars
  <2>1. UNCHANGED <<executed, history, clerk, result>>
    BY <1>7 DEF kvvars, clerks, subvars
  <2>2. \A c \in Clerk : Unseen(c)
    BY <2>1, UnseenAlone
  <2> QED BY <2>1, <2>2, StutterSeen
<1> QED BY <1>1, <1>2, <1>3, <1>4, <1>5, <1>6, <1>7 DEF KVNext

\* The service keeps its promise (server.go, client.go): every Get and Put of a
\* clerk takes effect once, between its call and its return, although the clerk
\* sends it again and again and each attempt may end up in the log; and the
\* error a Put returns tells the truth about whether it took effect.  Assumed is
\* that no server is given a snapshot older than what it has executed: it would
\* answer Gets from an old map.
THEOREM KeepsTheService ==
  ASSUME ~Rollback
  PROVE  KVSpec => KVIsService /\ IsService
<1>1. KVSpec => [](KVInv /\ CallsInv /\ Typed /\ Views)
  <2>1. KVInv /\ CallsInv => Typed /\ Views
    BY ViewsHold DEF KVInv
  <2> QED BY <2>1, CallsAlways, PTL
<1>2. KVSpec => Service!Init /\ [][Service!Next]_(Service!svars)
  <2>1. KVInv /\ CallsInv /\ Typed /\ Views /\ (KVInv /\ CallsInv /\ Typed /\ Views)'
          /\ [KVNext]_kvvars => [Service!Next]_(Service!svars)
    BY ServiceStep
  <2>2. KVInit /\ (KVInv /\ CallsInv /\ Typed /\ Views) => Service!Init
    BY ServiceInit
  <2> QED BY <1>1, <2>1, <2>2, PTL DEF KVSpec
<1>3. KVSpec => [][UNCHANGED Service!svars \/ Service!Next]_<<executed, clerk, result, history>>
  <2>1. [Service!Next]_(Service!svars)
          => [UNCHANGED Service!svars \/ Service!Next]_<<executed, clerk, result, history>>
    OBVIOUS
  <2> QED BY <1>2, <2>1, PTL
<1> QED BY <1>2, <1>3 DEF KVIsService, IsService, Service!Spec
=============================================================================
