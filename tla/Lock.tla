-------------------------------- MODULE Lock --------------------------------
(***************************************************************************)
(* kvsrv/lock/lock.go: a lock built on the clerk's Get and conditional     *)
(* Put.  Every client keeps one Lock of the same name; a client that is    *)
(* "free" of locks uses the other keys as it likes.                        *)
(***************************************************************************)
EXTENDS KVSrv

CONSTANTS
  lockname,     \* the key all locks share
  MaxAcquires,  \* bound: how often a client calls Acquire
  MaxVersion    \* bound: versions of the keys that are not locks

\* A client's id stands for the random lk.id: different for every Lock.
ASSUME LockAssumption ==
  /\ lockname \in Key /\ Client \subseteq Value /\ Empty \notin Client
  /\ MaxAcquires \in Nat /\ MaxVersion \in Nat

VARIABLES
  pc,        \* per client: where its calls of MakeLock, Acquire, Release are
  acquires   \* per client: how often it has called Acquire

lvars == <<valueStore, clerk, returned, pc, acquires>>

At(c, here, there) == pc[c] = here /\ pc' = [pc EXCEPT ![c] = there]

-----------------------------------------------------------------------------

MakeLock(c) ==
  /\ At(c, "new", "making")
  /\ Call(c, PutArgs(lockname, Empty, 0))
  /\ UNCHANGED <<valueStore, returned, acquires>>

LockMade(c) ==
  /\ At(c, "making", "idle")
  /\ Returning(c) /\ ThenIdle(c)
  /\ UNCHANGED acquires

Acquire(c) ==
  /\ At(c, "idle", "checking")
  /\ acquires[c] < MaxAcquires
  /\ acquires' = [acquires EXCEPT ![c] = @ + 1]
  /\ Call(c, GetArgs(lockname))
  /\ UNCHANGED <<valueStore, returned>>

\* Mutants: the Put of Acquire carries no version; Acquire goes on without
\* reading again.
TakeUnversioned(c) ==
  /\ At(c, "checking", "taking")
  /\ Answer(c).value = Empty
  /\ ThenCall(c, PutArgs(lockname, c, 0))
TakenUnread(c) ==
  /\ At(c, "taking", "checking")
  /\ Returning(c) /\ ThenIdle(c)
  /\ UNCHANGED acquires

\* Acquire finds its own id, or an empty value it tries to replace, or goes on
\* reading.
Acquired(c) ==
  /\ At(c, "checking", "held")
  /\ Answer(c).value = c
  /\ ThenIdle(c)
Take(c) ==
  /\ At(c, "checking", "taking")
  /\ Answer(c).value = Empty
  /\ ThenCall(c, PutArgs(lockname, c, Answer(c).version))
LookAgain(c) ==
  /\ At(c, "checking", "checking")
  /\ Answer(c).value \notin {c, Empty}
  /\ ThenCall(c, GetArgs(lockname))

Check(c) ==
  /\ Returning(c)
  /\ Acquired(c) \/ Take(c) \/ LookAgain(c)
  /\ UNCHANGED acquires

\* Whatever the Put returned, Acquire reads again to see who has the lock.
Taken(c) ==
  /\ At(c, "taking", "checking")
  /\ Returning(c) /\ ThenCall(c, GetArgs(lockname))
  /\ UNCHANGED acquires

Release(c) ==
  /\ At(c, "held", "releasing")
  /\ Call(c, GetArgs(lockname))
  /\ UNCHANGED <<valueStore, returned, acquires>>

\* Mutant: Release compares with the wrong value and leaves the lock alone.
OwnValue(c) == Answer(c).value = Empty

Mine(c) == Answer(c).value = c

ReleaseCheck(c) ==
  /\ Returning(c)
  /\ \/ /\ Mine(c)
        /\ At(c, "releasing", "freeing")
        /\ ThenCall(c, PutArgs(lockname, Empty, Answer(c).version))
     \/ /\ ~Mine(c)
        /\ At(c, "releasing", "idle")
        /\ ThenIdle(c)
  /\ UNCHANGED acquires

Freed(c) ==
  /\ At(c, "freeing", "idle")
  /\ Returning(c) /\ ThenIdle(c)
  /\ UNCHANGED acquires

-----------------------------------------------------------------------------
(* Clients without a lock.                                                 *)

FreeCall(c, args) ==
  /\ pc[c] = "free" /\ clerk[c].rpc = "idle"
  /\ args.key # lockname /\ args.version < MaxVersion
  /\ Call(c, args)
  /\ UNCHANGED <<valueStore, returned, pc, acquires>>

FreeReturn(c) ==
  /\ pc[c] = "free"
  /\ Returning(c) /\ ThenIdle(c)
  /\ UNCHANGED <<pc, acquires>>

-----------------------------------------------------------------------------

Init ==
  /\ KVInit(lockname)
  /\ pc \in [Client -> {"new", "free"}]
  /\ acquires = [c \in Client |-> 0]

\* The code that runs when a call has returned.
Resume(c) ==
  LockMade(c) \/ Check(c) \/ Taken(c) \/ ReleaseCheck(c) \/ Freed(c)

\* Bound: a client without a lock writes its own id only.
FreeArgs(c) ==
  {GetArgs(k) : k \in Key} \cup {PutArgs(k, c, n) : k \in Key, n \in 0 .. MaxVersion}

Next ==
  \E c \in Client :
    \/ MakeLock(c) \/ Acquire(c) \/ Release(c) \/ Resume(c)
    \/ FreeReturn(c) \/ \E args \in FreeArgs(c) : FreeCall(c, args)
    \/ (Serve(c) \/ Resend(c)) /\ UNCHANGED <<pc, acquires>>

Spec == Init /\ [][Next]_lvars

\* The server serves, not every reply is lost, and who holds the lock releases
\* it in the end.
Fairness ==
  \A c \in Client :
    /\ WF_lvars(Serve(c) /\ UNCHANGED <<pc, acquires>>)
    /\ SF_lvars(Resume(c))
    /\ WF_lvars(Release(c))

FairSpec == Spec /\ Fairness

-----------------------------------------------------------------------------

Places == {"free", "new", "making", "idle", "checking", "taking", "held",
           "releasing", "freeing"}

\* Types of the variables; an idle clerk belongs to an idle caller.
TypeOK ==
  /\ KVTypes
  /\ pc \in [Client -> Places]
  /\ acquires \in [Client -> Nat]
  /\ \A c \in Client :
       /\ pc[c] \in {"new", "idle", "held"} => clerk[c].rpc = "idle"
       /\ pc[c] \notin {"new", "idle", "held", "free"} => clerk[c].rpc # "idle"

Holding == {"held", "releasing"}

\* Acquire returns to one client at a time: nobody else's Acquire returns
\* before this one's Release has reached the server, although Puts are resent
\* and an Acquire does not look at the error of its own.
MutualExclusion ==
  \A c, d \in Client : pc[c] \in Holding /\ pc[d] \in Holding => c = d

\* Release, which looks at no error either, leaves the lock free of its id.
ReleaseFrees ==
  \A c \in Client : pc[c] = "idle" => valueStore[lockname].value # c

\* Where a client is in its calls, against the record of the lock.
lock == valueStore[lockname]

Checks(c) ==
  /\ clerk[c].args = GetArgs(lockname)
  /\ clerk[c].rpc = "replied" =>
       LET r == clerk[c].reply IN
       /\ r.version <= lock.version
       /\ r.version = lock.version => r.value = lock.value
       /\ r.value = c => lock.value = c
Takes(c) ==
  LET n == clerk[c].args.version IN
  /\ clerk[c].args = PutArgs(lockname, c, n)
  /\ n <= lock.version /\ (n = lock.version => lock.value = Empty)
Releases(c) ==
  /\ clerk[c].args = GetArgs(lockname) /\ lock.value = c
  /\ clerk[c].rpc = "replied" =>
       clerk[c].reply.value = c /\ clerk[c].reply.version = lock.version
Frees(c) ==
  LET n == clerk[c].args.version IN
  /\ clerk[c].args = PutArgs(lockname, Empty, n)
  /\ \/ n = lock.version /\ lock.value = c /\ clerk[c].rpc # "replied"
     \/ n < lock.version /\ lock.value # c

OwnerInv(c) ==
  /\ pc[c] \in {"free", "new", "making", "idle"} => lock.value # c
  /\ pc[c] = "making" => clerk[c].args = PutArgs(lockname, Empty, 0)
  /\ pc[c] = "checking" => Checks(c)
  /\ pc[c] = "taking" => Takes(c)
  /\ pc[c] = "held" => lock.value = c
  /\ pc[c] = "releasing" => Releases(c)
  /\ pc[c] = "freeing" => Frees(c)
  /\ pc[c] = "free" /\ clerk[c].rpc # "idle" => clerk[c].args.key # lockname

\* What the two above rest on: a reply that carries the record's version carries
\* its value, a Put that asks for the record's version finds the value the
\* client read, and a client's id leaves the record only by that client's Put.
LockInv ==
  /\ lock.version = 0 => lock.value = Empty
  /\ \A c \in Client : OwnerInv(c)

\* Every step of the server and the clerks is one the service allows; in
\* particular a Put that was sent twice is performed once.
IsService == Service!Spec

\* An Acquire returns in the end, if the others stop asking for the lock.
AcquireReturns ==
  \A c \in Client : pc[c] = "checking" ~> pc[c] = "held"
=============================================================================
