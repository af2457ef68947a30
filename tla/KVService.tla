------------------------------ MODULE KVService ------------------------------
(***************************************************************************)
(* What a versioned key/value service promises its clients, however it is  *)
(* built: every call takes effect at one moment between its invocation and *)
(* its return, a Put at most once, and the error a Put returns tells the   *)
(* truth about whether it took effect.                                     *)
(***************************************************************************)
EXTENDS Naturals

CONSTANTS Client, Key, Value, Empty

VARIABLES
  store,      \* the records; version 0 is "no such key"
  status,     \* per client: "idle", "pending" or "answered"
  request,    \* its last request
  performed,  \* whether that request is a Put that has taken effect
  answer,     \* the latest answer to it
  returned    \* what its last completed call returned

svars == <<store, status, request, performed, answer, returned>>

NoRecord == [value |-> Empty, version |-> 0]
NoAnswer == [err |-> "OK", value |-> Empty, version |-> 0]
GetRequest(k) == [op |-> "Get", key |-> k, value |-> Empty, version |-> 0]
PutRequest(k, v, n) == [op |-> "Put", key |-> k, value |-> v, version |-> n]
Requests == [op : {"Get", "Put"}, key : Key, value : Value, version : Nat]

Init ==
  /\ store = [k \in Key |-> NoRecord]
  /\ status = [c \in Client |-> "idle"]
  /\ request \in [Client -> Requests]
  /\ performed = [c \in Client |-> FALSE]
  /\ answer = [c \in Client |-> NoAnswer]
  /\ returned = [c \in Client |-> NoAnswer]

\* Some new request of client c.
Asks(c) ==
  /\ request'[c] \in Requests
  /\ request' = [request EXCEPT ![c] = request'[c]]
  /\ status' = [status EXCEPT ![c] = "pending"]
  /\ performed' = [performed EXCEPT ![c] = FALSE]
  /\ answer' = [answer EXCEPT ![c] = NoAnswer]
  /\ UNCHANGED store

Invoke(c) ==
  /\ status[c] = "idle"
  /\ Asks(c)
  /\ UNCHANGED returned

Answered(c, a) ==
  /\ status' = [status EXCEPT ![c] = "answered"]
  /\ answer' = [answer EXCEPT ![c] = a]
  /\ UNCHANGED <<request, returned>>

Matching(c) == store[request[c].key].version = request[c].version

\* The one effect of a Put.
Perform(c) ==
  /\ status[c] = "pending" /\ request[c].op = "Put"
  /\ ~performed[c] /\ Matching(c)
  /\ store' = [store EXCEPT ![request[c].key] =
                 [value |-> request[c].value, version |-> request[c].version + 1]]
  /\ performed' = [performed EXCEPT ![c] = TRUE]
  /\ Answered(c, NoAnswer)

\* The same, with an answer that never arrives.
PerformUnanswered(c) ==
  /\ status[c] = "pending" /\ request[c].op = "Put"
  /\ ~performed[c] /\ Matching(c)
  /\ store' = [store EXCEPT ![request[c].key] =
                 [value |-> request[c].value, version |-> request[c].version + 1]]
  /\ performed' = [performed EXCEPT ![c] = TRUE]
  /\ UNCHANGED <<status, request, answer, returned>>

Decline(c) ==
  /\ status[c] = "pending" /\ request[c].op = "Put" /\ ~Matching(c)
  /\ Answered(c, [NoAnswer EXCEPT !.err =
       IF store[request[c].key].version = 0 THEN "ErrNoKey" ELSE "ErrVersion"])
  /\ UNCHANGED <<store, performed>>

Read(c) ==
  /\ status[c] = "pending" /\ request[c].op = "Get"
  /\ Answered(c, [err |-> IF store[request[c].key].version = 0 THEN "ErrNoKey" ELSE "OK",
                  value |-> store[request[c].key].value,
                  version |-> store[request[c].key].version])
  /\ UNCHANGED <<store, performed>>

\* An answer that never arrived: the call is tried again.
Lose(c) ==
  /\ status[c] = "answered"
  /\ status' = [status EXCEPT ![c] = "pending"]
  /\ answer' = [answer EXCEPT ![c] = NoAnswer]
  /\ UNCHANGED <<store, request, performed, returned>>

\* "ErrVersion" and "ErrNoKey" from a Put mean it has not taken effect, "OK"
\* that it has; only "ErrMaybe" leaves it open.
Truthful(c, err) ==
  request[c].op = "Put" =>
    /\ err = "OK" => performed[c]
    /\ err \in {"ErrVersion", "ErrNoKey"} => ~performed[c]

Returns(c) ==
  /\ status[c] = "answered"
  /\ \E err \in {answer[c].err} \cup (IF request[c].op = "Put" THEN {"ErrMaybe"} ELSE {}) :
       /\ Truthful(c, err)
       /\ returned' = [returned EXCEPT ![c] = [answer[c] EXCEPT !.err = err]]

Return(c) ==
  /\ Returns(c)
  /\ status' = [status EXCEPT ![c] = "idle"]
  /\ UNCHANGED <<store, request, performed, answer>>

\* A client whose call returns may invoke the next one at once.
ReturnAndInvoke(c) == Returns(c) /\ Asks(c)

Next ==
  \E c \in Client :
    \/ Perform(c) \/ PerformUnanswered(c) \/ Decline(c) \/ Read(c) \/ Lose(c)
    \/ Invoke(c) \/ Return(c) \/ ReturnAndInvoke(c)

Spec == Init /\ [][Next]_svars
=============================================================================
