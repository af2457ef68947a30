-------------------------------- MODULE KVOps --------------------------------
(***************************************************************************)
(* The requests of the key/value services that run on rsm, and what DoOp   *)
(* does with a Get or a Put (kvraft/server.go; shardgrp/server.go does the *)
(* same to a shard it owns).                                               *)
(***************************************************************************)
EXTENDS Naturals

CONSTANTS Key, Value, Empty   \* Empty is "", the zero value of a string

ASSUME ValueAssumption == Empty \in Value

NoRecord == [value |-> Empty, version |-> 0]
NoStore == [k \in Key |-> NoRecord]
NoReply == [err |-> "OK", value |-> Empty, version |-> 0]
GetArgs(k) == [op |-> "Get", key |-> k, value |-> Empty, version |-> 0]
PutArgs(k, v, n) == [op |-> "Put", key |-> k, value |-> v, version |-> n]

Errors == {"OK", "ErrNoKey", "ErrVersion", "ErrMaybe"}
Records == [value : Value, version : Nat]
Args == [op : {"Get", "Put"}, key : Key, value : Value, version : Nat]
Replies == [err : Errors, value : Value, version : Nat]

\* The condition of a Put; version 0 asks for a key that is not there.
SameVersion(a, record) == a.version = record.version

\* The map and the reply when request a meets the map store.
DoOp(store, a) ==
  LET record == store[a.key] IN
  CASE a.op = "Get" ->
         [store |-> store,
          reply |-> [err |-> IF record.version = 0 THEN "ErrNoKey" ELSE "OK",
                     value |-> record.value, version |-> record.version]]
    [] a.op = "Put" /\ SameVersion(a, record) ->
         [store |-> [store EXCEPT ![a.key] =
                       [value |-> a.value, version |-> record.version + 1]],
          reply |-> NoReply]
    [] OTHER ->
         [store |-> store,
          reply |-> [NoReply EXCEPT !.err =
                       IF record.version = 0 THEN "ErrNoKey" ELSE "ErrVersion"]]

\* Decoding data into a map that is there: what data does not hold survives.
Decoded(store, data) == [k \in Key |-> IF data[k].version = 0 THEN store[k] ELSE data[k]]
=============================================================================
