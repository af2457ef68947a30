------------------------------- MODULE MCLock -------------------------------
(* Two clients, each of them with or without a lock.                       *)
EXTENDS Lock

CONSTANTS c1, c2, none, x
=============================================================================
