---------------------------- MODULE MCWorkerPool ----------------------------
(* A small instance of WorkerPool for TLC: the session's payer has room for  *)
(* two workers, and the other one has limits of its own.                     *)
EXTENDS WorkerPool, TLC

CONSTANTS s1, p1, p2   \* a session and two payers

MCPayerOf == s1 :> p1
MCPerPayerOverrides == p2 :> [sessions |-> 1, workers |-> 1]
=============================================================================
