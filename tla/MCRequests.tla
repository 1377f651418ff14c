----------------------------- MODULE MCRequests -----------------------------
(* Instances of Requests for TLC. *)
EXTENDS Requests, TLC

CONSTANTS w1, w2

\* Backoff doubles with the attempt.
Doubling == [a \in Attempt |-> {2 ^ a}]

Interchangeable == Permutations(Worker)
==============================================================================
