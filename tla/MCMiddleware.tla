---------------------------- MODULE MCMiddleware ----------------------------
(***************************************************************************)
(* Middleware with more clients than buckets.                              *)
(***************************************************************************)
EXTENDS Middleware, TLC

Symmetric == Permutations(Clients) \cup Permutations(Requests)
=============================================================================
