----------------------------- MODULE MCReplica ------------------------------
(***************************************************************************)
(* Replica with small numbers in the order of the real ones: the three     *)
(* attempts of a read on a Vault that hangs (here two of two ticks) last   *)
(* longer than the liveness probe allows (here three ticks), and that      *)
(* longer than the readiness probe does.                                   *)
(***************************************************************************)
EXTENDS Replica

Attempts == 2
HangTicks == 2
Poll == 2
Period == 1
Live == 3
Ready == 2
=============================================================================
