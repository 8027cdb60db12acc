----------------------------- MODULE MCRotation -----------------------------
(***************************************************************************)
(* Two operators and one replica: replicas share nothing but Vault and the *)
(* mock, and every property speaks of one at a time.                       *)
(***************************************************************************)
EXTENDS RotationPayments

CONSTANTS r1, o1, o2

OneReplica == {r1}
TwoOperators == {o1, o2}
=============================================================================
