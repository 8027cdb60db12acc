-------------------------- MODULE MCPaymentService --------------------------
(***************************************************************************)
(* Small instances of PaymentService.                                      *)
(***************************************************************************)
EXTENDS PaymentService, TLC

Symmetry == Permutations(Requests) \cup Permutations(Keys)
=============================================================================
