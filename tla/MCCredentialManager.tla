------------------------ MODULE MCCredentialManager ------------------------
(***************************************************************************)
(* Small instances of CredentialManager.  A tick is 30 seconds: the poll   *)
(* interval is 1 tick and the backoff cap, 300 seconds, is 10 ticks.       *)
(***************************************************************************)
EXTENDS CredentialManager

NoTtls == {NoTtl}
SomeTtls == {NoTtl, 2}
GoodPayloads == {"complete"}
=============================================================================
