--------------------------- MODULE MCVaultClient ---------------------------
(***************************************************************************)
(* VaultClient with the number of attempts the code makes.                 *)
(***************************************************************************)
EXTENDS VaultClient

Attempts == 3
=============================================================================
