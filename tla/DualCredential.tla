--------------------------- MODULE DualCredential ---------------------------
(***************************************************************************)
(* What CredentialManager promises to the code that uses it: whatever      *)
(* happens to Vault, the process serves a credential Vault published,      *)
(* never goes back to an older one, gives a credential up only for the     *)
(* latest one or by dying, and keeps the one it gave up as the spare of    *)
(* the dual-credential window.                                             *)
(***************************************************************************)
EXTENDS Integers

VARIABLES latest,   \* the newest credential in Vault
          held,     \* the credential the process authenticates with, 0 if none
          spare     \* the fallback of the dual-credential window, 0 if none

vars == <<latest, held, spare>>

Init == latest = 1 /\ held = 0 /\ spare = 0

\* An operator writes a new version of the secret.
Publish ==
  /\ latest' \in Nat /\ latest' > latest
  /\ UNCHANGED <<held, spare>>

\* The process switches to the newest credential and keeps the old one.
Adopt ==
  /\ held # latest
  /\ held' = latest
  /\ spare' = held
  /\ UNCHANGED latest

\* The process dies; both copies lived in its memory only.
Forget ==
  /\ held' = 0
  /\ spare' = 0
  /\ UNCHANGED latest

Next == Publish \/ Adopt \/ Forget

Spec == Init /\ [][Next]_vars

\* The three credentials are ordered in time: what is held was published and
\* the spare is strictly older than what is held.
Ordered ==
  /\ latest \in Nat \ {0} /\ held \in Nat /\ spare \in Nat
  /\ held <= latest
  /\ held = 0 => spare = 0
  /\ held # 0 => spare < held
=============================================================================
