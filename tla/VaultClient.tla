---------------------------- MODULE VaultClient ----------------------------
(***************************************************************************)
(* VaultClient of app/vault_client.py: the cached hvac client, the retry   *)
(* loop of read_secret with its audit records, and the readiness probe     *)
(* that asks is_authenticated of the same client.                          *)
(*                                                                         *)
(* read_secret blocks the event loop, so the process does nothing else     *)
(* while it runs; Vault, the token and the service account do change       *)
(* between two attempts.                                                   *)
(***************************************************************************)
EXTENDS Integers

CONSTANT MaxRetries   \* MAX_RETRIES

ASSUME MaxRetriesAssumption == MaxRetries \in Nat \ {0}

VARIABLES
  method,     \* vault_auth_method, fixed for the life of the process
  server,     \* what Vault answers to a read: "ok", "missing", "malformed", "down"
  login,      \* a Kubernetes login: "ok", "absent" (no token file), "refused"
  client,     \* _client: "none", "valid" or, its token no longer accepted, "stale"
  phase,      \* read_secret: "idle", "trying", "sleeping" between two attempts, "ended"
  attempt,    \* the attempt under way, or the last one
  result,     \* how the read ended
  audits      \* audit_credential_access records of the read, by outcome

vars == <<method, server, login, client, phase, attempt, result, audits>>

Methods == {"kubernetes", "token", "unsupported"}
Results == {"none", "secret", "auth", "not_found", "connection"}
Outcomes == {"success", "failure"}
Logins == {"ok", "absent", "refused"}
NoAudits == [o \in Outcomes |-> 0]

\* The other methods do not log in.
LoginsOf(m) == IF m = "kubernetes" THEN Logins ELSE {"ok"}

Init ==
  /\ method \in Methods
  /\ server \in {"ok", "missing", "malformed", "down"}
  /\ login \in LoginsOf(method)
  /\ client = "none"
  /\ phase = "idle"
  /\ attempt = 0
  /\ result = "none"
  /\ audits = NoAudits

-----------------------------------------------------------------------------
(* read_secret *)

Begin ==
  /\ phase = "idle"
  /\ phase' = "trying"
  /\ attempt' = 1
  /\ UNCHANGED <<method, server, login, client, result, audits>>

\* With a token there is no login: the client is made without asking Vault.
LoginOk ==
  /\ client = "none"
  /\ \/ method = "token"
     \/ method = "kubernetes" /\ server # "down" /\ login = "ok"

\* A login that Vault refuses is an authentication error, and so is an unknown
\* method; a missing service account file, or a Vault that is down, looks like
\* a failed connection.
LoginRefused ==
  /\ client = "none"
  /\ \/ method = "unsupported"
     \/ method = "kubernetes" /\ server # "down" /\ login = "refused"

LoginLost ==
  /\ client = "none"
  /\ method = "kubernetes" /\ (server = "down" \/ login = "absent")

\* The client property: created once, on the first use that succeeds.
Login ==
  /\ phase = "trying"
  /\ LoginOk
  /\ client' = "valid"
  /\ UNCHANGED <<method, server, login, phase, attempt, result, audits>>

Answers == client # "none" /\ server # "down"

Audited(outcome) == audits' = [audits EXCEPT ![outcome] = @ + 1]

End(r) ==
  /\ phase' = "ended"
  /\ result' = r
  /\ UNCHANGED <<method, server, login, client, attempt>>

Succeed ==
  /\ phase = "trying"
  /\ Answers /\ client = "valid" /\ server = "ok"
  /\ Audited("success")
  /\ End("secret")

\* VaultAuthError and VaultSecretNotFoundError are not retried.
Refused ==
  /\ phase = "trying"
  /\ \/ LoginRefused /\ End("auth")
     \/ Answers /\ client = "stale" /\ End("auth")
     \/ Answers /\ client = "valid" /\ server = "missing" /\ End("not_found")
  /\ Audited("failure")

Transient ==
  \/ LoginLost
  \/ client # "none" /\ server = "down"
  \/ client = "valid" /\ server = "malformed"

\* A mistake in LastAttempt: one attempt too many.
LastAttemptLate == attempt > MaxRetries

LastAttempt == attempt >= MaxRetries

\* A mistake in Retry: an attempt that is tried again leaves a record as well.
RetryAudited ==
  /\ phase = "trying"
  /\ Transient
  /\ ~LastAttempt
  /\ phase' = "sleeping"
  /\ Audited("failure")
  /\ UNCHANGED <<method, server, login, client, attempt, result>>

\* Anything else that goes wrong is, until the last attempt.
Retry ==
  /\ phase = "trying"
  /\ Transient
  /\ ~LastAttempt
  /\ phase' = "sleeping"
  /\ UNCHANGED <<method, server, login, client, attempt, result, audits>>

\* A mistake in Wake: the attempt is not counted.
WakeUncounted ==
  /\ phase = "sleeping"
  /\ phase' = "trying"
  /\ UNCHANGED <<method, server, login, client, attempt, result, audits>>

Wake ==
  /\ phase = "sleeping"
  /\ phase' = "trying"
  /\ attempt' = attempt + 1
  /\ UNCHANGED <<method, server, login, client, result, audits>>

GiveUp ==
  /\ phase = "trying"
  /\ Transient
  /\ LastAttempt
  /\ Audited("failure")
  /\ End("connection")

\* The caller has the result or the exception, and goes on.
Return ==
  /\ phase = "ended"
  /\ phase' = "idle"
  /\ attempt' = 0
  /\ result' = "none"
  /\ audits' = NoAudits
  /\ UNCHANGED <<method, server, login, client>>

-----------------------------------------------------------------------------
(* The readiness probe, and the environment *)

\* is_authenticated logs in as well if there is no client, and turns every
\* exception into False.
Connected == IF LoginOk THEN "valid" ELSE client
IsAuthenticated == server # "down" /\ Connected = "valid"

Probe ==
  /\ phase = "idle"
  /\ client' = Connected
  /\ UNCHANGED <<method, server, login, phase, attempt, result, audits>>

\* The token runs out, or Vault lost it in a restart.
TokenLost ==
  /\ client = "valid"
  /\ client' = "stale"
  /\ UNCHANGED <<method, server, login, phase, attempt, result, audits>>

ServerChanges ==
  /\ \E s \in {"ok", "missing", "malformed", "down"} \ {server} : server' = s
  /\ UNCHANGED <<method, login, client, phase, attempt, result, audits>>

\* Nobody looks at the login while there is a client.
LoginChanges ==
  /\ client = "none"
  /\ \E l \in LoginsOf(method) \ {login} : login' = l
  /\ UNCHANGED <<method, server, client, phase, attempt, result, audits>>

Read == Login \/ Succeed \/ Refused \/ Retry \/ Wake \/ GiveUp

Next == Begin \/ Read \/ Return \/ Probe \/ TokenLost \/ ServerChanges \/ LoginChanges

Spec == Init /\ [][Next]_vars

\* A read that has begun runs to its end (every request to Vault has a timeout,
\* every sleep is bounded), and the refresh loop begins another one.
Fairness == WF_vars(Read \/ Return) /\ WF_vars(Begin)

FairSpec == Spec /\ Fairness
-----------------------------------------------------------------------------
(* Properties *)

\* The type invariant.
TypeOK ==
  /\ method \in Methods
  /\ server \in {"ok", "missing", "malformed", "down"}
  /\ login \in Logins
  /\ client \in {"none", "valid", "stale"}
  /\ phase \in {"idle", "trying", "sleeping", "ended"}
  /\ attempt \in 0 .. MaxRetries
  /\ result \in Results
  /\ audits \in [Outcomes -> 0 .. 1]

Ended == phase = "ended"

\* A read leaves one audit record, with the outcome its caller sees, on each of
\* the ways out of the retry loop.
OneAuditPerRead ==
  Ended => LET outcome == IF result = "secret" THEN "success" ELSE "failure"
           IN  audits = [o \in Outcomes |-> IF o = outcome THEN 1 ELSE 0]

\* A failed connection is reported only after all the attempts, whatever Vault
\* did between them.
GivesUpLast == Ended /\ result = "connection" => attempt = MaxRetries

\* A read ends, also while Vault and the login keep changing under it.
ReadsEnd == phase = "trying" ~> phase = "idle"

\* If Vault and the login are well for ever from some point on, reads end up
\* succeeding ("auto-recovery when Vault returns to service").
ReadsRecover ==
  <>[](method = "kubernetes" /\ server = "ok" /\ login = "ok") => <>[](result \in {"none", "secret"})
=============================================================================
