--------------------------- MODULE GatewayClient ---------------------------
(***************************************************************************)
(* GatewayClient of app/gateway_client.py: concurrent authorize_payment    *)
(* calls that share one circuit breaker and the credential store, while    *)
(* the manager adopts new credentials, the gateway activates and revokes   *)
(* keys, fails and comes back.                                             *)
(*                                                                         *)
(* A call gives up the event loop only while it awaits client.post, so an  *)
(* action is the code between two awaits.                                  *)
(***************************************************************************)
EXTENDS CircuitBreaker, CredentialStore

CONSTANTS Calls,            \* bound: concurrent authorize_payment calls
          MaxCredentials    \* bound: versions the manager ever adopts

ASSUME CallsAssumption == Calls # {}
ASSUME MaxCredentialsAssumption == MaxCredentials \in Nat \ {0}

VARIABLES
  breaker,    \* _circuit_breaker
  gauge,      \* the metric circuit_breaker_state
  mgr,        \* the store of _credential_manager
  published,  \* the version the manager adopted last
  accepted,   \* the credentials the gateway accepts
  healthy,    \* does the gateway answer requests that reach it?
  call        \* the calls

vars == <<breaker, gauge, mgr, published, accepted, healthy, call>>
envVars == <<mgr, published, accepted, healthy>>

Phases == {"idle", "primary", "fallback"}
Outcomes == {"none", "ok", "bad_response", "unavailable", "auth_error"}

\* phase: which attempt is awaited; outcome: how the last call ended; primary
\* and fallback: the credentials read before the first await; exposed: the
\* gateway was down at some moment of the attempt, so it may fail however late.
\* A ghost: stable, the credentials read that the gateway has accepted without
\* a break.
Idle(outcome) ==
  [phase |-> "idle", outcome |-> outcome, primary |-> NoCredential,
   fallback |-> NoCredential, exposed |-> FALSE, stable |-> {}]

Sending(c) == call[c].phase # "idle"
InUse(c) == IF call[c].phase = "primary" THEN call[c].primary ELSE call[c].fallback

SecretVersion(n) == [id |-> n, version |-> n, payload |-> "complete", ttl |-> NoTtl]

Init ==
  /\ breaker = NewBreaker
  /\ gauge = 0
  /\ mgr = EmptyStore
  /\ published = 0
  /\ accepted \in SUBSET (1 .. MaxCredentials)
  /\ healthy \in BOOLEAN
  /\ call = [c \in Calls |-> Idle("none")]

-----------------------------------------------------------------------------
(* authorize_payment *)

\* A mistake in UpdateMetric: the gauge is set before the breaker moves.
UpdateMetricEarly == gauge' = GaugeOf(breaker.state)

UpdateMetric == gauge' = GaugeOf(breaker'.state)

End(c, outcome) == call' = [call EXCEPT ![c] = Idle(outcome)]

\* The breaker is open, or there is no credential: nothing is sent.
Refuse(c) ==
  /\ ~Sending(c)
  /\ breaker' = Seen(breaker)
  /\ UpdateMetric
  /\ \/ ~AllowsRequest(breaker) /\ End(c, "unavailable")
     \/ AllowsRequest(breaker) /\ Current(mgr) = NoCredential /\ End(c, "auth_error")
  /\ UNCHANGED envVars

\* Both credentials are read, then the request is sent with the current one.
Start(c) ==
  /\ ~Sending(c)
  /\ AllowsRequest(breaker)
  /\ Current(mgr) # NoCredential
  /\ breaker' = Seen(breaker)
  /\ UpdateMetric
  /\ call' = [call EXCEPT ![c] =
       [phase |-> "primary", outcome |-> "none", primary |-> Current(mgr),
        fallback |-> Fallback(mgr), exposed |-> ~healthy,
        stable |-> {Current(mgr).id, Fallback(mgr).id} \cap accepted]]
  /\ UNCHANGED envVars

\* A status below 500 that is not 401 or 403 is a success for the breaker,
\* even if the body then turns out not to be JSON.
Answered(c) ==
  /\ Sending(c)
  /\ healthy
  /\ InUse(c).id \in accepted
  /\ breaker' = RecordSuccess(breaker)
  /\ UpdateMetric
  /\ \/ End(c, "ok")
     \/ End(c, "bad_response")
  /\ UNCHANGED envVars

Rejected(c) == Sending(c) /\ healthy /\ InUse(c).id \notin accepted

\* A mistake in HasFallback: a first rejection is final.
HasFallbackNever(c) == FALSE

HasFallback(c) ==
  /\ call[c].phase = "primary"
  /\ call[c].fallback \notin {NoCredential, call[c].primary}

\* 401 or 403 for the current credential: the previous one is tried, and the
\* breaker is not asked again.
TryFallback(c) ==
  /\ Rejected(c)
  /\ HasFallback(c)
  /\ call' = [call EXCEPT ![c].phase = "fallback", ![c].exposed = ~healthy]
  /\ UNCHANGED <<breaker, gauge, mgr, published, accepted, healthy>>

\* The last credential is rejected: the breaker hears of neither success nor
\* failure.
AllRejected(c) ==
  /\ Rejected(c)
  /\ ~HasFallback(c)
  /\ End(c, "auth_error")
  /\ UNCHANGED <<breaker, gauge, mgr, published, accepted, healthy>>

\* A 5xx status, a timeout or a transport error; the fallback is not tried.
Failed(c) ==
  /\ Sending(c)
  /\ call[c].exposed
  /\ breaker' = RecordFailure(breaker)
  /\ UpdateMetric
  /\ End(c, "unavailable")
  /\ UNCHANGED envVars

Finish(c) == Answered(c) \/ TryFallback(c) \/ AllRejected(c) \/ Failed(c)

-----------------------------------------------------------------------------
(* The rest of the process, the gateway and the clock *)

\* The refresh loop adopts the next version.
Adopt ==
  /\ published < MaxCredentials
  /\ published' = published + 1
  /\ mgr' = Adopted(mgr, SecretVersion(published + 1))
  /\ UNCHANGED <<breaker, gauge, accepted, healthy, call>>

Activate ==
  /\ \E k \in (1 .. MaxCredentials) \ accepted : accepted' = accepted \cup {k}
  /\ UNCHANGED <<breaker, gauge, mgr, published, healthy, call>>

Revoke ==
  /\ \E k \in accepted :
       /\ accepted' = accepted \ {k}
       /\ call' = [c \in Calls |-> [call[c] EXCEPT !.stable = @ \ {k}]]
  /\ UNCHANGED <<breaker, gauge, mgr, published, healthy>>

GoDown ==
  /\ healthy
  /\ healthy' = FALSE
  /\ call' = [c \in Calls |-> [call[c] EXCEPT !.exposed = Sending(c)]]
  /\ UNCHANGED <<breaker, gauge, mgr, published, accepted>>

ComeBack ==
  /\ ~healthy
  /\ healthy' = TRUE
  /\ UNCHANGED <<breaker, gauge, mgr, published, accepted, call>>

\* Time matters to the breaker only until the last failure is OpenTimeout old.
Tick ==
  /\ Later(breaker) # breaker
  /\ breaker' = Later(breaker)
  /\ UNCHANGED <<gauge, mgr, published, accepted, healthy, call>>

Next ==
  \/ \E c \in Calls : Refuse(c) \/ Start(c) \/ Finish(c)
  \/ Adopt \/ Activate \/ Revoke \/ GoDown \/ ComeBack \/ Tick

Spec == Init /\ [][Next]_vars

\* Time passes, an attempt ends (HTTP_TIMEOUT_SECONDS sees to it), and payments
\* keep arriving: the breaker closes by serving a request, never by itself.
Fairness ==
  /\ WF_vars(Tick)
  /\ \A c \in Calls : WF_vars(Finish(c)) /\ WF_vars(Start(c))

FairSpec == Spec /\ Fairness
-----------------------------------------------------------------------------
(* Properties *)

CredentialSet == [key : Nat \ {0}, version : Nat \ {0}, id : Nat \ {0}, left : {NoTtl}]

CallSet ==
  [phase : Phases, outcome : Outcomes, primary : CredentialSet \cup {NoCredential},
   fallback : CredentialSet \cup {NoCredential}, exposed : BOOLEAN,
   stable : SUBSET (1 .. MaxCredentials)]

\* The type invariant.
TypeOK ==
  /\ breaker \in BreakerSet
  /\ gauge \in 0 .. 2
  /\ mgr \in [cache : Seq(CredentialSet), current : Nat, previous : Nat]
  /\ published \in 0 .. MaxCredentials
  /\ accepted \subseteq 1 .. MaxCredentials
  /\ healthy \in BOOLEAN
  /\ call \in [Calls -> CallSet]

\* In whatever order the answers of concurrent calls arrive, the breaker's
\* fields agree: it is closed exactly while fewer than FailureThreshold failures
\* happened since the last success, and one that is not closed knows when it
\* last saw a failure, so that its timeout runs.
BreakerConsistent ==
  /\ breaker.state = "CLOSED" <=> breaker.failures < FailureThreshold
  /\ breaker.state # "CLOSED" => breaker.since \in 0 .. OpenTimeout

\* The exported metric shows the stored state after every step of every call.
GaugeTracksBreaker == gauge = GaugeOf(breaker.state)

\* Fast fail: a call sends its first request only if fewer than FailureThreshold
\* failures were seen since the last success, or the last one is OpenTimeout old.
FailFast ==
  [][\A c \in Calls : ~Sending(c) /\ Sending(c)' =>
       breaker.failures < FailureThreshold \/ breaker.since >= OpenTimeout]_vars

\* The dual-credential window: a call in flight is told that all credentials
\* were rejected only if the gateway revoked or never accepted each of the two
\* it had read, at some moment of the call.
AuthErrorIsHonest ==
  [][\A c \in Calls : Sending(c) /\ call[c]'.outcome = "auth_error" => call[c].stable = {}]_vars

\* If the gateway is well and takes the current credential from some point on,
\* the breaker ends up closed: no order of late failures and probes wedges it.
BreakerRecovers ==
  <>[](healthy /\ Current(mgr).id \in accepted) => <>[](breaker.state = "CLOSED")
=============================================================================
