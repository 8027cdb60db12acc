------------------------ MODULE GatewayClient_proofs ------------------------
(***************************************************************************)
(* Proofs about GatewayClient for every threshold, timeout, cache bound    *)
(* and number of concurrent calls.                                         *)
(***************************************************************************)
EXTENDS GatewayClient, CredentialStore_proofs

\* The inductive invariant.  FailFast needs to know that a half-open breaker
\* is one whose timeout is over, and the gauge can be compared with the state
\* only if the state is one of the three.
BreakerInv ==
  /\ breaker \in BreakerSet
  /\ BreakerConsistent
  /\ breaker.state = "HALF_OPEN" => TimedOut(breaker)
  /\ GaugeTracksBreaker

\* What each method of the breaker preserves; UpdateMetric then restores the
\* gauge.
BreakerOk(b) ==
  /\ b \in BreakerSet
  /\ b.state = "CLOSED" <=> b.failures < FailureThreshold
  /\ b.state # "CLOSED" => b.since \in 0 .. OpenTimeout
  /\ b.state = "HALF_OPEN" => TimedOut(b)

\* Reading the state property keeps a breaker well-formed.
LEMMA SeenOk == ASSUME NEW b, BreakerOk(b) PROVE BreakerOk(Seen(b))
  BY FailureThresholdAssumption, OpenTimeoutAssumption
  DEF BreakerOk, BreakerSet, CircuitStates, Seen, TimedOut, Never

\* So does record_success.
LEMMA RecordSuccessOk == ASSUME NEW b, BreakerOk(b) PROVE BreakerOk(RecordSuccess(b))
  BY FailureThresholdAssumption, OpenTimeoutAssumption
  DEF BreakerOk, BreakerSet, CircuitStates, RecordSuccess, TimedOut, Never

\* So does record_failure, in each of the three states it may find.
LEMMA RecordFailureOk == ASSUME NEW b, BreakerOk(b) PROVE BreakerOk(RecordFailure(b))
  BY FailureThresholdAssumption, OpenTimeoutAssumption
  DEF BreakerOk, BreakerSet, CircuitStates, RecordFailure, OneMore, TimedOut, Never

\* So does the passing of time, which does not touch the state.
LEMMA LaterOk ==
  ASSUME NEW b, BreakerOk(b)
  PROVE  BreakerOk(Later(b)) /\ Later(b).state = b.state
  BY FailureThresholdAssumption, OpenTimeoutAssumption
  DEF BreakerOk, BreakerSet, CircuitStates, Later, TimedOut, Never

\* The invariant is about the breaker alone, but for the gauge.
LEMMA BreakerInvUnfolded == BreakerInv <=> BreakerOk(breaker) /\ GaugeTracksBreaker
  BY DEF BreakerInv, BreakerOk, BreakerConsistent

\* A new breaker is closed, with no failure and the gauge at 0.
LEMMA BreakerInvInit == Init => BreakerInv
  BY FailureThresholdAssumption, OpenTimeoutAssumption
  DEF Init, NewBreaker, BreakerInv, BreakerSet, CircuitStates, BreakerConsistent,
      GaugeTracksBreaker, GaugeOf, TimedOut, Never

\* Every action of a call and of the clock keeps the breaker well-formed.
LEMMA BreakerInvStep == BreakerInv /\ [Next]_vars => BreakerInv'
<1> SUFFICES ASSUME BreakerOk(breaker), GaugeTracksBreaker, [Next]_vars
             PROVE  BreakerOk(breaker') /\ GaugeTracksBreaker'
  BY BreakerInvUnfolded DEF BreakerInv, BreakerOk, BreakerConsistent, GaugeTracksBreaker
<1>1. ASSUME NEW c \in Calls, Refuse(c) \/ Start(c)
      PROVE  BreakerOk(breaker') /\ GaugeTracksBreaker'
  BY <1>1, SeenOk DEF Refuse, Start, UpdateMetric, GaugeTracksBreaker
<1>2. ASSUME NEW c \in Calls, Answered(c)
      PROVE  BreakerOk(breaker') /\ GaugeTracksBreaker'
  BY <1>2, RecordSuccessOk DEF Answered, UpdateMetric, GaugeTracksBreaker
<1>3. ASSUME NEW c \in Calls, TryFallback(c) \/ AllRejected(c)
      PROVE  BreakerOk(breaker') /\ GaugeTracksBreaker'
  BY <1>3 DEF TryFallback, AllRejected, GaugeTracksBreaker
<1>4. ASSUME NEW c \in Calls, Failed(c)
      PROVE  BreakerOk(breaker') /\ GaugeTracksBreaker'
  BY <1>4, RecordFailureOk DEF Failed, UpdateMetric, GaugeTracksBreaker
<1>5. CASE Adopt \/ Activate \/ Revoke \/ GoDown \/ ComeBack
  BY <1>5 DEF Adopt, Activate, Revoke, GoDown, ComeBack, GaugeTracksBreaker
<1>6. CASE Tick
  BY <1>6, LaterOk DEF Tick, GaugeTracksBreaker
<1>7. CASE UNCHANGED vars
  BY <1>7 DEF vars, GaugeTracksBreaker
<1>8. QED
  BY <1>1, <1>2, <1>3, <1>4, <1>5, <1>6, <1>7 DEF Next, Finish

LEMMA BreakerAlways == Spec => []BreakerInv
  BY BreakerInvInit, BreakerInvStep, PTL DEF Spec

\* The breaker's fields agree in every reachable state, whatever the order in
\* which concurrent calls answer: it is open only after enough failures, and
\* then its timeout runs.
THEOREM BreakerSafe == Spec => []BreakerConsistent
<1>1. BreakerInv => BreakerConsistent
  BY DEF BreakerInv
<1>2. QED
  BY <1>1, BreakerAlways, PTL

\* The exported gauge shows the breaker's state, whatever path a call takes out.
THEOREM GaugeIsTrue == Spec => []GaugeTracksBreaker
<1>1. BreakerInv => GaugeTracksBreaker
  BY DEF BreakerInv
<1>2. QED
  BY <1>1, BreakerAlways, PTL

-----------------------------------------------------------------------------
(* Type correctness *)

\* A call that is not under way has a well-typed record.
LEMMA IdleType == ASSUME NEW o \in Outcomes PROVE Idle(o) \in CallSet
<1>1. FALSE \in BOOLEAN /\ {} \in SUBSET (1 .. MaxCredentials)
  BY Zenon
<1>2. QED
  BY <1>1 DEF Idle, CallSet, Phases

\* Ending a call makes it idle and leaves the others alone.
LEMMA EndIsIdle ==
  ASSUME TypeOK, NEW c \in Calls, NEW o, End(c, o)
  PROVE  /\ call'[c] = Idle(o) /\ \A d \in Calls \ {c} : call'[d] = call[d]
         /\ \A d \in Calls : Sending(d)' => Sending(d) /\ call'[d] = call[d] /\ d # c
<1>1. call'[c] = Idle(o) /\ \A d \in Calls \ {c} : call'[d] = call[d]
  BY DEF End, TypeOK
<1>2. ~Sending(c)'
  BY <1>1 DEF Sending, Idle
<1>3. QED
  BY <1>1, <1>2 DEF Sending

\* So has every call after one of them ends.
LEMMA EndType ==
  ASSUME TypeOK, NEW c \in Calls, NEW o \in Outcomes, End(c, o)
  PROVE  call' \in [Calls -> CallSet]
  BY IdleType DEF End, TypeOK

\* The part of a call record that an action changes, one field at a time.
LEMMA CallFields ==
  ASSUME NEW r \in CallSet, NEW b \in BOOLEAN, NEW ks \in SUBSET (1 .. MaxCredentials)
  PROVE  /\ [r EXCEPT !.exposed = b] \in CallSet
         /\ [r EXCEPT !.stable = ks] \in CallSet
         /\ [r EXCEPT !.phase = "fallback"] \in CallSet
  BY DEF CallSet, Phases

\* The initial state is well typed.
LEMMA TypeInit == Init => TypeOK
<1> SUFFICES ASSUME Init PROVE TypeOK
  OBVIOUS
<1>1. breaker \in BreakerSet
  BY FailureThresholdAssumption, OpenTimeoutAssumption
  DEF Init, NewBreaker, BreakerSet, CircuitStates, Never
<1>2. << >> \in Seq(CredentialSet)
  OBVIOUS
<1>3. call \in [Calls -> CallSet]
  BY IdleType DEF Init, Outcomes
<1>4. QED
  BY <1>1, <1>2, <1>3, MaxCredentialsAssumption DEF Init, TypeOK, EmptyStore, None

\* Every action of the calls, the process and the gateway keeps the state well typed.
LEMMA TypeStep == TypeOK /\ BreakerInv /\ BreakerInv' /\ [Next]_vars => TypeOK'
<1> SUFFICES ASSUME TypeOK, BreakerInv, BreakerInv', [Next]_vars PROVE TypeOK'
  OBVIOUS
<1>1. breaker' \in BreakerSet /\ gauge' \in 0 .. 2
  BY DEF BreakerInv, GaugeTracksBreaker, GaugeOf, BreakerSet, CircuitStates
<1>2. mgr \in StoreOf(CredentialSet)
  BY DEF TypeOK, StoreOf
<1>3. ASSUME NEW c \in Calls, NEW o \in Outcomes, End(c, o),
             UNCHANGED <<mgr, published, accepted, healthy>>
      PROVE  TypeOK'
  BY <1>1, <1>3, EndType DEF TypeOK
<1>4. {"ok", "bad_response", "unavailable", "auth_error"} \subseteq Outcomes
  BY DEF Outcomes
<1>5. ASSUME NEW c \in Calls, Refuse(c) \/ Answered(c) \/ AllRejected(c) \/ Failed(c)
      PROVE  TypeOK'
  BY <1>3, <1>4, <1>5 DEF Refuse, Answered, AllRejected, Failed, envVars
<1>6. ASSUME NEW c \in Calls, Start(c) PROVE TypeOK'
  <2> DEFINE r == [phase |-> "primary", outcome |-> "none", primary |-> Current(mgr),
                   fallback |-> Fallback(mgr), exposed |-> ~healthy,
                   stable |-> {Current(mgr).id, Fallback(mgr).id} \cap accepted]
  <2>1. /\ Current(mgr) \in CredentialSet \cup {NoCredential}
        /\ Fallback(mgr) \in CredentialSet \cup {NoCredential}
    BY <1>2, ServedType
  <2>2. {Current(mgr).id, Fallback(mgr).id} \cap accepted \in SUBSET (1 .. MaxCredentials)
    BY DEF TypeOK
  <2>3. (~healthy) \in BOOLEAN
    BY Zenon
  <2>4. r \in CallSet
    BY <2>1, <2>2, <2>3 DEF CallSet, Phases, Outcomes
  <2>5. call' = [call EXCEPT ![c] = r]
    BY <1>6 DEF Start
  <2>6. call' \in [Calls -> CallSet]
    <3> HIDE DEF r
    <3>1. QED
      BY <2>4, <2>5 DEF TypeOK
  <2>7. QED
    BY <1>1, <1>6, <2>6 DEF TypeOK, Start, envVars
<1>7. ASSUME NEW c \in Calls, TryFallback(c) PROVE TypeOK'
  <2>1. call' = [call EXCEPT ![c] =
                   [[call[c] EXCEPT !.phase = "fallback"] EXCEPT !.exposed = ~healthy]]
    BY <1>7 DEF TryFallback, TypeOK
  <2>2. (~healthy) \in BOOLEAN /\ call[c] \in CallSet
    BY Zenon DEF TypeOK
  <2>3. [[call[c] EXCEPT !.phase = "fallback"] EXCEPT !.exposed = ~healthy] \in CallSet
    BY <2>2, CallFields
  <2>4. call' \in [Calls -> CallSet]
    BY <2>1, <2>3 DEF TypeOK
  <2>5. QED
    BY <1>1, <1>7, <2>4 DEF TypeOK, TryFallback
<1>8. CASE Adopt
  <2> DEFINE s == SecretVersion(published + 1)
  <2>1. published + 1 \in Nat \ {0} /\ published + 1 \in 0 .. MaxCredentials
    BY <1>8, MaxCredentialsAssumption DEF TypeOK, Adopt
  <2>2. CredentialOf(s) \in CredentialSet /\ s.version \in Nat
    BY <2>1 DEF SecretVersion, CredentialOf, CacheKey, CredentialSet, None
  <2>3. Adopted(mgr, s) \in StoreOf(CredentialSet)
    BY <1>2, <2>2, AdoptedType
  <2>4. QED
    BY <1>1, <1>8, <2>1, <2>3 DEF TypeOK, Adopt, StoreOf
<1>9. CASE Activate
  BY <1>1, <1>9 DEF TypeOK, Activate
<1>10. CASE Revoke
  <2>1. PICK k \in accepted : call' = [c \in Calls |-> [call[c] EXCEPT !.stable = @ \ {k}]]
    BY <1>10 DEF Revoke
  <2>2. ASSUME NEW c \in Calls PROVE [call[c] EXCEPT !.stable = @ \ {k}] \in CallSet
    BY DEF TypeOK, CallSet
  <2>3. call' \in [Calls -> CallSet]
    BY <2>1, <2>2
  <2>4. QED
    BY <1>1, <1>10, <2>3 DEF TypeOK, Revoke
<1>11. CASE GoDown
  <2>1. ASSUME NEW c \in Calls PROVE [call[c] EXCEPT !.exposed = Sending(c)] \in CallSet
    <3>1. Sending(c) \in BOOLEAN /\ call[c] \in CallSet
      BY Zenon DEF Sending, TypeOK
    <3>2. QED
      BY <3>1, CallFields
  <2>2. healthy' \in BOOLEAN
    BY <1>11, Zenon DEF GoDown
  <2>3. call' \in [Calls -> CallSet]
    BY <1>11, <2>1 DEF GoDown
  <2>4. QED
    BY <1>1, <1>11, <2>2, <2>3 DEF TypeOK, GoDown
<1>12. CASE ComeBack
  <2>1. healthy' \in BOOLEAN
    BY <1>12, Zenon DEF ComeBack
  <2>2. QED
    BY <1>1, <1>12, <2>1 DEF TypeOK, ComeBack
<1>13. CASE Tick \/ UNCHANGED vars
  BY <1>1, <1>13 DEF TypeOK, Tick, vars
<1>14. QED
  BY <1>5, <1>6, <1>7, <1>8, <1>9, <1>10, <1>11, <1>12, <1>13 DEF Next, Finish

\* Every variable keeps its type.
THEOREM TypeCorrect == Spec => []TypeOK
  BY TypeInit, TypeStep, BreakerInvInit, BreakerInvStep, PTL DEF Spec

-----------------------------------------------------------------------------
(* Fast fail *)

\* A call sends its first request only below the failure threshold or after the
\* timeout: the breaker does fail fast.
THEOREM FailsFast == Spec => FailFast
<1>1. TypeOK /\ BreakerInv /\ [Next]_vars =>
        [\A c \in Calls : ~Sending(c) /\ Sending(c)' =>
           breaker.failures < FailureThreshold \/ breaker.since >= OpenTimeout]_vars
  <2> SUFFICES ASSUME TypeOK, BreakerInv, Next,
                      NEW d \in Calls, ~Sending(d), Sending(d)'
               PROVE  AllowsRequest(breaker)
    BY DEF BreakerInv, BreakerConsistent, AllowsRequest, Seen, TimedOut, BreakerSet, CircuitStates
  <2>1. ASSUME NEW c \in Calls, Start(c) PROVE AllowsRequest(breaker)
    BY <2>1 DEF Start
  <2>2. ASSUME NEW c \in Calls, NEW o, End(c, o) PROVE FALSE
    BY <2>2, EndIsIdle
  <2>3. ASSUME NEW c \in Calls, Refuse(c) \/ Answered(c) \/ AllRejected(c) \/ Failed(c)
        PROVE  FALSE
    BY <2>2, <2>3 DEF Refuse, Answered, AllRejected, Failed
  <2>4. ASSUME NEW c \in Calls, TryFallback(c) PROVE FALSE
    BY <2>4 DEF TryFallback, Rejected, Sending, TypeOK
  <2>5. CASE Revoke \/ GoDown
    BY <2>5 DEF Revoke, GoDown, Sending, TypeOK, CallSet
  <2>6. CASE Adopt \/ Activate \/ ComeBack \/ Tick
    BY <2>6 DEF Adopt, Activate, ComeBack, Tick, Sending
  <2>7. QED
    BY <2>1, <2>3, <2>4, <2>5, <2>6 DEF Next, Finish
<1>2. QED
  BY <1>1, TypeCorrect, BreakerInvInit, BreakerInvStep, PTL DEF Spec, FailFast
-----------------------------------------------------------------------------
(* The dual-credential window *)

\* What the ghost stable says of a call in flight: it holds only credentials
\* the call has read and the gateway accepts, and no longer the current one
\* once that one was rejected.
StableInv ==
  \A c \in Calls : Sending(c) =>
    /\ call[c].stable \subseteq accepted
    /\ call[c].stable \subseteq {call[c].primary.id, call[c].fallback.id}
    /\ call[c].phase = "fallback" => call[c].primary.id \notin call[c].stable
    /\ call[c].outcome = "none"

\* No call is in flight at the start.
LEMMA StableInit == Init => StableInv
  BY DEF Init, StableInv, Sending, Idle

\* Reading, rejecting, adopting, activating and revoking keep the ghost right.
LEMMA StableStep == TypeOK /\ StableInv /\ [Next]_vars => StableInv'
<1> SUFFICES ASSUME TypeOK, StableInv, [Next]_vars PROVE StableInv'
  OBVIOUS
<1>1. ASSUME NEW c \in Calls, NEW o, End(c, o), accepted' = accepted PROVE StableInv'
  BY <1>1, EndIsIdle DEF StableInv
<1>2. ASSUME NEW c \in Calls, Refuse(c) \/ Answered(c) \/ AllRejected(c) \/ Failed(c)
      PROVE  StableInv'
  BY <1>1, <1>2 DEF Refuse, Answered, AllRejected, Failed, envVars
<1>3. ASSUME NEW c \in Calls, Start(c) PROVE StableInv'
  <2>1. \A d \in Calls \ {c} : call'[d] = call[d]
    BY <1>3 DEF Start, TypeOK
  <2>2. /\ call'[c].phase = "primary"
        /\ call'[c].stable = {call'[c].primary.id, call'[c].fallback.id} \cap accepted
        /\ call'[c].outcome = "none"
    BY <1>3 DEF Start, TypeOK
  <2>3. accepted' = accepted
    BY <1>3 DEF Start, envVars
  <2>4. QED
    BY <2>1, <2>2, <2>3 DEF StableInv, Sending
<1>4. ASSUME NEW c \in Calls, TryFallback(c) PROVE StableInv'
  <2>1. \A d \in Calls \ {c} : call'[d] = call[d]
    BY <1>4 DEF TryFallback, TypeOK
  <2>2. /\ call'[c].stable = call[c].stable
        /\ call'[c].primary = call[c].primary /\ call'[c].fallback = call[c].fallback
        /\ call'[c].outcome = call[c].outcome
    BY <1>4 DEF TryFallback, TypeOK, CallSet
  <2>3. call[c].primary.id \notin accepted /\ Sending(c)
    BY <1>4 DEF TryFallback, Rejected, HasFallback, InUse
  <2>4. accepted' = accepted
    BY <1>4 DEF TryFallback
  <2>5. QED
    BY <2>1, <2>2, <2>3, <2>4 DEF StableInv, Sending
<1>5. CASE Adopt \/ ComeBack \/ Tick \/ UNCHANGED vars
  BY <1>5 DEF Adopt, ComeBack, Tick, vars, StableInv, Sending
<1>6. CASE Activate
  BY <1>6 DEF Activate, StableInv, Sending
<1>7. CASE Revoke
  <2>1. PICK k \in accepted :
          /\ accepted' = accepted \ {k}
          /\ call' = [c \in Calls |-> [call[c] EXCEPT !.stable = @ \ {k}]]
    BY <1>7 DEF Revoke
  <2>2. \A c \in Calls : /\ call'[c].stable = call[c].stable \ {k}
                         /\ call'[c].phase = call[c].phase
                         /\ call'[c].primary = call[c].primary
                         /\ call'[c].fallback = call[c].fallback
                         /\ call'[c].outcome = call[c].outcome
    BY <2>1 DEF TypeOK, CallSet
  <2>3. QED
    BY <2>1, <2>2 DEF StableInv, Sending
<1>8. CASE GoDown
  <2>1. \A c \in Calls : /\ call'[c].stable = call[c].stable
                         /\ call'[c].phase = call[c].phase
                         /\ call'[c].primary = call[c].primary
                         /\ call'[c].fallback = call[c].fallback
                         /\ call'[c].outcome = call[c].outcome
    BY <1>8 DEF GoDown, TypeOK, CallSet
  <2>2. accepted' = accepted
    BY <1>8 DEF GoDown
  <2>3. QED
    BY <2>1, <2>2 DEF StableInv, Sending
<1>9. QED
  BY <1>2, <1>3, <1>4, <1>5, <1>6, <1>7, <1>8 DEF Next, Finish

\* A call in flight reports that all credentials were rejected only if each of
\* the two it had read was unaccepted at some moment of the call.
THEOREM HonestAuthError == Spec => AuthErrorIsHonest
<1>1. TypeOK /\ StableInv /\ [Next]_vars =>
        [\A c \in Calls : Sending(c) /\ call[c]'.outcome = "auth_error" => call[c].stable = {}]_vars
  <2> SUFFICES ASSUME TypeOK, StableInv, Next,
                      NEW d \in Calls, Sending(d), call'[d].outcome = "auth_error"
               PROVE  call[d].stable = {}
    OBVIOUS
  <2>1. call[d].outcome = "none" /\ call[d] \in CallSet
    BY DEF StableInv, TypeOK
  <2>2. ASSUME NEW c \in Calls, c # d \/ ~Sending(c),
               \A e \in Calls \ {c} : call'[e] = call[e]
        PROVE  FALSE
    BY <2>1, <2>2
  <2>3. ASSUME NEW c \in Calls, Refuse(c) \/ Start(c) PROVE FALSE
    <3>1. ~Sending(c) /\ \A e \in Calls \ {c} : call'[e] = call[e]
      BY <2>3 DEF Refuse, Start, End, TypeOK
    <3>2. QED
      BY <2>2, <3>1
  <2>4. ASSUME NEW c \in Calls, Answered(c) \/ Failed(c) PROVE FALSE
    <3>1. /\ \A e \in Calls \ {c} : call'[e] = call[e]
          /\ call'[c].outcome # "auth_error"
      BY <2>4 DEF Answered, Failed, End, Idle, TypeOK
    <3>2. QED
      BY <2>1, <3>1
  <2>5. ASSUME NEW c \in Calls, TryFallback(c) PROVE FALSE
    <3>1. \A e \in Calls : call'[e].outcome = call[e].outcome
      BY <2>5 DEF TryFallback, TypeOK, CallSet
    <3>2. QED
      BY <2>1, <3>1
  <2>6. ASSUME NEW c \in Calls, AllRejected(c) PROVE call[d].stable = {}
    <3>1. c = d
      <4>1. \A e \in Calls \ {c} : call'[e] = call[e]
        BY <2>6 DEF AllRejected, End, TypeOK
      <4>2. QED
        BY <2>1, <4>1
    <3>2. InUse(d).id \notin accepted /\ ~HasFallback(d)
      BY <2>6, <3>1 DEF AllRejected, Rejected
    <3>3. /\ call[d].stable \subseteq accepted
          /\ call[d].stable \subseteq {call[d].primary.id, call[d].fallback.id}
          /\ call[d].phase = "fallback" => call[d].primary.id \notin call[d].stable
      BY DEF StableInv
    <3>4. CASE call[d].phase = "primary"
      <4>1. call[d].primary.id \notin accepted
        BY <3>2, <3>4 DEF InUse
      <4>2. call[d].fallback = NoCredential \/ call[d].fallback = call[d].primary
        BY <3>2, <3>4 DEF HasFallback
      <4>3. NoCredential.id \notin accepted
        BY DEF NoCredential, TypeOK
      <4>4. QED
        BY <3>3, <4>1, <4>2, <4>3
    <3>5. CASE call[d].phase = "fallback"
      BY <3>2, <3>3, <3>5 DEF InUse
    <3>6. QED
      BY <2>1, <3>4, <3>5 DEF Sending, CallSet, Phases
  <2>7. CASE Revoke \/ GoDown
    <3>1. \A e \in Calls : call'[e].outcome = call[e].outcome
      BY <2>7 DEF Revoke, GoDown, TypeOK, CallSet
    <3>2. QED
      BY <2>1, <3>1
  <2>8. CASE Adopt \/ Activate \/ ComeBack \/ Tick
    BY <2>1, <2>8 DEF Adopt, Activate, ComeBack, Tick
  <2>9. QED
    BY <2>3, <2>4, <2>5, <2>6, <2>7, <2>8 DEF Next, Finish
<1>2. QED
  BY <1>1, TypeCorrect, StableInit, StableStep, PTL DEF Spec, AuthErrorIsHonest
=============================================================================
