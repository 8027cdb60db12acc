------------------------- MODULE VaultClient_proofs -------------------------
(***************************************************************************)
(* The reads of VaultClient, for any number of attempts: their types, the  *)
(* one audit record each of them leaves and what a failed connection says. *)
(* Every step is proved without Init, so that Replica can use it.          *)
(***************************************************************************)
EXTENDS VaultClient, TLAPS

USE MaxRetriesAssumption

-----------------------------------------------------------------------------
(* The inductive invariant *)

\* Until a read has ended it has left no record and no result, and sleeps only
\* when an attempt is left.
UnderWay ==
  /\ phase # "ended" => audits = NoAudits /\ result = "none"
  /\ phase = "ended" => result # "none"
  /\ phase \in {"trying", "sleeping"} => attempt >= 1
  /\ phase = "sleeping" => attempt < MaxRetries

ReadInv == TypeOK /\ UnderWay /\ OneAuditPerRead /\ GivesUpLast

(* Nothing of a read changes in a step of its environment. *)
LEMMA Elsewhere ==
  ASSUME ReadInv, UNCHANGED <<phase, attempt, result, audits>>, TypeOK'
  PROVE  ReadInv'
  BY DEF ReadInv, UnderWay, OneAuditPerRead, GivesUpLast, Ended

LEMMA BeginInv ==
  ASSUME ReadInv, Begin
  PROVE  ReadInv'
<1>1. TypeOK'
  BY DEF Begin, ReadInv, TypeOK
<1>2. QED
  BY <1>1 DEF Begin, ReadInv, UnderWay, OneAuditPerRead, GivesUpLast, Ended

(* A way out of the retry loop leaves the one record of its outcome. *)
LEMMA EndInv ==
  ASSUME ReadInv, phase = "trying", NEW r \in Results \ {"none"}, End(r),
         NEW outcome \in Outcomes, Audited(outcome),
         outcome = "success" <=> r = "secret",
         r = "connection" => attempt = MaxRetries
  PROVE  ReadInv'
<1>1. audits = [o \in Outcomes |-> 0]
  BY DEF ReadInv, UnderWay, NoAudits
<1>2. audits' = [o \in Outcomes |-> IF o = outcome THEN 1 ELSE 0]
  BY <1>1 DEF Audited
<1>3. audits' \in [Outcomes -> 0 .. 1]
  BY <1>2
<1>4. TypeOK'
  BY <1>3 DEF End, ReadInv, TypeOK
<1>5. QED
  BY <1>2, <1>4 DEF End, ReadInv, UnderWay, OneAuditPerRead, GivesUpLast, Ended, Outcomes

LEMMA ReturnInv ==
  ASSUME ReadInv, Return
  PROVE  ReadInv'
<1>1. TypeOK'
  BY DEF Return, ReadInv, TypeOK, NoAudits, Results
<1>2. QED
  BY <1>1 DEF Return, ReadInv, UnderWay, OneAuditPerRead, GivesUpLast, Ended

LEMMA ReadStepInv ==
  ASSUME ReadInv, Read
  PROVE  ReadInv'
<1>1. CASE Login
  <2>1. TypeOK'
    BY <1>1 DEF Login, ReadInv, TypeOK
  <2>2. QED
    BY <1>1, <2>1, Elsewhere DEF Login
<1>2. CASE Succeed
  BY <1>2, EndInv DEF Succeed, Results, Outcomes
<1>3. CASE Refused
  BY <1>3, EndInv DEF Refused, Results, Outcomes
<1>4. CASE GiveUp
  <2>1. attempt = MaxRetries
    BY <1>4 DEF GiveUp, LastAttempt, ReadInv, TypeOK
  <2>2. QED
    BY <1>4, <2>1, EndInv DEF GiveUp, Results, Outcomes
<1>5. CASE Retry
  <2>1. attempt < MaxRetries
    BY <1>5 DEF Retry, LastAttempt, ReadInv, TypeOK
  <2>2. TypeOK'
    BY <1>5 DEF Retry, ReadInv, TypeOK
  <2>3. QED
    BY <1>5, <2>1, <2>2 DEF Retry, ReadInv, UnderWay, OneAuditPerRead, GivesUpLast, Ended
<1>6. CASE Wake
  <2>1. attempt + 1 \in 1 .. MaxRetries
    BY <1>6 DEF Wake, ReadInv, UnderWay, TypeOK
  <2>2. TypeOK'
    BY <1>6, <2>1 DEF Wake, ReadInv, TypeOK
  <2>3. QED
    BY <1>6, <2>1, <2>2 DEF Wake, ReadInv, UnderWay, OneAuditPerRead, GivesUpLast, Ended
<1>7. QED
  BY <1>1, <1>2, <1>3, <1>4, <1>5, <1>6 DEF Read

LEMMA ProbeInv ==
  ASSUME ReadInv, Probe
  PROVE  ReadInv'
<1>1. client' \in {"none", "valid", "stale"}
  BY DEF Probe, Connected, ReadInv, TypeOK
<1>2. TypeOK'
  BY <1>1 DEF Probe, ReadInv, TypeOK
<1>3. QED
  BY <1>2, Elsewhere DEF Probe

LEMMA EnvironmentInv ==
  ASSUME ReadInv, TokenLost \/ ServerChanges \/ LoginChanges \/ UNCHANGED vars
  PROVE  ReadInv'
<1>1. TypeOK'
  BY DEF TokenLost, ServerChanges, LoginChanges, LoginsOf, Logins, vars, ReadInv, TypeOK
<1>2. QED
  BY <1>1, Elsewhere DEF TokenLost, ServerChanges, LoginChanges, vars

LEMMA InitInv == Init => ReadInv
<1> SUFFICES ASSUME Init PROVE ReadInv
  OBVIOUS
<1>1. TypeOK
  BY DEF Init, TypeOK, NoAudits, Results, LoginsOf, Logins
<1>2. QED
  BY <1>1 DEF Init, ReadInv, UnderWay, OneAuditPerRead, GivesUpLast, Ended

LEMMA StepInv == ReadInv /\ [Next]_vars => ReadInv'
  BY BeginInv, ReadStepInv, ReturnInv, ProbeInv, EnvironmentInv DEF Next

-----------------------------------------------------------------------------
(* What follows for the client on its own *)

(* Every variable keeps its type; the attempts of a read stay within
   MAX_RETRIES and no outcome is recorded twice. *)
THEOREM TypeCorrect == Spec => []TypeOK
<1>1. ReadInv => TypeOK
  BY DEF ReadInv
<1>2. QED
  BY <1>1, InitInv, StepInv, PTL DEF Spec

(* Each read leaves one audit record with the outcome its caller sees, and
   reports a failed connection only after all its attempts. *)
THEOREM ReadsAreHonest == Spec => [](OneAuditPerRead /\ GivesUpLast)
<1>1. ReadInv => OneAuditPerRead /\ GivesUpLast
  BY DEF ReadInv
<1>2. QED
  BY <1>1, InitInv, StepInv, PTL DEF Spec
=============================================================================
