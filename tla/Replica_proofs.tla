--------------------------- MODULE Replica_proofs ---------------------------
(***************************************************************************)
(* The replica under its probes, for any timeouts, periods and thresholds: *)
(* its types, what its loads leave in the audit log, how long it serves    *)
(* with an expired credential and, where the pauses of a read fit between  *)
(* the liveness probes, that only a hung request to Vault gets it killed.  *)
(***************************************************************************)
EXTENDS Replica, VaultClient_proofs

USE MaxRetriesAssumption, ReplicaAssumption

-----------------------------------------------------------------------------
(* The client inside the replica *)

LEMMA KillReads ==
  ASSUME ReadInv, Kill
  PROVE  ReadInv'
<1>1. TypeOK'
  BY DEF Kill, ReadInv, TypeOK, NoAudits, Results, LoginsOf, Logins
<1>2. QED
  BY <1>1 DEF Kill, ReadInv, UnderWay, OneAuditPerRead, GivesUpLast, Ended

(* Every step of the replica is one of its client, leaves the client alone or
   starts it anew. *)
LEMMA ReadsInside == ReadInv /\ [RNext]_rvars => ReadInv'
<1> SUFFICES ASSUME ReadInv, [RNext]_rvars PROVE ReadInv'
  OBVIOUS
<1>1. CASE BeginLoad
  BY <1>1, BeginInv DEF BeginLoad
<1>2. CASE LoadStep
  BY <1>2, ReadStepInv DEF LoadStep
<1>3. CASE LoadReturns
  BY <1>3, ReturnInv DEF LoadReturns
<1>4. CASE ReadStatus
  BY <1>4, ProbeInv DEF ReadStatus
<1>5. CASE \/ BeginReady \/ EndReady \/ AnswerLive \/ Tick \/ GatewayChanges \/ SecretWritten
           \/ Expires \/ UNCHANGED rvars
  BY <1>5, EnvironmentInv
     DEF BeginReady, EndReady, AnswerLive, Tick, GatewayChanges, SecretWritten, Expires, rvars
<1>6. CASE VaultChanges \/ AccessChanges
  BY <1>6, EnvironmentInv DEF VaultChanges, AccessChanges
<1>7. QED
  BY <1>1, <1>2, <1>3, <1>4, <1>5, <1>6, KillReads DEF RNext, Process, Environment

\* The note of load_credentials belongs to the load that has just ended.
Notes ==
  /\ phase # "ended" => noted = FALSE
  /\ phase = "ended" /\ result # "secret" => noted = TRUE

LEMMA NotesStep == Notes /\ [RNext]_rvars => Notes'
<1> SUFFICES ASSUME Notes, [RNext]_rvars PROVE Notes'
  OBVIOUS
<1>1. CASE BeginLoad
  BY <1>1 DEF BeginLoad, Begin, Notes, manager
<1>2. CASE LoadStep
  <2>1. CASE phase' = "ended"
    <3>1. noted' = TRUE \/ (noted' = FALSE /\ result' = "secret")
      BY <1>2, <2>1, Zenon DEF LoadStep, Loaded
    <3>2. QED
      BY <2>1, <3>1 DEF Notes
  <2>2. CASE phase' # "ended"
    <3>1. noted' = noted /\ phase # "ended"
      BY <1>2, <2>2 DEF LoadStep, Read, Login, Succeed, Refused, Retry, Wake, GiveUp, manager
    <3>2. QED
      BY <2>2, <3>1 DEF Notes
  <2>3. QED
    BY <2>1, <2>2
<1>3. CASE LoadReturns
  BY <1>3 DEF LoadReturns, Return, Notes
<1>4. CASE Kill
  BY <1>4 DEF Kill, Notes
<1>5. CASE \/ BeginReady \/ ReadStatus \/ EndReady \/ AnswerLive \/ Tick \/ Environment
           \/ UNCHANGED rvars
  BY <1>5 DEF BeginReady, ReadStatus, Probe, EndReady, AnswerLive, Tick, Environment, VaultChanges,
     ServerChanges, AccessChanges, TokenLost, LoginChanges, GatewayChanges, SecretWritten, Expires,
     rvars, vars, own, manager, Notes
<1>6. QED
  BY <1>1, <1>2, <1>3, <1>4, <1>5 DEF RNext, Process

-----------------------------------------------------------------------------
(* Types *)

Switches ==
  /\ hangs \in BOOLEAN /\ slow \in BOOLEAN /\ hung \in BOOLEAN /\ noted \in BOOLEAN
  /\ readyCalls \in BOOLEAN /\ readyDue \in BOOLEAN /\ liveDue \in BOOLEAN
  /\ inService \in BOOLEAN

Counters ==
  /\ up \in {"starting", "running"} /\ loop \in {"free", "probing"}
  /\ waited \in 0 .. HvacTimeout /\ rest \in 0 .. PollInterval
  /\ beat \in 1 .. LivePeriod
  /\ readyFails \in 0 .. ReadyThreshold /\ liveFails \in 0 .. LiveThreshold
  /\ stale \in 0 .. TooStale

Holdings ==
  /\ secret \in Written \cup {"loaded"} /\ cred \in {"none", "valid", "expired"}
  /\ answer \in {"none", "ready", "unready"}

OnlyDownHangs == hangs => server = "down"

\* What keeps a replica with an expired credential from serving on: a failed probe
\* for each tick but the one under way.  Answers, and what they say of the
\* credential, are about this tick.
Serving ==
  /\ inService => up = "running" /\ cred # "none" /\ readyFails < ReadyThreshold
  /\ cred # "expired" => stale = 0
  /\ inService /\ stale > 0 => stale <= readyFails + (IF readyDue THEN 1 ELSE 0)
  /\ loop = "probing" => up = "running" /\ phase = "idle"
  /\ answer # "none" => up = "running" /\ readyDue
  /\ answer = "ready" => cred # "none" /\ stale = 0

LEMMA TypeParts ==
  RTypeOK <=> TypeOK /\ Switches /\ Counters /\ Holdings /\ OnlyDownHangs
  BY Zenon DEF RTypeOK, Switches, Counters, Holdings, OnlyDownHangs

LEMMA SwitchesStep == Switches /\ [RNext]_rvars => Switches'
<1> SUFFICES ASSUME Switches, [RNext]_rvars PROVE Switches'
  OBVIOUS
<1>1. CASE BeginLoad
  BY <1>1, Zenon DEF BeginLoad, Switches, kube, manager
<1>2. CASE LoadStep
  <2>1. noted' \in BOOLEAN
    BY <1>2, Zenon DEF LoadStep, Loaded, Switches, manager
  <2>2. QED
    BY <1>2, <2>1, Zenon DEF LoadStep, Switches, kube
<1>3. CASE LoadReturns
  BY <1>3, Zenon DEF LoadReturns, Switches, kube
<1>4. CASE BeginReady \/ ReadStatus
  BY <1>4, Zenon DEF BeginReady, ReadStatus, Switches, manager
<1>5. CASE EndReady
  <2>1. readyDue' \in BOOLEAN /\ inService' \in BOOLEAN
    BY <1>5, Zenon DEF EndReady, KubeletHears, Switches
  <2>2. QED
    BY <1>5, <2>1, Zenon DEF EndReady, Switches, own, manager
<1>6. CASE AnswerLive
  BY <1>6, Zenon DEF AnswerLive, Switches, manager
<1>7. CASE Tick
  <2>1. inService' \in BOOLEAN
    BY <1>7, Zenon DEF Tick, KubeletHears, Switches
  <2>2. QED
    BY <1>7, <2>1, Zenon DEF Tick, Switches
<1>8. CASE Kill
  BY <1>8, Zenon DEF Kill, Switches
<1>9. CASE VaultChanges
  <2>1. hangs' \in BOOLEAN
    BY <1>9, Zenon DEF VaultChanges
  <2>2. QED
    BY <1>9, <2>1, Zenon DEF VaultChanges, Switches, kube, manager
<1>10. CASE AccessChanges \/ UNCHANGED rvars
  BY <1>10, Zenon DEF AccessChanges, rvars, Switches, kube, own, manager
<1>11. CASE GatewayChanges \/ SecretWritten \/ Expires
  BY <1>11, Zenon DEF GatewayChanges, SecretWritten, Expires, Switches, kube, manager
<1>12. QED
  BY <1>1, <1>2, <1>3, <1>4, <1>5, <1>6, <1>7, <1>8, <1>9, <1>10, <1>11 DEF RNext, Process, Environment

LEMMA HearsType ==
  ASSUME Counters, NEW ok, KubeletHears(ok)
  PROVE  readyFails' \in 0 .. ReadyThreshold
<1>1. readyFails' \in {0, readyFails} \/ (readyFails < ReadyThreshold /\ readyFails' = readyFails + 1)
  BY DEF KubeletHears
<1>2. QED
  BY <1>1 DEF Counters

LEMMA CountersStep == Counters /\ Serving /\ [RNext]_rvars => Counters'
<1> SUFFICES ASSUME Counters, Serving, [RNext]_rvars PROVE Counters'
  OBVIOUS
<1>1. CASE BeginLoad
  BY <1>1 DEF BeginLoad, Counters, kube, manager
<1>2. CASE LoadStep
  <2>1. up' \in {"starting", "running"} /\ rest' \in 0 .. PollInterval /\ stale' \in 0 .. TooStale
    BY <1>2 DEF LoadStep, Loaded, Counters, manager, TooStale
  <2>2. QED
    BY <1>2, <2>1 DEF LoadStep, Counters, kube
<1>3. CASE LoadReturns
  BY <1>3 DEF LoadReturns, Counters, kube
<1>4. CASE BeginReady \/ ReadStatus
  BY <1>4 DEF BeginReady, ReadStatus, Counters, manager
<1>5. CASE EndReady
  <2>1. readyFails' \in 0 .. ReadyThreshold
    BY <1>5, HearsType DEF EndReady, Counters
  <2>2. QED
    BY <1>5, <2>1 DEF EndReady, Counters, own, manager
<1>6. CASE AnswerLive
  BY <1>6 DEF AnswerLive, Counters, manager
<1>7. CASE Tick
  <2>1. readyFails' \in 0 .. ReadyThreshold
    BY <1>7, HearsType DEF Tick, Counters
  <2>2. waited' \in 0 .. HvacTimeout
    BY <1>7 DEF Tick, Counters, Blocked, Pausing
  <2>3. liveFails' \in 0 .. LiveThreshold
    BY <1>7 DEF Tick, Counters
  <2>4. beat' \in 1 .. LivePeriod /\ rest' \in 0 .. PollInterval
    BY <1>7 DEF Tick, Counters
  <2>5. up' = up /\ loop' = loop
    BY <1>7 DEF Tick
  <2>6. stale' \in 0 .. TooStale
    <3>1. CASE inService' /\ cred = "expired"
      <4>1. inService
        BY <1>7, <3>1 DEF Tick, KubeletHears
      <4>2. stale < TooStale
        BY <4>1 DEF Serving, Counters, TooStale
      <4>3. QED
        BY <1>7, <3>1, <4>2 DEF Tick, Counters, TooStale
    <3>2. CASE ~inService' \/ cred # "expired"
      <4>1. stale' = 0 \/ stale' = TooStale
        BY <1>7, <3>2 DEF Tick
      <4>2. QED
        BY <4>1 DEF TooStale
    <3>3. QED
      BY <3>1, <3>2
  <2>7. QED
    BY <2>1, <2>2, <2>3, <2>4, <2>5, <2>6 DEF Counters
<1>8. CASE Kill
  BY <1>8 DEF Kill, Counters, TooStale
<1>9. CASE Environment \/ UNCHANGED rvars
  BY <1>9 DEF Environment, VaultChanges, AccessChanges, GatewayChanges, SecretWritten, Expires,
     rvars, Counters, kube, own, manager
<1>10. QED
  BY <1>1, <1>2, <1>3, <1>4, <1>5, <1>6, <1>7, <1>8, <1>9 DEF RNext, Process

LEMMA HoldingsStep == Holdings /\ [RNext]_rvars => Holdings'
<1> SUFFICES ASSUME Holdings, [RNext]_rvars PROVE Holdings'
  OBVIOUS
<1>1. CASE BeginLoad \/ BeginReady
  BY <1>1 DEF BeginLoad, BeginReady, Holdings, kube, manager
<1>2. CASE LoadStep
  BY <1>2 DEF LoadStep, Loaded, Adopts, Holdings, kube, manager
<1>3. CASE LoadReturns
  BY <1>3 DEF LoadReturns, Holdings, kube
<1>4. CASE ReadStatus
  <2>1. answer' \in {"none", "ready", "unready"}
    BY <1>4 DEF ReadStatus, Holdings
  <2>2. QED
    BY <1>4, <2>1 DEF ReadStatus, Holdings, manager
<1>5. CASE EndReady \/ AnswerLive \/ Tick \/ Kill
  BY <1>5 DEF EndReady, AnswerLive, Tick, Kill, Holdings, own, manager, Written
<1>6. CASE Environment \/ UNCHANGED rvars
  BY <1>6 DEF Environment, VaultChanges, AccessChanges, GatewayChanges, SecretWritten, Expires,
     rvars, Holdings, kube, own, manager
<1>7. QED
  BY <1>1, <1>2, <1>3, <1>4, <1>5, <1>6 DEF RNext, Process

LEMMA HangsStep == OnlyDownHangs /\ [RNext]_rvars => OnlyDownHangs'
<1> SUFFICES ASSUME OnlyDownHangs, [RNext]_rvars PROVE OnlyDownHangs'
  OBVIOUS
<1>1. CASE VaultChanges
  BY <1>1 DEF VaultChanges, OnlyDownHangs
<1>2. CASE BeginLoad \/ LoadStep \/ LoadReturns \/ BeginReady \/ ReadStatus
  BY <1>2 DEF BeginLoad, Begin, LoadStep, Read, Login, Succeed, Refused, Retry, Wake, GiveUp, End,
     LoadReturns, Return, BeginReady, ReadStatus, Probe, vars, OnlyDownHangs
<1>3. CASE \/ EndReady \/ AnswerLive \/ Tick \/ Kill \/ AccessChanges \/ GatewayChanges
           \/ SecretWritten \/ Expires \/ UNCHANGED rvars
  BY <1>3 DEF EndReady, AnswerLive, Tick, Kill, AccessChanges, TokenLost, LoginChanges,
     GatewayChanges, SecretWritten, Expires, rvars, vars, own, OnlyDownHangs
<1>4. QED
  BY <1>1, <1>2, <1>3 DEF RNext, Process, Environment

-----------------------------------------------------------------------------
(* Service *)

(* One more failure: the replica does not come into the service by it. *)
LEMMA Fails ==
  ASSUME Counters, KubeletHears(FALSE)
  PROVE  inService' => inService /\ readyFails' = readyFails + 1 /\ readyFails' < ReadyThreshold
  BY DEF KubeletHears, Counters

LEMMA LoadServing ==
  ASSUME Serving, LoadStep
  PROVE  Serving'
<1>1. /\ loop' = loop /\ phase # "idle"
      /\ UNCHANGED <<inService, readyFails, readyDue, answer>>
  BY DEF LoadStep, kube, Read, Login, Succeed, Refused, Retry, Wake, GiveUp
<1>2. up' = up \/ up' = "running"
  BY DEF LoadStep, Loaded
<1>3. (cred' = cred /\ stale' = stale) \/ (cred' = "valid" /\ stale' = 0)
  BY DEF LoadStep, Loaded, manager
<1>4. QED
  BY <1>1, <1>2, <1>3 DEF Serving

LEMMA EndReadyServing ==
  ASSUME Counters, Serving, EndReady
  PROVE  Serving'
<1>1. /\ answer' = "none" /\ loop = "free"
      /\ UNCHANGED <<phase, loop, up, cred, stale>> /\ readyDue' = FALSE
  BY DEF EndReady, Free, own, manager, vars
<1>2. up = "running" /\ readyDue
  BY DEF EndReady, Serving
<1>3. CASE answer = "ready"
  <2>1. cred # "none" /\ stale = 0
    BY <1>3 DEF Serving
  <2>2. readyFails' < ReadyThreshold
    BY <1>3 DEF EndReady, KubeletHears
  <2>3. QED
    BY <1>1, <1>2, <2>1, <2>2 DEF Serving
<1>4. CASE answer # "ready"
  <2>1. KubeletHears(FALSE)
    BY <1>4 DEF EndReady
  <2>2. inService' => inService /\ readyFails' = readyFails + 1 /\ readyFails' < ReadyThreshold
    BY <2>1, Fails
  <2>3. stale \in Nat /\ readyFails \in Nat
    BY DEF Counters
  <2>4. QED
    BY <1>1, <1>2, <2>2, <2>3 DEF Serving
<1>5. QED
  BY <1>3, <1>4

LEMMA TickServing ==
  ASSUME Counters, Serving, Tick
  PROVE  Serving'
<1>1. answer' = "none" /\ UNCHANGED <<phase, loop, up, cred>>
  BY DEF Tick, vars
<1>2. stale' = IF cred # "expired" THEN 0 ELSE IF inService' THEN stale + 1 ELSE TooStale
  BY DEF Tick
<1>3. up = "running" => readyDue'
  BY Zenon DEF Tick
<1>4. stale \in Nat /\ readyFails \in Nat
  BY DEF Counters
<1>5. inService' =>
         /\ inService /\ readyFails' < ReadyThreshold
         /\ readyFails' = readyFails + (IF readyDue THEN 1 ELSE 0)
  <2>1. CASE readyDue \/ up = "starting"
    <3>1. KubeletHears(FALSE)
      BY <2>1 DEF Tick
    <3>2. inService' => inService /\ readyFails' = readyFails + 1 /\ readyFails' < ReadyThreshold
      BY <3>1, Fails
    <3>3. inService => readyDue
      BY <2>1 DEF Serving
    <3>4. QED
      BY <3>2, <3>3
  <2>2. CASE ~(readyDue \/ up = "starting")
    <3>1. inService' = inService /\ readyFails' = readyFails
      BY <2>2, Zenon DEF Tick
    <3>2. inService => readyFails < ReadyThreshold
      BY DEF Serving
    <3>3. QED
      BY <1>4, <2>2, <3>1, <3>2
  <2>3. QED
    BY <2>1, <2>2
<1>6. inService' => readyDue'
  BY <1>3, <1>5 DEF Serving
<1>7. inService' /\ stale' > 0 => stale' <= readyFails' + 1
  <2> SUFFICES ASSUME inService', stale' > 0 PROVE stale' <= readyFails' + 1
    OBVIOUS
  <2>1. stale' = stale + 1
    BY <1>2
  <2>2. stale <= readyFails'
    BY <1>4, <1>5 DEF Serving
  <2>3. QED
    BY <1>4, <1>5, <2>1, <2>2
<1>8. QED
  BY <1>1, <1>2, <1>5, <1>6, <1>7 DEF Serving

LEMMA ServingStep == Counters /\ Serving /\ [RNext]_rvars => Serving'
<1> SUFFICES ASSUME Counters, Serving, [RNext]_rvars PROVE Serving'
  OBVIOUS
<1>1. CASE BeginLoad
  BY <1>1 DEF BeginLoad, Begin, Free, Serving, kube, manager
<1>2. CASE LoadReturns
  BY <1>2 DEF LoadReturns, Return, Serving, kube
<1>3. CASE BeginReady
  BY <1>3 DEF BeginReady, Free, Serving, vars, manager
<1>4. CASE ReadStatus
  <2>1. /\ loop = "probing" /\ loop' = "free" /\ UNCHANGED <<phase, readyDue, inService, readyFails>>
        /\ UNCHANGED <<up, cred, stale>>
    BY <1>4 DEF ReadStatus, Probe, manager
  <2>2. \/ answer' = answer
        \/ readyDue /\ (answer' = "ready" => cred = "valid")
    BY <1>4 DEF ReadStatus, IsReady
  <2>3. QED
    BY <2>1, <2>2 DEF Serving
<1>5. CASE AnswerLive
  BY <1>5 DEF AnswerLive, Serving, vars, manager
<1>6. CASE Kill
  BY <1>6 DEF Kill, Serving
<1>7. CASE VaultChanges \/ AccessChanges \/ GatewayChanges \/ SecretWritten \/ UNCHANGED rvars
  <2>1. UNCHANGED <<phase, loop, up, cred, stale, answer, readyDue, readyFails, inService>>
    BY <1>7 DEF VaultChanges, AccessChanges, GatewayChanges, SecretWritten, ServerChanges, TokenLost,
       LoginChanges, rvars, vars, kube, own, manager
  <2>2. QED
    BY <2>1 DEF Serving
<1>8. CASE Expires
  BY <1>8 DEF Expires, Serving, vars, kube
<1>9. QED
  BY <1>1, <1>2, <1>3, <1>4, <1>5, <1>6, <1>7, <1>8, LoadServing, EndReadyServing, TickServing
     DEF RNext, Process, Environment

-----------------------------------------------------------------------------
(* Patience *)

\* While no request has hung, the failures the kubelet has counted are at most
\* the pauses of the read under way; after it, a request to /health/live will
\* be answered before the next read begins.
Patience ==
  ~hung =>
    /\ phase \in {"idle", "ended"} =>
         liveFails = 0 \/ (liveFails < LiveThreshold /\ ((liveDue /\ rest > 0) \/ beat < rest))
    /\ phase = "trying" => liveFails < attempt
    /\ phase = "sleeping" => liveFails < attempt + waited /\ waited <= 1

\* The thresholds of the deployment: every read may miss one probe per pause,
\* and between two reads there is time for a probe.
PatientKubelet == MaxRetries <= LiveThreshold /\ LivePeriod < PollInterval

LEMMA TickPatience ==
  ASSUME PatientKubelet, ReadInv, Counters, Serving, Patience, Tick
  PROVE  Patience'
<1> SUFFICES ASSUME ~hung' PROVE Patience'
  BY DEF Patience
<1>1. ~hung /\ ~Blocked
  <2>1. hung' = (hung \/ Blocked)
    BY Zenon DEF Tick
  <2>2. QED
    BY <2>1, Zenon
<1>2. phase' = phase /\ attempt' = attempt
  BY DEF Tick, vars
<1>3. CASE Pausing
  <2>1. /\ phase = "sleeping" /\ waited = 0 /\ waited' = 1 /\ liveFails < attempt
    BY <1>1, <1>3 DEF Pausing, Patience, Tick, Counters, ReadInv, TypeOK
  <2>2. liveFails' <= liveFails + 1 /\ liveFails \in Nat /\ attempt \in Nat /\ liveFails' \in Nat
    BY DEF Tick, Counters, ReadInv, TypeOK
  <2>3. QED
    BY <1>2, <2>1, <2>2 DEF Patience
<1>4. CASE Free /\ up = "running" /\ ~liveDue
  <2>1. liveFails' = liveFails /\ phase = "idle"
    BY <1>4 DEF Tick, Free
  <2>2. liveFails = 0 \/ (liveFails < LiveThreshold /\ beat < rest)
    BY <1>1, <1>4, <2>1 DEF Patience
  <2>3. CASE beat < rest /\ beat = 1
    <3>1. liveDue' /\ rest' > 0
      <4>1. liveDue' = (up = "running" /\ beat = 1)
        BY Zenon DEF Tick
      <4>2. liveDue'
        BY <1>4, <2>3, <4>1, Zenon
      <4>3. rest' > 0
        BY <2>3 DEF Tick, Counters
      <4>4. QED
        BY <4>2, <4>3
    <3>2. QED
      BY <1>2, <2>1, <2>2, <3>1 DEF Patience
  <2>4. CASE beat < rest /\ beat # 1
    <3>1. beat' < rest'
      BY <2>4 DEF Tick, Counters
    <3>2. QED
      BY <1>2, <2>1, <2>2, <3>1 DEF Patience
  <2>5. CASE liveFails = 0
    BY <1>2, <2>1, <2>5 DEF Patience
  <2>6. QED
    BY <2>2, <2>3, <2>4, <2>5
<1>5. QED
  BY <1>1, <1>3, <1>4 DEF Tick, Settled

LEMMA LoadPatience ==
  ASSUME PatientKubelet, ReadInv, Counters, Patience, LoadStep
  PROVE  Patience'
<1> SUFFICES ASSUME ~hung, hung' = hung PROVE Patience'
  BY DEF Patience, LoadStep
<1>1. liveFails' = liveFails /\ beat' = beat /\ waited' = 0
  BY DEF LoadStep, kube
<1>2. liveFails \in Nat /\ attempt \in 0 .. MaxRetries /\ beat \in 1 .. LivePeriod
  BY DEF Counters, ReadInv, TypeOK
<1>3. CASE phase = "trying"
  <2>1. liveFails < attempt
    BY <1>3 DEF Patience
  <2>2. attempt' = attempt /\ phase' \in {"trying", "sleeping", "ended"}
    BY <1>3 DEF LoadStep, Read, Login, Succeed, Refused, Retry, Wake, GiveUp, End
  <2>3. CASE phase' = "ended"
    <3>1. rest' = PollInterval
      BY <2>3 DEF LoadStep, Loaded
    <3>2. liveFails' < LiveThreshold /\ beat' < rest'
      BY <1>1, <1>2, <2>1, <3>1 DEF PatientKubelet
    <3>3. QED
      BY <2>3, <3>2 DEF Patience
  <2>4. CASE phase' # "ended"
    BY <1>1, <1>2, <2>1, <2>2, <2>4 DEF Patience
  <2>5. QED
    BY <2>3, <2>4
<1>4. CASE phase = "sleeping"
  <2>1. phase' = "trying" /\ attempt' = attempt + 1
    BY <1>4 DEF LoadStep, Read, Login, Succeed, Refused, Retry, Wake, GiveUp
  <2>2. liveFails < attempt + waited /\ waited <= 1 /\ waited \in Nat
    BY <1>4 DEF Patience, Counters
  <2>3. QED
    BY <1>1, <1>2, <2>1, <2>2 DEF Patience
<1>5. QED
  BY <1>3, <1>4 DEF LoadStep, Read, Login, Succeed, Refused, Retry, Wake, GiveUp

LEMMA PatienceStep ==
  ASSUME PatientKubelet, ReadInv, Counters, Serving, Patience, [RNext]_rvars
  PROVE  Patience'
<1>1. CASE BeginLoad
  <2>1. /\ phase = "idle" /\ rest = 0 /\ phase' = "trying" /\ attempt' = 1
        /\ liveFails' = liveFails /\ hung' = hung
    BY <1>1 DEF BeginLoad, Begin, kube
  <2>2. beat \in 1 .. LivePeriod
    BY DEF Counters
  <2>3. ~hung => liveFails = 0
    BY <2>1, <2>2 DEF Patience
  <2>4. QED
    BY <2>1, <2>3 DEF Patience
<1>2. CASE BeginReady \/ ReadStatus \/ EndReady
  <2>1. /\ UNCHANGED <<phase, attempt, liveFails, liveDue, rest, beat, hung>>
        /\ phase = "idle"
    BY <1>2 DEF BeginReady, ReadStatus, EndReady, Free, Probe, Serving, vars, own
  <2>2. QED
    BY <2>1 DEF Patience
<1>3. CASE AnswerLive
  <2>1. phase' = "idle" /\ liveFails' = 0
    BY <1>3 DEF AnswerLive, Free, vars
  <2>2. QED
    BY <2>1 DEF Patience
<1>4. CASE Kill
  BY <1>4 DEF Kill, Patience
<1>5. CASE LoadReturns
  BY <1>5 DEF LoadReturns, Return, Patience, kube
<1>6. CASE Environment \/ UNCHANGED rvars
  <2>1. UNCHANGED <<phase, attempt, waited, liveFails, liveDue, rest, beat, hung>>
    BY <1>6 DEF Environment, VaultChanges, AccessChanges, GatewayChanges, SecretWritten, Expires,
       ServerChanges, TokenLost, LoginChanges, rvars, vars, kube, own
  <2>2. QED
    BY <2>1 DEF Patience
<1>7. QED
  BY <1>1, <1>2, <1>3, <1>4, <1>5, <1>6, TickPatience, LoadPatience DEF RNext, Process

-----------------------------------------------------------------------------
(* Theorems *)

RInv == ReadInv /\ Notes /\ Switches /\ Counters /\ Holdings /\ OnlyDownHangs /\ Serving

LEMMA RInitInv == RInit => RInv /\ Patience
<1> SUFFICES ASSUME RInit PROVE RInv /\ Patience
  OBVIOUS
<1>1. ReadInv
  BY InitInv DEF RInit
<1>2. Switches
  BY Zenon DEF RInit, Switches
<1>3. Notes /\ Counters /\ Holdings /\ OnlyDownHangs /\ Serving
  BY DEF RInit, Init, Notes, Counters, TooStale, Holdings, OnlyDownHangs, Serving
<1>4. Patience
  BY DEF RInit, Init, Patience
<1>5. QED
  BY <1>1, <1>2, <1>3, <1>4 DEF RInv

LEMMA RInvariant == RSpec => []RInv
<1>1. RInit => RInv
  BY RInitInv
<1>2. RInv /\ [RNext]_rvars => RInv'
  BY ReadsInside, NotesStep, SwitchesStep, CountersStep, HoldingsStep, HangsStep, ServingStep
     DEF RInv
<1>3. QED
  BY <1>1, <1>2, PTL DEF RSpec

(* Every variable of the replica and of the client in it keeps its type. *)
THEOREM RTypeCorrect == RSpec => []RTypeOK
<1>1. RInv => RTypeOK
  BY TypeParts, Zenon DEF RInv, ReadInv
<1>2. QED
  BY <1>1, RInvariant, PTL

(* Whatever the replica goes through, a load leaves one record of success if Vault
   gave the secret out and none otherwise, and two of failure if the read failed. *)
THEOREM LoadsRecorded == RSpec => []LoadsAreRecorded
<1>1. RInv => LoadsAreRecorded
  <2> SUFFICES ASSUME RInv, Ended
               PROVE  IF result = "secret" THEN Records("success") = 1 /\ Records("failure") <= 1
                      ELSE Records("success") = 0 /\ Records("failure") = 2
    BY DEF LoadsAreRecorded
  <2>1. audits = [o \in Outcomes |-> IF o = (IF result = "secret" THEN "success" ELSE "failure")
                                     THEN 1 ELSE 0]
    BY DEF RInv, ReadInv, OneAuditPerRead
  <2>2. result # "secret" => noted = TRUE
    BY DEF RInv, Notes, Ended
  <2>3. QED
    BY <2>1, <2>2 DEF Records, Outcomes
<1>2. QED
  BY <1>1, RInvariant, PTL

(* A replica is in the service only while it runs and holds a credential, and with
   one that has expired for no more than ReadyThreshold probes: no answer about the
   past, no load and no blocked loop brings or keeps it there. *)
THEOREM ServesHonestly == RSpec => []ServesWithCredential
<1>1. RInv => ServesWithCredential
  BY DEF RInv, Serving, Counters, TooStale, ServesWithCredential
<1>2. QED
  BY <1>1, RInvariant, PTL

(* With the thresholds of the deployment the kubelet kills a replica only if a
   request to Vault has hung: the retries and pauses of reads that fail, however
   many, never cost it its life. *)
THEOREM OnlyHungIsKilled ==
  ASSUME PatientKubelet
  PROVE  RSpec => []KilledOnlyIfHung
<1>1. RInit => Patience
  BY RInitInv
<1>2. RInv /\ Patience /\ [RNext]_rvars => Patience'
  BY PatienceStep DEF RInv
<1>3. RInv /\ Patience => KilledOnlyIfHung
  <2> SUFFICES ASSUME RInv, Patience, ~hung PROVE liveFails # LiveThreshold
    BY DEF KilledOnlyIfHung
  <2>1. /\ liveFails \in Nat /\ attempt \in 0 .. MaxRetries /\ phase \in {"idle", "trying", "sleeping", "ended"}
        /\ phase = "sleeping" => attempt < MaxRetries
        /\ waited \in Nat
    BY DEF RInv, Counters, ReadInv, TypeOK, UnderWay
  <2>2. QED
    BY <2>1 DEF Patience, PatientKubelet
<1>4. QED
  BY <1>1, <1>2, <1>3, RInvariant, PTL DEF RSpec
=============================================================================
