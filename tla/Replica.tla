------------------------------ MODULE Replica -------------------------------
(***************************************************************************)
(* One replica as Kubernetes sees it: the startup load of the lifespan,    *)
(* the two probe handlers of app/main.py, and the kubelet that calls them, *)
(* takes the pod out of the service or kills it.  The Vault client and its *)
(* retry loop are VaultClient's.                                           *)
(*                                                                         *)
(* All of this runs on one event loop.  read_secret and is_authenticated   *)
(* are synchronous: while a request to Vault is under way nothing else     *)
(* runs.  A Vault that refuses connections costs no time; one that lets    *)
(* them hang costs the timeout of hvac for every request.  A tick is 5 s.  *)
(* Of the requests to /health/ready that pile up in front of a blocked     *)
(* loop the model keeps one.                                               *)
(*                                                                         *)
(* The credential manager is reduced to what readiness asks of it: whether *)
(* it has a credential and whether that has expired; a load takes what     *)
(* _process_secret takes, and no version twice.                            *)
(***************************************************************************)
EXTENDS VaultClient

CONSTANTS
  HvacTimeout,       \* ticks until a request to Vault that hangs fails
  PollInterval,      \* credential_check_interval, in ticks
  LivePeriod,        \* livenessProbe.periodSeconds, in ticks
  LiveThreshold,     \* livenessProbe.failureThreshold
  ReadyThreshold     \* readinessProbe.failureThreshold; its period is a tick

ASSUME ReplicaAssumption ==
  /\ HvacTimeout \in Nat \ {0} /\ PollInterval \in Nat \ {0} /\ LivePeriod \in Nat \ {0}
  /\ LiveThreshold \in Nat \ {0} /\ ReadyThreshold \in Nat \ {0}

VARIABLES
  hangs,       \* does a Vault that is down let requests hang
  up,          \* the process: "starting" until the lifespan has yielded, "running"
  loop,        \* the readiness handler: "free", or "probing" inside is_authenticated
  waited,      \* ticks the request to Vault, or the pause, under way has taken
  rest,        \* ticks the refresh loop still sleeps at least
  slow,        \* the payment gateway lets requests hang
  secret,      \* the version that Vault holds: "loaded", the manager's current one, or
               \* another, "new" or, with missing fields or a bad ttl, "unusable"
  cred,        \* the manager's credential: "none", "valid" or "expired"
  noted,       \* this load_credentials left a failure record of its own
  readyCalls,  \* a request to /health/ready waits for the event loop
  readyDue,    \* the kubelet waits for the answer to this tick's one
  answer,      \* "none", or what its handler has read, while it awaits the gateway:
               \* "ready", "unready"
  liveDue,     \* the kubelet waits for the answer to a request to /health/live
  beat,        \* ticks until the next request to /health/live
  readyFails,  \* consecutive failures, as the kubelet counts them
  liveFails,
  inService,   \* the pod is an endpoint of the service
  hung,        \* ghost: a request to Vault has hung since the kubelet last heard
               \* from /health/live
  stale        \* ghost: ticks that a replica in the service has had an expired
               \* credential, TooStale when it is out

kube == <<readyCalls, readyDue, answer, liveDue, beat, readyFails, liveFails, inService>>
manager == <<secret, cred, noted, stale>>
own == <<hangs, slow, up, loop, waited, rest, hung, manager>>
rvars == <<vars, kube, own>>

Written == {"new", "unusable"}
TooStale == ReadyThreshold + 1

RInit ==
  /\ Init
  /\ hangs = FALSE /\ slow = FALSE
  /\ up = "starting" /\ loop = "free" /\ waited = 0 /\ rest = 0
  /\ secret \in Written /\ cred = "none" /\ noted = FALSE /\ stale = 0
  /\ readyCalls = FALSE /\ readyDue = FALSE /\ answer = "none" /\ liveDue = FALSE /\ beat = 1
  /\ readyFails = 0 /\ liveFails = 0
  /\ inService = FALSE
  /\ hung = FALSE

Free == phase = "idle" /\ loop = "free"

\* The next thing read_secret or is_authenticated does is a request to Vault:
\* always with a client, and for the Kubernetes login once the file was read.
AsksVault ==
  /\ phase = "trying" \/ loop = "probing"
  /\ client # "none" \/ (method = "kubernetes" /\ login # "absent")

Hanging == AsksVault /\ server = "down" /\ hangs

Blocked == Hanging /\ waited < HvacTimeout

\* The pause between two attempts is shorter than a tick but may straddle two.
Pausing == phase = "sleeping" /\ waited = 0

-----------------------------------------------------------------------------
(* The process *)

\* The load of the lifespan, or a poll of the refresh loop.
BeginLoad ==
  /\ Free
  /\ rest = 0
  /\ Begin
  /\ waited' = 0
  /\ UNCHANGED <<kube, hangs, slow, up, loop, rest, hung, manager>>

\* _process_secret takes a version it does not have, if it is complete.
Adopts == result' = "secret" /\ secret = "new"

\* When the first load has ended, well or not, the server starts to listen; a
\* load that adopts nothing, failed or not, keeps what is there, expired or not.  A
\* failed read and a ttl that is no number raise and are noted, missing fields are not.
Loaded ==
  /\ IF Adopts THEN secret' = "loaded" /\ cred' = "valid" /\ stale' = 0
     ELSE UNCHANGED <<secret, cred, stale>>
  /\ \/ noted' = TRUE /\ (result' # "secret" \/ secret = "unusable")
     \/ noted' = FALSE /\ result' = "secret"
  /\ up' = "running"
  /\ rest' = PollInterval

\* A step of read_secret.
LoadStep ==
  /\ ~Blocked
  /\ Read
  /\ waited' = 0
  /\ IF phase' = "ended" THEN Loaded ELSE UNCHANGED <<manager, up, rest>>
  /\ UNCHANGED <<kube, hangs, slow, loop, hung>>

LoadReturns ==
  /\ Return
  /\ noted' = FALSE
  /\ UNCHANGED <<kube, hangs, slow, up, loop, waited, rest, hung, secret, cred, stale>>

\* The handlers run once the lifespan has yielded and the loop is free.
BeginReady ==
  /\ up = "running" /\ Free
  /\ readyCalls
  /\ readyCalls' = FALSE
  /\ loop' = "probing"
  /\ waited' = 0
  /\ UNCHANGED <<vars, readyDue, answer, liveDue, beat, readyFails, liveFails, inService,
                 hangs, slow, up, rest, hung, manager>>

\* A mistake in IsReady: an expired credential is good enough.
IsReadyExpired == IsAuthenticated /\ cred # "none"

IsReady == IsAuthenticated /\ cred = "valid"

\* is_authenticated returns, the status of the credential is read, and the
\* handler awaits check_reachability.  Of a request that the kubelet has given up
\* nothing is left to see.
ReadStatus ==
  /\ loop = "probing"
  /\ ~Blocked
  /\ Probe
  /\ loop' = "free"
  /\ waited' = 0
  /\ answer' = IF waited = 0 /\ readyDue THEN IF IsReady THEN "ready" ELSE "unready"
               ELSE answer
  /\ UNCHANGED <<readyCalls, readyDue, liveDue, beat, readyFails, liveFails, inService,
                 hangs, slow, up, rest, hung, manager>>

\* A mistake in KubeletHears: a success does not clear the failures.
KubeletHearsForgetful(ok) ==
  /\ readyFails' = IF ok \/ readyFails = ReadyThreshold THEN readyFails ELSE readyFails + 1
  /\ inService' = (readyFails' < ReadyThreshold /\ (inService \/ ok))

\* The kubelet counts an answer, or its absence.
KubeletHears(ok) ==
  /\ readyFails' = IF ok THEN 0 ELSE IF readyFails < ReadyThreshold THEN readyFails + 1
                   ELSE readyFails
  /\ inService' = (readyFails' < ReadyThreshold /\ (inService \/ ok))

\* check_reachability returns, and the handler answers with what it has read.  A
\* gateway that hangs takes longer than the kubelet, which listens for less than a
\* tick.
EndReady ==
  /\ answer # "none"
  /\ Free /\ ~slow
  /\ KubeletHears(answer = "ready")
  /\ answer' = "none"
  /\ readyDue' = FALSE
  /\ UNCHANGED <<vars, readyCalls, liveDue, beat, liveFails, own>>

AnswerLive ==
  /\ up = "running" /\ Free
  /\ liveDue
  /\ liveDue' = FALSE
  /\ liveFails' = 0
  /\ hung' = FALSE
  /\ UNCHANGED <<vars, hangs, slow, up, loop, waited, rest, manager,
                 readyCalls, readyDue, answer, beat, readyFails, inService>>

-----------------------------------------------------------------------------
(* The kubelet, time and the environment *)

\* Whatever the event loop can do at once is done before time passes.
Settled ==
  \/ Blocked \/ Pausing
  \/ Free /\ up = "running" /\ ~readyCalls /\ ~liveDue /\ (answer = "none" \/ slow)

\* Five seconds: what was not answered has failed (timeoutSeconds is 3), and the
\* next requests go out.  A process that is starting refuses them.
Tick ==
  /\ Settled
  /\ liveFails < LiveThreshold
  /\ IF readyDue \/ up = "starting" THEN KubeletHears(FALSE)
     ELSE UNCHANGED <<readyFails, inService>>
  /\ liveFails' = IF liveDue \/ (up = "starting" /\ beat = 1) THEN liveFails + 1
                  ELSE liveFails
  /\ beat' = IF beat = 1 THEN LivePeriod ELSE beat - 1
  /\ readyDue' = (up = "running")
  /\ readyCalls' = (up = "running")
  /\ answer' = "none"
  /\ liveDue' = (up = "running" /\ beat = 1)
  /\ waited' = IF Blocked \/ Pausing THEN waited + 1 ELSE 0
  /\ hung' = (hung \/ Blocked)
  /\ rest' = IF rest > 0 THEN rest - 1 ELSE 0
  /\ stale' = IF cred # "expired" THEN 0 ELSE IF inService' THEN stale + 1 ELSE TooStale
  /\ UNCHANGED <<vars, hangs, slow, up, loop, secret, cred, noted>>

\* The container is killed and started again; its memory is gone.
Kill ==
  /\ liveFails = LiveThreshold
  /\ up' = "starting" /\ loop' = "free" /\ waited' = 0 /\ rest' = 0
  /\ secret' = IF secret = "loaded" THEN "new" ELSE secret
  /\ cred' = "none" /\ noted' = FALSE /\ stale' = 0
  /\ login' \in LoginsOf(method)
  /\ readyCalls' = FALSE /\ readyDue' = FALSE /\ answer' = "none" /\ liveDue' = FALSE /\ beat' = 1
  /\ readyFails' = 0 /\ liveFails' = 0
  /\ inService' = FALSE
  /\ hung' = FALSE
  /\ client' = "none" /\ phase' = "idle" /\ attempt' = 0 /\ result' = "none"
  /\ audits' = NoAudits
  /\ UNCHANGED <<method, server, hangs, slow>>

\* Vault goes down, in one of two ways, or comes back; the token and the login
\* change as VaultClient lets them.
VaultChanges ==
  /\ ServerChanges
  /\ hangs' \in (IF server' = "down" THEN BOOLEAN ELSE {FALSE})
  /\ UNCHANGED <<kube, slow, up, loop, waited, rest, hung, manager>>

AccessChanges == (TokenLost \/ LoginChanges) /\ UNCHANGED <<kube, own>>

GatewayChanges ==
  /\ slow' = ~slow
  /\ UNCHANGED <<vars, kube, hangs, up, loop, waited, rest, hung, manager>>

\* Somebody writes another version, a good one or not.
SecretWritten ==
  /\ server # "down"
  /\ secret' \in Written
  /\ UNCHANGED <<vars, kube, hangs, slow, up, loop, waited, rest, hung, cred, noted, stale>>

\* The ttl of the credential, if it has one, is over.
Expires ==
  /\ cred = "valid"
  /\ cred' = "expired"
  /\ UNCHANGED <<vars, kube, hangs, slow, up, loop, waited, rest, hung, secret, noted, stale>>

Process == LoadStep \/ LoadReturns \/ BeginReady \/ ReadStatus \/ EndReady \/ AnswerLive

Environment == VaultChanges \/ AccessChanges \/ GatewayChanges \/ SecretWritten \/ Expires

RNext == BeginLoad \/ Process \/ Tick \/ Kill \/ Environment

RSpec == RInit /\ [][RNext]_rvars

\* The event loop runs what is ready, or else time passes (also while Vault
\* changes its mind); the kubelet restarts what it kills; the timer of the
\* refresh loop fires although the loop is busy with probes now and then.
\* Nothing is assumed of Vault.
RFairness ==
  /\ WF_rvars(Process \/ Tick)
  /\ WF_rvars(Kill)
  /\ SF_rvars(BeginLoad)

RFairSpec == RSpec /\ RFairness
-----------------------------------------------------------------------------
(* Properties *)

\* The type invariant, VaultClient's included.
RTypeOK ==
  /\ TypeOK
  /\ hangs \in BOOLEAN /\ (hangs => server = "down")
  /\ up \in {"starting", "running"} /\ loop \in {"free", "probing"}
  /\ waited \in 0 .. HvacTimeout /\ rest \in 0 .. PollInterval
  /\ slow \in BOOLEAN /\ hung \in BOOLEAN
  /\ secret \in Written \cup {"loaded"} /\ cred \in {"none", "valid", "expired"}
  /\ noted \in BOOLEAN /\ stale \in 0 .. TooStale
  /\ readyCalls \in BOOLEAN /\ readyDue \in BOOLEAN /\ liveDue \in BOOLEAN
  /\ answer \in {"none", "ready", "unready"}
  /\ beat \in 1 .. LivePeriod
  /\ readyFails \in 0 .. ReadyThreshold /\ liveFails \in 0 .. LiveThreshold
  /\ inService \in BOOLEAN

\* What read_secret and load_credentials have recorded of the load.
Records(outcome) == audits[outcome] + (IF outcome = "failure" /\ noted THEN 1 ELSE 0)

\* Each load leaves one record of success if Vault has given the secret out, and
\* none otherwise.  It is not one record per load: a read that fails is recorded as
\* a failure twice, once by read_secret and once by load_credentials, and a secret
\* that was given out and could not be used may leave a failure as well.
LoadsAreRecorded ==
  Ended => IF result = "secret" THEN Records("success") = 1 /\ Records("failure") <= 1
           ELSE Records("success") = 0 /\ Records("failure") = 2

\* The kubelet is about to kill a replica only if a request to Vault has hung
\* since /health/live last answered: an outage in which Vault refuses
\* connections, with all its retries and pauses, a lost token, a refused login
\* or a gateway that hangs never costs a replica its life.
KilledOnlyIfHung == liveFails = LiveThreshold => hung

\* A replica is in the service only with a credential, and with one that has
\* expired for no more than ReadyThreshold ticks; when it is out with an expired one
\* it stays out.  No answer about the past, no probe that is lost in a blocked loop
\* and no load of the same version brings or keeps it there.
ServesWithCredential == inService => up = "running" /\ cred # "none" /\ stale < TooStale

\* If from some point on Vault answers, accepts the token or the login and holds a
\* complete secret, a new one if the replica's has expired, the gateway answers and
\* credentials cease to expire, the replica ends up in the service and stays there,
\* also if it was hung, killed, or had nothing or an expired credential until then.
WellWithVault ==
  /\ server = "ok" /\ login = "ok" /\ client # "stale" /\ method # "unsupported" /\ ~slow
  /\ secret = "new" \/ (secret = "loaded" /\ cred = "valid")

ReturnsToService == <>[]WellWithVault /\ <>[][~Expires]_rvars => <>[]inService

\* "Service continues processing using the last successfully cached
\* credentials" while Vault is unavailable: a replica that holds a valid one, and
\* whose gateway answers, is not taken out of the service then.
ServesThroughOutage ==
  [][server = "down" /\ inService /\ cred = "valid" /\ ~slow => inService']_rvars
=============================================================================
