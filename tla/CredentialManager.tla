------------------------- MODULE CredentialManager -------------------------
(***************************************************************************)
(* One connector process: the lifecycle of its CredentialManager           *)
(* (app/credential_manager.py, started and stopped by the lifespan of      *)
(* app/main.py), the Vault secret it polls and the clock.                  *)
(*                                                                         *)
(* load_credentials is synchronous, so it is one step of the event loop    *)
(* and one action here.  Its read of Vault (with VaultClient's retries)    *)
(* either returns the secret or raises.  A tick is credential_check_       *)
(* interval / CheckInterval seconds.                                       *)
(***************************************************************************)
EXTENDS CredentialStore

CONSTANTS CheckInterval,    \* credential_check_interval, in ticks
          MaxBackoff,       \* the cap of the refresh backoff, in ticks
          MaxWrites,        \* bound: how often the secret is written
          Payloads,         \* what a write may get wrong
          Ttls,             \* the ttl values a write may carry
          Versionless,      \* may a response lack its metadata version?
          VaultLosesData    \* may Vault come back empty and be seeded again?

ASSUME IntervalAssumption == CheckInterval \in Nat \ {0}
ASSUME BackoffAssumption == MaxBackoff \in Nat /\ MaxBackoff >= CheckInterval
ASSUME SecretAssumption ==
  /\ MaxWrites \in Nat \ {0}
  /\ Payloads \subseteq AllPayloads
  /\ Ttls \subseteq Nat \cup {NoTtl}
  /\ Versionless \in BOOLEAN /\ VaultLosesData \in BOOLEAN

VARIABLES
  vault,       \* the secret: [id, serial, version, payload, ttl]
  vaultUp,     \* does a read from this process get an answer?
  steady,      \* ticks since vault or vaultUp changed, up to MaxBackoff + 1
  mgr,         \* _cache, _current_version, _previous_version
  lastError,   \* _last_error is not None
  lastLoad,    \* what the last load_credentials returned: "none", "ok", "failed"
  rotations,   \* credential_rotation_total
  loop,        \* the refresh task: "off" (no process), "sleeping", "stopped"
  wake,        \* ticks until the sleep of the refresh loop ends
  delay        \* min(interval * 2 ** consecutive_errors, max_backoff)

envVars == <<vault, vaultUp, steady>>
procVars == <<mgr, lastError, lastLoad, rotations, loop, wake, delay>>
vars == <<vault, vaultUp, steady, mgr, lastError, lastLoad, rotations, loop, wake, delay>>

Secret(id, serial, version, p, t) ==
  [id |-> id, serial |-> serial, version |-> version, payload |-> p, ttl |-> t]

\* A new process: __init__, with nothing loaded and no refresh task.
ProcessInit ==
  /\ mgr = EmptyStore
  /\ lastError = FALSE
  /\ lastLoad = "none"
  /\ rotations = 0
  /\ loop = "off"
  /\ wake = 0
  /\ delay = CheckInterval

Init ==
  /\ vault \in {Secret(1, 1, 1, "complete", t) : t \in Ttls}
  /\ vaultUp \in BOOLEAN
  /\ steady = 0
  /\ ProcessInit

-----------------------------------------------------------------------------
(* load_credentials, as a part of the steps that call it *)

LoadOk == vaultUp /\ Succeeds(mgr, vault)
LoadAdopts == vaultUp /\ Adopts(mgr, vault)

\* A failure keeps what is cached; a success that adopts nothing keeps the error.
LoadCredentials ==
  /\ mgr' = IF vaultUp THEN Processed(mgr, vault) ELSE mgr
  /\ lastLoad' = IF LoadOk THEN "ok" ELSE "failed"
  /\ lastError' = IF LoadOk THEN lastError /\ ~LoadAdopts ELSE TRUE
  /\ rotations' = IF vaultUp /\ Rotates(mgr, vault) THEN rotations + 1 ELSE rotations

\* A mistake in Doubled: the cap is compared with the delay before it is doubled.
DoubledPastCap(d) == IF d < MaxBackoff THEN 2 * d ELSE MaxBackoff

Doubled(d) == IF 2 * d < MaxBackoff THEN 2 * d ELSE MaxBackoff

\* The sleep after a load: the interval after a success, twice the last after a failure.
NextDelay == IF LoadOk THEN CheckInterval ELSE Doubled(delay)

-----------------------------------------------------------------------------
(* The process *)

\* lifespan: one load whose result is ignored, then the refresh loop.
Start ==
  /\ loop = "off"
  /\ LoadCredentials
  /\ loop' = "sleeping"
  /\ wake' = CheckInterval
  /\ delay' = CheckInterval
  /\ UNCHANGED envVars

\* One turn of _refresh_loop, from the end of a sleep to the start of the next.
Refresh ==
  /\ loop = "sleeping"
  /\ wake = 0
  /\ LoadCredentials
  /\ delay' = NextDelay
  /\ wake' = NextDelay
  /\ UNCHANGED <<loop, vault, vaultUp, steady>>

\* stop_refresh_loop: the task is cancelled in its sleep; the process still
\* serves from its cache until the requests in flight are answered.
Stop ==
  /\ loop = "sleeping"
  /\ loop' = "stopped"
  /\ wake' = 0
  /\ UNCHANGED <<vault, vaultUp, steady, mgr, lastError, lastLoad, rotations, delay>>

\* The process ends: after Stop, or killed at any moment.
Exit ==
  /\ loop # "off"
  /\ mgr' = EmptyStore
  /\ lastError' = FALSE
  /\ lastLoad' = "none"
  /\ rotations' = 0
  /\ loop' = "off"
  /\ wake' = 0
  /\ delay' = CheckInterval
  /\ UNCHANGED envVars

-----------------------------------------------------------------------------
(* The clock and Vault *)

\* The sleep ends on time: the clock waits for a loop that is due.
Tick ==
  /\ ~(loop = "sleeping" /\ wake = 0)
  /\ wake' = IF wake > 0 THEN wake - 1 ELSE wake
  /\ steady' = IF steady <= MaxBackoff THEN steady + 1 ELSE steady
  /\ mgr' = Older(mgr)
  /\ UNCHANGED <<vault, vaultUp, lastError, lastLoad, rotations, loop, delay>>

VersionsOf(n) == IF Versionless THEN {n, None} ELSE {n}

\* A new KV version of the secret, good or not.
Write ==
  /\ vault.id < MaxWrites
  /\ \E p \in Payloads, t \in Ttls, v \in VersionsOf(vault.serial + 1) :
       vault' = Secret(vault.id + 1, vault.serial + 1, v, p, t)
  /\ steady' = 0
  /\ UNCHANGED <<vaultUp, procVars>>

\* Vault stops or starts to answer this process.
Outage ==
  /\ vaultUp
  /\ vaultUp' = FALSE
  /\ steady' = 0
  /\ UNCHANGED <<vault, procVars>>

Restore ==
  /\ ~vaultUp
  /\ vaultUp' = TRUE
  /\ steady' = 0
  /\ UNCHANGED <<vault, procVars>>

\* A dev-mode Vault restarts with an empty store and the init job writes the
\* secret again, as version 1 of a new history.
Reseed ==
  /\ VaultLosesData
  /\ ~vaultUp
  /\ vault.id < MaxWrites
  /\ \E t \in Ttls : vault' = Secret(vault.id + 1, 1, 1, "complete", t)
  /\ steady' = 0
  /\ UNCHANGED <<vaultUp, procVars>>

Next == Start \/ Refresh \/ Stop \/ Exit \/ Tick \/ Write \/ Outage \/ Restore \/ Reseed

Spec == Init /\ [][Next]_vars

\* Time passes, and the event loop runs a task whose sleep is over.  Nothing
\* is assumed of Vault, of the operators or of the process staying alive.
Fairness == WF_vars(Tick) /\ WF_vars(Refresh)

FairSpec == Spec /\ Fairness
-----------------------------------------------------------------------------
(* Properties *)

CredentialSet ==
  [key : Int \ {0}, version : Nat, id : Nat \ {0}, left : Nat \cup {NoTtl}]

StoreSet == [cache : Seq(CredentialSet), current : Nat, previous : Nat]

SecretSet ==
  [id : Nat \ {0}, serial : Nat \ {0}, version : Nat, payload : AllPayloads,
   ttl : Nat \cup {NoTtl}]

\* The type invariant; it includes the bound of the cache, which
\* _process_secret restores before it returns.
TypeOK ==
  /\ vault \in SecretSet
  /\ vaultUp \in BOOLEAN
  /\ steady \in 0 .. MaxBackoff + 1
  /\ mgr \in StoreSet
  /\ Len(mgr.cache) <= MaxCacheSize
  /\ lastError \in BOOLEAN
  /\ lastLoad \in {"none", "ok", "failed"}
  /\ rotations \in Nat
  /\ loop \in {"off", "sleeping", "stopped"}
  /\ wake \in 0 .. MaxBackoff
  /\ delay \in CheckInterval .. MaxBackoff

Fresh == Current(mgr).id = vault.id
VaultGood == vaultUp /\ vault.payload = "complete"

\* The version pointers lead into the cache: no eviction removes the current
\* credential, and a process that has a cached credential has a current one.
CurrentCached ==
  mgr.cache # << >> => Current(mgr) # NoCredential

\* A process that is up and keeps running never loses its last credential,
\* whatever Vault answers or fails to answer ("existing valid credentials are
\* retained", load_credentials).
NeverLosesCredential ==
  [][Current(mgr) # NoCredential /\ loop' # "off" => Current(mgr') # NoCredential]_vars

\* When the current credential is replaced, the one it replaces is what
\* get_fallback_credential returns next: the dual-credential window has no hole.
RotationKeepsOld ==
  [][LET old == Current(mgr)
         new == Current(mgr')
     IN  old # NoCredential /\ loop' # "off" /\ new.id # old.id
           => Fallback(mgr').id = old.id]_vars

\* credential_rotation_total counts a step exactly when the step replaces one
\* served credential by another.
RotationCounted ==
  [][loop' # "off" =>
       (rotations' = rotations + 1
          <=> Current(mgr) # NoCredential /\ Current(mgr').id # Current(mgr).id)]_vars

\* An expired credential stays expired for a running process until another
\* version replaces it: reading the same version again does not renew it.
ExpiredStaysExpired ==
  [][StatusOf(Current(mgr)) = "expired" /\ loop' # "off" /\ Current(mgr').id = Current(mgr).id
       => StatusOf(Current(mgr')) = "expired"]_vars

\* A process that has nothing to authenticate with can say why: its last load
\* failed and last_error is set.
EmptyIsExplained ==
  loop # "off" /\ Current(mgr) = NoCredential => lastError /\ lastLoad = "failed"

\* However far the backoff has grown, a running loop serves the newest secret
\* at most MaxBackoff ticks after Vault began to offer it without a break.
FreshWithinMaxBackoff ==
  loop = "sleeping" /\ VaultGood /\ steady > MaxBackoff => Fresh

\* If Vault is good for ever from some point on and the process keeps running,
\* the process ends up serving what Vault holds.
RecoversWithVault ==
  <>[](loop = "sleeping" /\ VaultGood) => <>[]Fresh

\* The manager implements the dual-credential contract.
Dual == INSTANCE DualCredential WITH
          latest <- vault.id,
          held   <- Current(mgr).id,
          spare  <- Fallback(mgr).id

DualSpec == Dual!Spec

\* The served credential is never newer than Vault's, and the fallback is
\* strictly older than the served one: the window always looks back in time.
DualOrdered == Dual!Ordered

\* The manager and its refresh loop load, pause and back off as the replicas do
\* on whose timing the rotation script depends.
Polling == INSTANCE PollingReplica WITH
             latest  <- vault.id,
             held    <- Current(mgr).id,
             spare   <- Fallback(mgr).id,
             good    <- VaultGood,
             polling <- (loop = "sleeping")

PollingSpec == Polling!PollSpec
=============================================================================
