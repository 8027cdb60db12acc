------------------------------ MODULE Rotation ------------------------------
(***************************************************************************)
(* A credential rotation from end to end: scripts/rotate-credentials.sh,   *)
(* run by operators who do not know of each other, the secret and the      *)
(* rolling restart of vaultgateway-mock, Vault, and the replicas of the    *)
(* connector, which poll Vault and fall back on their previous credential. *)
(*                                                                         *)
(* A tick is the interval of the poll, 30 s.  The script waits 20 times    *)
(* 5 s: three ticks and a little.  Its search for the new version in the   *)
(* body of /health/ready never finds it, for HealthStatus carries neither  *)
(* a version nor a key, and its health check only warns.                   *)
(*                                                                         *)
(* The manifests do not agree on the first key: the init job of Vault      *)
(* writes a new one, and the secret of the mock is shipped with other keys.*)
(* Until the first rotation has set the mock right it refuses the          *)
(* connector.                                                              *)
(***************************************************************************)
EXTENDS Integers, Sequences

CONSTANTS
  Replicas, Operators,
  MaxKeys,              \* bound: keys made, the seeded one included
  WaitTicks,            \* whole ticks in the 100 s the script waits
  MaxDelay,             \* the cap of the backoff, in ticks
  KeyGenerationFails    \* TRUE for the script as it is: tr | head -c 16 ends
                        \* with SIGPIPE, and pipefail and -e stop the script

ASSUME RotationAssumption ==
  /\ MaxKeys \in Nat \ {0} /\ WaitTicks \in Nat /\ MaxDelay \in Nat \ {0}
  /\ KeyGenerationFails \in BOOLEAN

VARIABLES
  vault,    \* "up" or "down"
  history,  \* the api_key of every version of the secret in Vault
  made,     \* keys made so far; they are numbered, the seeded one is 1
  pc,       \* where the script of an operator is
  old, new, \* the key it read and the one it made
  waited,   \* ticks it has waited for the replicas
  secret,   \* VALID_API_KEYS in the secret of the mock
  mock,     \* the keys the serving pod of the mock has read
  next,     \* those of the pod that replaces it, {} if there is none
  rollout,  \* "settled", "wanted" (a restart was asked for) or "started"
  up,       \* is a replica running
  held, spare,   \* versions of its current and of its previous credential
  delay, wake,   \* the refresh loop's present pause, and what is left of it
  lost,     \* ghost: an HTTP error swallowed a write to Vault
  overlap,  \* ghost: two scripts ran at the same time
  cut       \* ghost: a script ended between its write and its last step

script == <<made, pc, old, new, waited>>
gateway == <<secret, mock, next, rollout>>
replicas == <<up, held, spare, delay, wake>>
ghosts == <<lost, overlap, cut>>
vars == <<vault, history, script, gateway, replicas, ghosts>>

Ended == {"idle", "done", "failed"}
Places == Ended \cup {"widen", "widening", "write", "wait", "narrowing"}

Latest == Len(history)

\* VALID_API_KEYS as the manifest ships it; 0 stands for keys nobody else has.
ShippedKeys == {0}

\* Both pods receive requests while one replaces the other.
Pods == {mock} \cup (IF next = {} THEN {} ELSE {next})

Init ==
  /\ vault = "up" /\ history = <<1>> /\ made = 1
  /\ pc = [o \in Operators |-> "idle"]
  /\ old = [o \in Operators |-> 0] /\ new = [o \in Operators |-> 0]
  /\ waited = [o \in Operators |-> 0]
  /\ secret = ShippedKeys /\ mock = ShippedKeys /\ next = {} /\ rollout = "settled"
  /\ up = [r \in Replicas |-> FALSE]
  /\ held = [r \in Replicas |-> 0] /\ spare = [r \in Replicas |-> 0]
  /\ delay = [r \in Replicas |-> 1] /\ wake = [r \in Replicas |-> 1]
  /\ lost = FALSE /\ overlap = FALSE /\ cut = FALSE

-----------------------------------------------------------------------------
(* The script *)

Goto(o, place) == pc' = [pc EXCEPT ![o] = place]

\* Steps 1 and 2: the key in Vault is read and a new one made.  Nothing looks
\* for another script that is running.
Start(o) ==
  /\ pc[o] \in Ended
  /\ vault = "up"
  /\ made < MaxKeys
  /\ made' = made + 1
  /\ old' = [old EXCEPT ![o] = history[Latest]]
  /\ new' = [new EXCEPT ![o] = made + 1]
  /\ Goto(o, IF KeyGenerationFails THEN "failed" ELSE "widen")
  /\ overlap' = (overlap \/ \E p \in Operators \ {o} : pc[p] \notin Ended)
  /\ UNCHANGED <<vault, history, waited, gateway, replicas, lost, cut>>

\* A kubectl command fails, the rollout takes more than 60 s, or the operator
\* stops the script: nothing is undone.
Fail(o) ==
  /\ pc[o] \notin Ended
  /\ Goto(o, "failed")
  /\ waited' = [waited EXCEPT ![o] = 0]
  /\ cut' = (cut \/ pc[o] = "wait")
  /\ UNCHANGED <<vault, history, made, old, new, gateway, replicas, lost, overlap>>

\* A patch of the secret with a restart of the mock, or, if the restart fails,
\* without it.
Patch(o, keys, place) ==
  /\ secret' = keys
  /\ \/ rollout' = "wanted" /\ Goto(o, place)
     \/ rollout' = rollout /\ Goto(o, "failed")
  /\ waited' = [waited EXCEPT ![o] = 0]
  /\ UNCHANGED <<vault, history, made, old, new, mock, next, replicas, ghosts>>

\* Step 3.
Widen(o) == pc[o] = "widen" /\ Patch(o, {old[o], new[o]}, "widening")

\* A mistake in RolledOut: the script does not wait for the rollout.
RolledOutNever == TRUE

\* kubectl rollout status.
RolledOut == rollout = "settled"

Widened(o) ==
  /\ pc[o] = "widening"
  /\ RolledOut
  /\ Goto(o, "write")
  /\ UNCHANGED <<vault, history, made, old, new, waited, gateway, replicas, ghosts>>

\* Step 4: curl without --fail notices that it cannot connect, and no HTTP error.
Write(o) ==
  /\ pc[o] = "write"
  /\ IF vault = "up"
     THEN /\ Goto(o, "wait")
          /\ \/ history' = Append(history, new[o]) /\ lost' = lost
             \/ history' = history /\ lost' = TRUE
     ELSE Goto(o, "failed") /\ UNCHANGED <<history, lost>>
  /\ UNCHANGED <<vault, made, old, new, waited, gateway, replicas, overlap, cut>>

\* A mistake in Waited: one tick less.
WaitedLess(o) == waited[o] >= WaitTicks - 1

Waited(o) == waited[o] >= WaitTicks

\* Steps 5 to 7.  The rest of the 100 s is enough for the polls due at the tick.
Narrow(o) ==
  /\ pc[o] = "wait"
  /\ Waited(o)
  /\ \A r \in Replicas : wake[r] > 0
  /\ Patch(o, {new[o]}, "narrowing")

Narrowed(o) ==
  /\ pc[o] = "narrowing"
  /\ RolledOut
  /\ Goto(o, "done")
  /\ UNCHANGED <<vault, history, made, old, new, waited, gateway, replicas, ghosts>>

Script(o) == Start(o) \/ Widen(o) \/ Widened(o) \/ Write(o) \/ Narrow(o) \/ Narrowed(o)

-----------------------------------------------------------------------------
(* The deployment of the mock: a pod reads the secret when it starts *)

PodStarts ==
  /\ rollout = "wanted"
  /\ next' = secret
  /\ rollout' = "started"
  /\ UNCHANGED <<vault, history, script, secret, mock, replicas, ghosts>>

PodReplaces ==
  /\ next # {}
  /\ mock' = next
  /\ next' = {}
  /\ rollout' = IF rollout = "started" THEN "settled" ELSE rollout
  /\ UNCHANGED <<vault, history, script, secret, replicas, ghosts>>

\* The container crashes; the pod starts it again, with what the secret is now.
PodCrashes ==
  /\ mock' = secret
  /\ UNCHANGED <<vault, history, script, secret, next, rollout, replicas, ghosts>>

Deployment == PodStarts \/ PodReplaces \/ PodCrashes

-----------------------------------------------------------------------------
(* The replicas *)

\* Mistakes in Adopt: a poll that finds nothing new sets the previous credential
\* as well; only the first credential is taken.
AdoptAlways(r) ==
  /\ held' = [held EXCEPT ![r] = Latest]
  /\ spare' = [spare EXCEPT ![r] = held[r]]
AdoptFirst(r) ==
  /\ held' = [held EXCEPT ![r] = IF @ = 0 THEN Latest ELSE @]
  /\ UNCHANGED spare

\* load_credentials with an answer of Vault.
Adopt(r) ==
  /\ held' = [held EXCEPT ![r] = Latest]
  /\ spare' = [spare EXCEPT ![r] = IF held[r] = Latest THEN @ ELSE held[r]]

Sleep(r, ticks) ==
  /\ delay' = [delay EXCEPT ![r] = ticks]
  /\ wake' = [wake EXCEPT ![r] = ticks]

\* A mistake in Backoff: it is not capped.
BackoffUncapped(d) == 2 * d

Backoff(d) == IF 2 * d < MaxDelay THEN 2 * d ELSE MaxDelay

\* A replica starts with one load, well or not, and a regular pause.
Boot(r) ==
  /\ ~up[r]
  /\ up' = [up EXCEPT ![r] = TRUE]
  /\ IF vault = "up" THEN Adopt(r) ELSE UNCHANGED <<held, spare>>
  /\ Sleep(r, 1)
  /\ UNCHANGED <<vault, history, script, gateway, ghosts>>

Poll(r) ==
  /\ up[r]
  /\ wake[r] = 0
  /\ IF vault = "up" THEN Adopt(r) /\ Sleep(r, 1)
     ELSE Sleep(r, Backoff(delay[r])) /\ UNCHANGED <<held, spare>>
  /\ UNCHANGED <<vault, history, script, gateway, up, ghosts>>

Die(r) ==
  /\ up[r]
  /\ up' = [up EXCEPT ![r] = FALSE]
  /\ held' = [held EXCEPT ![r] = 0] /\ spare' = [spare EXCEPT ![r] = 0]
  /\ Sleep(r, 1)
  /\ UNCHANGED <<vault, history, script, gateway, ghosts>>

\* 30 s pass; a poll that is due does not wait.
Tick ==
  /\ \A r \in Replicas : wake[r] > 0
  /\ wake' = [r \in Replicas |-> IF up[r] THEN wake[r] - 1 ELSE wake[r]]
  /\ waited' = [o \in Operators |-> IF pc[o] = "wait" /\ waited[o] < WaitTicks
                                    THEN waited[o] + 1 ELSE waited[o]]
  /\ UNCHANGED <<vault, history, made, pc, old, new, gateway, up, held, spare, delay, ghosts>>

VaultChanges ==
  /\ vault' = IF vault = "up" THEN "down" ELSE "up"
  /\ UNCHANGED <<history, script, gateway, replicas, ghosts>>

Next ==
  \/ \E o \in Operators : Script(o) \/ Fail(o)
  \/ Deployment
  \/ \E r \in Replicas : Boot(r) \/ Poll(r) \/ Die(r)
  \/ Tick
  \/ VaultChanges

Spec == Init /\ [][Next]_vars

-----------------------------------------------------------------------------
(* Properties *)

\* The type invariant.
TypeOK ==
  /\ vault \in {"up", "down"}
  /\ made \in 1 .. MaxKeys
  /\ history \in Seq(1 .. made) /\ Latest >= 1
  /\ pc \in [Operators -> Places]
  /\ old \in [Operators -> 0 .. made] /\ new \in [Operators -> 0 .. made]
  /\ \A o \in Operators : pc[o] # "idle" => old[o] # 0 /\ new[o] # 0
  /\ waited \in [Operators -> 0 .. WaitTicks]
  /\ \A keys \in {secret, mock} : keys # {} /\ keys \subseteq 0 .. made
  /\ next \subseteq 0 .. made
  /\ rollout \in {"settled", "wanted", "started"}
  /\ up \in [Replicas -> BOOLEAN]
  /\ held \in [Replicas -> 0 .. Latest] /\ spare \in [Replicas -> 0 .. Latest]
  /\ delay \in [Replicas -> 1 .. MaxDelay] /\ wake \in [Replicas -> 0 .. MaxDelay]
  /\ lost \in BOOLEAN /\ overlap \in BOOLEAN /\ cut \in BOOLEAN

Accepted(version, keys) == version # 0 /\ history[version] \in keys

\* A payment of this replica may meet a pod that refuses the credential it serves.
Rejected(r) == held[r] # 0 /\ \E keys \in Pods : ~Accepted(held[r], keys)

LatestRejected == \E keys \in Pods : ~Accepted(Latest, keys)

\* So many polls of the replica have failed in a row that its pause may outlast
\* the script: the pauses up to this one add up to more than the wait.
Outlasts(r) == 2 * delay[r] > WaitTicks + 1

\* "Zero-downtime credential rotation": whatever fails, dies or restarts during
\* it, a rotation leaves a replica with a key the gateway refuses only if the
\* replica's backoff outlasts the script's wait, if the gateway does not take the
\* latest key either (LatestAccepted says when), or if the operators ran two scripts
\* at once or ran the next one after they cut one short.  Otherwise the replica never needs its fallback.
ZeroDowntime ==
  \A r \in Replicas : Rejected(r) => Outlasts(r) \/ LatestRejected \/ overlap \/ cut

\* A pod of the gateway takes the latest key in Vault at every moment, unless a
\* write was lost unnoticed or two scripts ran at once - or unless it still has the
\* keys it was shipped with, and then no rotation has written to Vault yet.
LatestAccepted ==
  \A keys \in Pods :
    \/ Accepted(Latest, keys)
    \/ keys = ShippedKeys /\ Latest = 1
    \/ lost \/ overlap

\* A finished rotation has revoked the key it replaced, and the key stays
\* revoked, with the same two exceptions.
OldKeyRevoked ==
  \A o \in Operators : pc[o] = "done" =>
     (\A keys \in Pods : old[o] \notin keys) \/ lost \/ overlap

Dual(r) == INSTANCE DualCredential WITH latest <- Latest, held <- held[r], spare <- spare[r]

\* Each replica keeps the promise of CredentialManager to the code that uses it.
\* (The conjunction of Dual(r)!Spec over the replicas, in the form TLC reads.)
ReplicaDual ==
  /\ \A r \in Replicas : Dual(r)!Init
  /\ [][\A r \in Replicas : [Dual(r)!Next]_(Dual(r)!vars)]_vars

Polled(r) == INSTANCE PollingReplica WITH
               CheckInterval <- 1,
               MaxBackoff    <- MaxDelay,
               latest  <- Latest,
               held    <- held[r],
               spare   <- spare[r],
               good    <- (vault = "up"),
               polling <- up[r],
               delay   <- delay[r],
               wake    <- IF up[r] THEN wake[r] ELSE 0

\* Each replica loads, pauses and backs off as CredentialManager does, so that
\* what the script's wait is measured against is what the connector does.
ReplicaPolls ==
  /\ \A r \in Replicas : Polled(r)!PollInit
  /\ [][\A r \in Replicas : [Polled(r)!PollNext]_(Polled(r)!pollVars)]_vars

\* When Vault is up and a replica lives for good, it does not stay rejected by a
\* gateway that takes the latest key, whatever the scripts have left behind.
NotRejectedForEver ==
  \A r \in Replicas : <>[](vault = "up" /\ up[r]) => <>[](Rejected(r) => LatestRejected)

\* "Performs zero-downtime credential rotation": a script that was started, with
\* Vault up, is not over in its second step, before it has changed anything.
ScriptRuns == [][\A o \in Operators : new'[o] # new[o] => pc'[o] # "failed"]_vars
=============================================================================
