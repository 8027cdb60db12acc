# Verification of the OrbitPay payment-gateway connector

TLA+ specifications of the connector service under
`src/services/payment-gateway-connector`, the TLC configurations that check
them, and TLAPS proofs of their most important properties. Paths below are
relative to the repository; `app/` is `src/services/payment-gateway-connector/app/`.

## 1. The system

A payment connector runs as two replicas. Each polls HashiCorp Vault for the
API credential of a payment gateway, keeps the last few versions in memory, and
forwards payments to the gateway with the newest one, falling back to the one
before. A script rotates the credential.

| Part | State it keeps | Operations | Interacts with |
|---|---|---|---|
| `CredentialManager` (`app/credential_manager.py`) | a bounded `OrderedDict` of credentials, current and previous version, last error, refresh task, backoff | `load_credentials`, `_process_secret`, `get_current_credential`, `get_fallback_credential`, status, start/stop and body of the refresh loop | calls `VaultClient.read_secret`; read by the gateway client and the endpoint |
| `VaultClient` (`app/vault_client.py`) | a cached, authenticated hvac client | `read_secret` with retries and audit, `is_authenticated` | Vault; called by the manager and by the readiness probe |
| `GatewayClient`, `CircuitBreaker` (`app/gateway_client.py`) | breaker state, failure count, time of last failure, metrics | `authorize_payment`, one or two awaited attempts | reads the manager's credentials; awaits the gateway |
| Endpoint and lifespan (`app/main.py`) | idempotency LRU, in-flight counter, component singletons | authorize handler, readiness, liveness, start, graceful shutdown | all of the above |
| Middleware (`app/middleware.py`) | LRU of token buckets | rate limit, audit record, request id | in front of the endpoint |
| VaultGateway mock (`src/services/vaultgateway-mock`) | none (keys from its environment) | authorize | called by the gateway client |
| Rotation script (`src/scripts/rotate-credentials.sh`) | shell variables | dual-key patch, write, detect, revoke | Vault, the mock, one replica's readiness |
| Kubernetes and Prometheus manifests | - | probes, replicas, alerts | - |

Each replica is one asyncio event loop. Code between two `await`s is atomic;
what interleaves is payments (while one awaits the gateway), the refresh task
(while it sleeps), probes, shutdown, the other replica, and everything outside:
Vault, gateway, script, clients, clock. `read_secret` is synchronous, with
`time.sleep` between attempts, so a load blocks the whole loop and is one step.

What is hard, and what makes each part correct:

- *Manager*: outages, bad secrets, reused or missing version numbers, eviction,
  expiry, death and restart. Correct: it serves what Vault holds within a bound,
  never drops its last credential, and keeps the replaced one as fallback.
- *Breaker and client*: late answers of concurrent calls, credentials revoked
  under a call. Correct: fails fast, recovers, and blames credentials only when
  they are to blame.
- *Endpoint*: check-then-act over an await, timeouts after a charge, eviction,
  replicas, shutdown. Correct: one charge per key, true replies, no dropped
  request in a clean drain.
- *VaultClient*: what changes between retries, the cached token, audit on every
  way out. Correct: reads end, with the right outcome and the records that belong to
  it.
- *Probes*: handlers that share an event loop with synchronous requests to Vault,
  that read a status and then await the gateway, and a kubelet that counts and acts;
  secrets that cannot be used, credentials that expire. Correct: a replica is in the
  service only with a credential, with an expired one for three probes at most, is
  killed only if it really hung, and comes back.
- *Rotation*: a script, two deployments and polls with a backoff, each at its own
  pace, any of which may fail; operators who do not know of each other; payments on
  their way meanwhile; first keys on which the manifests do not agree. Correct: once a
  rotation has written a key the gateway has, it refuses at no moment the key a
  replica serves, or one that a payment still carries.
- *Middleware*: a wall clock, an LRU of buckets, an order of wrapping. Correct:
  bounded admission, no undue refusal, a record and an id for every reply.

`PROJECT.json` lists the components, the hazards with their lines, and the line
map from definitions to source.

## 2. Modules

| Module | Models | Notes |
|---|---|---|
| `CredentialStore` | the cache and `_process_secret` as operators on a record `[cache, current, previous]` | no variables; shared by two components, so both use the same translation |
| `CredentialManager` | one process: `Start`, `Refresh`, `Stop`, `Exit`; its environment: `Tick`, `Write`, `Outage`, `Restore`, `Reseed` | time is discrete and saturates |
| `DualCredential` | abstract: `latest`, `held`, `spare` and three actions | what the manager promises; implemented by `latest <- vault.id`, `held <- Current(mgr).id`, `spare <- Fallback(mgr).id` |
| `PollingReplica` | abstract, extends `DualCredential` with time: when a process loads, and how long it pauses after a good and a bad load | implemented by `CredentialManager` (`Polling`) and, once per replica, by `Rotation` (`Polled`): what the one promises about its polls is what the other relies on |
| `CircuitBreaker` | the breaker as a value, and its gauge | |
| `GatewayClient` | concurrent calls: `Refuse`, `Start`, `Answered`, `TryFallback`, `AllRejected`, `Failed`; environment: `Adopt`, `Activate`, `Revoke`, `GoDown`, `ComeBack`, `Tick` | composes `CircuitBreaker` and `CredentialStore` |
| `PaymentService` | handlers on all replicas: `Refuse`, `Replay`, `Forward`, `Complete`, `Fail`; the gateway: `Charge`, `RefuseAtGateway`; `Drain`, `Deadline`, `Shutdown`, `Kill`, `Restart` | the await on the gateway client is the gap between `Forward` and `Complete`/`Fail` |
| `PaymentContract` | abstract: per key what was charged and what was answered, and the keys for which nothing is promised any more; `Charge`, `Answer`, `Waive` | what the endpoint promises its clients; implemented by `PaymentService` (`Contract`) with the gateway's ledger, the replies and the keys that have an `excuse` |
| `VaultClient` | `Begin`, `Login`, `Succeed`, `Refused`, `Retry`, `Wake`, `GiveUp`, `Return`, `Probe`; environment: `TokenLost`, `ServerChanges`, `LoginChanges` | all three authentication methods |
| `Replica` | extends `VaultClient`: `BeginLoad`, `LoadStep`, `LoadReturns`, `BeginReady`, `ReadStatus`, `EndReady`, `AnswerLive` on one event loop; the kubelet: `Tick`, `Kill`; environment: `VaultChanges`, `AccessChanges`, `GatewayChanges`, `SecretWritten`, `Expires` | `/health/ready`, `/health/live`, the startup load, both probes of the deployment |
| `Rotation` | the script: `Start`, `Widen`, `Widened`, `Write`, `Narrow`, `Narrowed`, `Fail`; the mock's pods: `PodStarts`, `PodReplaces`, `PodCrashes`; replicas: `Boot`, `Poll`, `Die` | replicas reduced to the versions they hold, and shown to be `PollingReplica`s (`ReplicaPolls`) |
| `RotationPayments` | extends `Rotation` with the payments the replicas have under way: `Send`, `SendAgain`, `Return`, `DieSending`, `TimePasses`, and `Beside` for all other steps of `Rotation` | composes the part of `GatewayClient` that a rotation can disturb with the rotation |
| `Middleware` | `Admit`, `Refuse`, `Answer`; the clock: `Tick`, `SetBack`, `SetAhead` | the three middlewares and the token buckets |
| `*_proofs` | theorems and proofs about the module they are named after | `CredentialStore_proofs` is lemmas for two of them; `Replica_proofs` extends `VaultClient_proofs` |
| `MC*` | constants and symmetry for TLC | |

How state corresponds to code, where it is not obvious:

- A credential's `left` is `ttl - age_seconds`, stopped at zero; `-1` stands for
  no ttl. `id` tells writes apart even when their version numbers coincide; the
  code sees only `version`.
- A response without a version is cached under `int(time.time())`, written as
  `-id`. Two loads of such responses in one second, which would share a key, are
  excluded: polls are at least an interval apart.
- `delay` is `min(check_interval * 2 ** consecutive_errors, 300)`; only that
  product matters, so the error count is not kept.
- The breaker's failure count stops at the threshold and the age of its last
  failure at the timeout: the code compares them with nothing else, so this
  abstraction is exact.
- `call[c].exposed` remembers that the gateway was down during the attempt: such
  an attempt may fail however late (a timeout or a 5xx), others may not.
- `stable` (`GatewayClient`), `excuse` (`PaymentService`), `hung`, `stale` (`Replica`),
  `lost`, `overlap`, `cut` (`Rotation`), `payment[r].late` (`RotationPayments`), `excess`, `back` and `ahead`
  (`Middleware`) are ghosts: no action reads them but to keep a bound.
- In `Replica` a tick is the readiness period, 5 s. A request to Vault takes no
  tick unless Vault lets it hang (`Blocked`); nothing else of the process runs
  meanwhile. A pause between two attempts is shorter than a tick and may straddle
  one. Whatever is ready to run runs before time passes (`Settled`).
- In `Replica` the manager is what readiness asks of it: its credential (`cred`) is
  none, valid or expired, and the version in Vault (`secret`) is the one it has
  (`loaded`), another that it can take (`new`), or one that it cannot (`unusable`: a
  field is missing, or the ttl is no number). A read of `loaded` is a success that
  changes nothing, so an expired credential stays expired until somebody writes
  (`Loaded`). `noted` is the failure record that `load_credentials` adds to that of
  the read. The readiness handler reads the status (`ReadStatus`), keeps it in `answer`
  over its await of the gateway, and replies with it (`EndReady`); in between loads,
  expiry and writes go on.
- In `Rotation` a tick is the poll interval, 30 s; the 100 s of the script's wait
  are three ticks and a little, so the polls due at the third tick come first.
  Keys are numbered as they are made, `held` and `spare` are versions in Vault's
  history, `next` is the pod that replaces the serving one. `ShippedKeys`, key 0, are
  those of `src/k8s/vaultgateway-mock/secret.yaml:14`, which are not the one that the
  init job writes to Vault, key 1 (`src/k8s/vault/configmap.yaml:42`).
- In `RotationPayments` a payment is the versions of the two credentials that
  `authorize_payment` read before its await, which of them it carries now, and whether
  a tick has passed since that attempt was sent. Each of the phases in which httpx
  sends a request is limited to 10 s, so an attempt has met its pod before a second
  tick (`Timely`). A refusal (`Refused`) is followed by the second attempt
  (`SendAgain`) or ends the payment. Payments change nothing of the rotation (a
  theorem), so one at a time for each replica stands for all.
- In `Middleware` time is counted in token times. A bucket's `balance` is its
  `_tokens` plus the time since `_last_refill`, before the cap: a bucket that is
  not used thus gains one per tick, and loses when the clock is set back, as the
  code's subtraction does. `excess` is the largest, over all stretches of time
  up to now, of the requests let through minus the ticks.
- In `PaymentService` a transaction is its position in the gateway's `ledger`. For a
  4xx the handler makes up an id, a fresh uuid (`app/main.py:240-242`), which it
  returns and caches as it does a transaction's: it goes by the name of the request
  it was made up for (`TransactionId`).
- Definitions introduced by "A mistake in ..." are wrong variants of the
  definition that follows. No action uses them; they show that the properties
  are sensitive: with one in place of the original the property named in
  `PROJECT.json` fails.

## 3. Runs

| Run | Asks | Bounds |
|---|---|---|
| `CredentialManager_contract` | dual window, rotation count, expiry, staleness, explained emptiness, recovery, `PollingReplica` | 4 writes, cache of 2, real intervals (1 tick = 30 s, cap 10) |
| `CredentialManager_hostile` | the same cache with versionless responses and reseeded histories: it never loses its credential | 4 writes, cache of 2 |
| `GatewayClient_calls` | breaker consistency, fail-fast, recovery, gauge, honest authentication errors | 2 concurrent calls, 3 credentials, real threshold 5, timeout 3 ticks of 10 s |
| `PaymentService_safety` | in-flight count, true replies, drain, causes of double charges, `PaymentContract` | 2 replicas, 2 keys, 3 requests, cache of 1 |
| `Replica_probes` | the audit records of each load, termination; in the service only with a credential, not for long with an expired one; killed only if hung; return to the service | 2 attempts of 2 ticks, liveness 3 of 1 tick, readiness 2: the real numbers (3 of 30 s, 5 of 10 s, 3 of 5 s) in their order |
| `Rotation_protocol` | the key a replica serves, the keys of payments under way and the latest key accepted, from the shipped keys on, the second attempt of no use, the old key revoked, replicas as `PollingReplica`s, recovery | 2 operators, 1 replica, 2 rotations, wait 3 ticks, backoff 1, 2, 3 |
| `Middleware_limits` | type and bucket limit, admission bound, due refusals, audit | 3 clients, 2 buckets, capacity 2, 2 requests, clock set back 2 and ahead 1 |

Why the bounds suffice: a cache of two with four writes evicts, and evicts after
an eviction; in `CredentialManager` the intervals and the cap are the code's
own, so every backoff depth occurs. Two calls are enough for a late success or a
late failure to overlap a probe, and calls are repeated without bound; the
threshold and the timeout are the code's. Three credentials over a cache of two
evict one that a call in flight still holds. Three requests over two replicas
and two keys allow a concurrent duplicate, a retry and an eviction by another
key. In `Replica` what matters is the order of three durations: a read of a Vault
that hangs outlasts the liveness threshold, which outlasts the readiness
threshold. In `Rotation` the wait and the first steps of the backoff are the
code's own; the cap (10 ticks) is lowered to 3, the first pause that, with those
before it, outlasts the wait. One replica is enough there: replicas share only Vault and the mock, none
reads or writes the other's state, and each property speaks of one; two rotations
let scripts overlap and follow each other. For the
safety properties and `ReplicaPolls` the proofs cover any number of replicas. In `Middleware` three clients over two buckets evict,
and evict again. The safety properties of the passing runs are in addition proved
for all values of the constants (section 5), so the bounds limit the liveness
properties only.

`Rotation_protocol` sets `KeyGenerationFails = FALSE`: it checks the protocol of the
script with line 157 repaired, since the script as it is never gets past it
(`Rotation_script`, where it is `TRUE`). What it shows:

- The wait of 100 s covers one failed poll of a replica (30 s and then 60 s), if Vault
  refuses it at once (section 6), and no second one: `ZeroDowntime` excuses only replicas whose pauses, the present one
  and those before it, add up to more than the wait (`Outlasts`), and fails when
  the wait is a tick shorter. Within that the gateway takes the key a replica
  serves, not only one of its two: the fallback is never needed in a rotation
  without accidents.
- For payments under way the wait covers no failed poll. A replica polls just before
  the script narrows the keys, and what it sent before that poll still carries the
  old key. `PaymentsTaken` excuses payments that a replica sent while it was behind
  and its pauses, with the present one, came to the wait less a tick or more
  (`Straggles`); the bound on the time of a request is what keeps all others safe.
- The second attempt of a payment, with the previous credential, never helps
  (`FallbackIsIdle`): once a pod has refused what the replica served, every pod
  refuses what it served before, and goes on to. `src/DESIGN.md:71-75` and `:157` give
  the fallback its purpose: a new key that is in Vault before the gateway has
  activated it. The script waits for the gateway before it writes, so that window
  does not exist; only two scripts at once open it (`overlap`). It is the
  gateway's two keys, and the order of the script's steps, that carry payments
  through a rotation. The property holds when writes are lost and scripts are cut
  short, where `ZeroDowntime` and `PaymentsTaken` promise nothing. It is about
  this script: an operator who writes to Vault by other means, or writes a key the
  gateway never takes (`src/DESIGN.md:147`, "Botched rotation"), still needs the fallback.
- The gateway refuses the connector from its deployment on, until the first rotation:
  the mock is shipped with `ogw-init-key-default` and `ogw-backup-key-default`
  (`src/k8s/vaultgateway-mock/secret.yaml:14`), the init job gives Vault
  `ogw-init-key-<time>` (`src/k8s/vault/configmap.yaml:42`), and `setup.sh` does not
  make them agree. Step 14 of `src/SETUP.md` expects a test payment to be approved at
  that point; the mock answers 403 and the endpoint 503. The first rotation mends it,
  because the script widens to the old key and the new one and does not look at what
  is there; with line 157 as it is, no script gets that far. `LatestAccepted` excuses
  exactly this: the shipped keys, and only while Vault has its first version. Until
  then `ZeroDowntime`, `PaymentsTaken` and `NotRejectedForEver` promise nothing, since
  they excuse a gateway that does not take the latest key; `FallbackIsIdle` and
  `OldKeyRevoked` need no such excuse.
- From then on three things lose a key: a write that Vault answered with an error, which curl
  does not notice (`lost`); two scripts at once (`overlap`); and a script that is
  run right after one that was cut short after its write (`cut`), which drops the
  old key before the replicas have polled. Nothing else does: no death of a
  replica or of a pod, no failed command, no outage.
- The rollout must be over before the write, and it is.

Properties that a document or comment states and the code does not keep
have a run each, in which TLC finds the counterexample:

| Run | What the counterexample shows |
|---|---|
| `CredentialManager_reseed` | Vault restarts empty, the init job, which runs once, is run again and seeds version 1 again; the manager never loads it |
| `PaymentService_retry` | a retry after a timeout is charged again, although one replica and one client at a time are involved |
| `VaultClient_token` | a lost token is never replaced |
| `Replica_outage` | readiness asks Vault: three probes into an outage the replica is out of the service, whatever it has cached |
| `Rotation_script` | `-e` and `pipefail` stop the script at `tr ... \| head -c 16` |

Further ways in which the models leave what a text says are visible in their
actions and have no run of their own: after failed polls the next is up to 300 s
away, not "within 30 seconds" (`NextDelay`); the fallback attempt of a call is
sent through a breaker that opened meanwhile (`TryFallback` does not ask it); a
half-open breaker lets every call through, not "a probe request"
(`AllowsRequest`); the alert `CircuitBreakerOpen` compares the gauge with 2, which
is half-open's value (`GaugeOf`); a gateway that hangs makes readiness late and
takes the replicas out of the service although readiness does not depend on it
(`EndReady` with `slow`); a Vault that hangs for three attempts gets a replica
killed and its cached credential lost (`Kill`); concurrent duplicates and the second
replica's empty cache are two more ways to charge a key twice (`excuse` in
`PaymentService_safety` names all five); `Answered` closes an open breaker when
a late success arrives; a first response without a version is a "success" with
nothing loaded (`Succeeds`, `Adopts`); `Retry` leaves no audit record although
`VaultClient` "audit logs every secret access attempt"; a version number reused
after a reseed is overwritten in place by `Put`.

`Replica_probes` shows in addition:

- A load has one record of success if Vault gave the secret out and none otherwise,
  but it does not have one record (`LoadsAreRecorded`). A read that fails is recorded as
  a failure twice, by `read_secret` (`app/vault_client.py:191`) and, when its
  exception arrives, by `load_credentials` (`app/credential_manager.py:133-137`): who
  counts failures in the audit log counts each twice. A secret with a missing field
  leaves a success alone, although nothing was loaded; one whose ttl is no number
  leaves a success and a failure.
- A replica whose credential expires stays in the service until three probes have
  failed (`ServesWithCredential`, whose ghost `stale` counts the ticks, `ReadyThreshold`
  at most). The first of the three may be that of the next period: an answer that is
  under way has read the status before.
- It comes back (`ReturnsToService`) if Vault, the access to it and the gateway stay
  well, credentials cease to expire, and Vault holds a complete secret, which must
  be a new version if the replica's has expired: reading the same version again
  does not help (`ExpiredStaysExpired` of `CredentialManager`).

`PaymentService_safety` states the converse of the double charge: it has one of
the five causes recorded in `excuse` (concurrent duplicate, call without an
answer, eviction, restart, other replica), so an idempotency design that rules
out those five is enough. `ContractSpec` says more of a key without such a cause: it has
one outcome, no charge follows an answer, and no answer contradicts another. It
is the property that would notice if errors were no longer stored: then a retry
after an ERROR answer is charged, once, which `DoubleChargeHasACause` allows.
An answer to a 4xx names an id that the gateway has never heard of;
`RepliesAreTrue` says that such an id was made up for a request with the same key that
the gateway refused, and that any other is a transaction of that key.
`ExactlyOnceIfUndisturbed` (section 5) is the other side of `PaymentService_retry`:
the conditions under which "exactly once" is true of this code.

Deadlock is checked in every run; no configuration switches it off. Symmetry is
used only in runs without liveness, over calls, keys and requests.

## 4. Fairness

- `CredentialManager`: weak fairness of `Tick` (time passes) and `Refresh` (the
  event loop runs a task whose sleep is over). Nothing is assumed of Vault, of
  writers, or of the process staying up: those are hypotheses of the property.
- `GatewayClient`: weak fairness of `Tick`, of each attempt's end (httpx enforces
  `HTTP_TIMEOUT_SECONDS`) and of each `Start` (payments keep arriving: the
  breaker closes only by serving one, and the code has no probe of its own).
- `Replica`: weak fairness of the event loop or the clock (one of them can always
  go on: what is ready runs, a request that hangs has a timeout), of the kubelet's
  restart, and strong fairness of the next poll (a timer that fired stays in the
  queue although probes run before it). Nothing is assumed of Vault, the token,
  the login or the gateway but in the hypothesis of `ReturnsToService`.
- `VaultClient` alone (`VaultClient_token`): weak fairness of the read's steps and
  of the next read.
- `RotationPayments`: weak fairness of the clock the replicas poll by (a tick, or the
  poll that is due then), and of the return of each payment (httpx enforces the
  timeout; an old attempt holds back the clock). Nothing is assumed of scripts,
  rollouts or starts: they may stop anywhere.
- `PaymentService`, `Middleware`: safety only, no fairness.

## 5. Proofs

TLAPS checks these for every value of the constants.

`CredentialStore_proofs`: lemmas about the cache. Its centre is `Chronological`:
the cached versions are strictly increasing, each under its own key, and the
pointers are the last two of them (or of what there is). `EvictSuffix` and
`AdoptedInOrder` show that adopting a newer version keeps this, and `ServedAt`
that then the current and fallback credentials are exactly those two. Room for
two, `MaxCacheSize >= 2`, is needed and is assumed by name.

`CredentialManager_proofs`:

- `TypeCorrect`: `Spec => []TypeOK`, including the cache bound, with no assumption
  about Vault.
- `WindowLooksBack` (the fallback is older than the served credential, which is
  not newer than Vault's), `WindowHasNoHole`, `ImplementsDual`, `FreshnessBound`: under
  `~VaultLosesData` and `~Versionless`, that is, version numbers exist and only
  grow. Without them a manager may hold on to a secret that Vault no longer has (run
  `CredentialManager_reseed`): the hypothesis is not one of convenience.
- The inductive invariant is `HistoryInv`: `vault.version = vault.serial =
  vault.id`, the store is `Chronological` and not newer than Vault, and a running
  loop that is behind wakes before the bound: `steady + wake <= MaxBackoff`
  while Vault is good and the store is stale. The bound on `steady` alone is not
  inductive, because it does not say when the loop will look again.
- `CurrentStaysCached` and `CredentialKept` hold with hostile versions too, from
  `CachedInv`: a current version is that of some entry of the cache (`Pointed`).
- `EmptyHasAReason`, `RotationsAreCounted`, `ExpiryIsFinal`: under the two
  assumptions again, the first from `Explained`, which speaks of the version
  pointer where `EmptyIsExplained` speaks of the credential.
- `ImplementsPolling` (`PollingSpec`), under the same two: each action is a step of
  `PollingReplica`, or leaves what it shows alone. One action, `Refresh`, is a good
  poll or a bad one by `LoadOkIsGood`: a load succeeds exactly when Vault is up and
  its secret complete. The code also lets a load succeed that finds the version it
  has, without a look at the ttl; so `PollInv` adds to `HistoryInv` that the version
  served now was complete, that no pause runs without a loop, and that nothing is
  held between processes. `PollingIsDual`: a `PollingReplica` is a `DualCredential`, so
  `ImplementsDual` also follows by way of the schedule.

`GatewayClient_proofs`:

- `BreakerSafe` and `GaugeIsTrue` (`BreakerConsistent`, `GaugeTracksBreaker`) from
  `BreakerInv`, for any number of calls; `TypeCorrect`.
- `FailsFast` from `BreakerInv`, whose extra conjunct says that a half-open
  breaker is one whose timeout is over.
- `HonestAuthError` from `StableInv`, which ties the ghost `stable` of a call in
  flight to the credentials it read and the gateway still accepts.

`PaymentService_proofs`, for any number of replicas, keys, requests and entries:

- `TypeCorrect` from `Base`, which adds to the types what the sequences need: a
  cache is bounded and has one entry per key (`IsCache`), and a request's place,
  reply and wire agree (`Phased`). Most of it is about move_to_end and eviction as
  permutations and suffixes of a sequence.
- `InFlightCounts`: `InFlightIsExact` is inductive over `Base`. `GracefulExit`
  follows: a drain that ends at a count of zero has nobody left to lose.
- `TrueReplies` from `Truth`: besides replies and caches, a request whose charge is
  on its way back names a transaction of its own key. An id is a transaction of the
  ledger or was made up for a request that the gateway has refused (`StandsFor`), and
  neither ceases to be so.
- `DoubleChargesAreExplained` from `Once`. Of a key without an excuse there is at
  most one forwarded request (`Single`); it is on its way, or its answer is in the
  cache of its replica (`Kept`); every charge was made for a forwarded request
  (`ChargedFor`), and there is one (`ChargedOnce`). `Kept` is what makes `Single`
  inductive: the next request with the key meets the first one's answer.
- `ImplementsContract` (`ContractSpec`): `Charge`, `Complete` and `Replay` are the
  contract's `Charge` and `Answer` (a made-up id is the contract's `MadeUp`), all else leaves it alone or waives. `Outcomes` is
  `Base`, `Truth` and `Once` with two more parts: a request is answered only after the
  gateway has dealt with it, and its transaction says whether it was charged
  (`Orderly`); and every answer and cached entry of a key without an excuse has a
  source, an answered request that was sent to the gateway and has that transaction
  (`Sources`). With `Single` the source is the only request ever sent for
  its key: that is why answers agree and why no charge follows one.
- `ContractHasOneOutcome`: from the contract alone, all charges and answers of a key
  with a promise are one.
- `ExactlyOnceIfUndisturbed`: `Spec => []ChargedAtMostOnce` under `Undisturbed`: one
  replica that is not stopped, clients that wait for an answer, calls that all end
  with one, and a cache with room for every key. Then no key ever gets an excuse
  (`Unexcused`, inductive over `Base`); that nothing is evicted is the pigeonhole
  principle on a cache with one entry per key (`ShortEnough`). Drop `~CallsFail` and
  `PaymentService_retry` is the counterexample.

`VaultClient_proofs`: `TypeCorrect` and `ReadsAreHonest` (`OneAuditPerRead`, of what
`read_secret` itself records, and `GivesUpLast`; no run checks these two), from
`ReadInv`: a read under way has left no record yet.

`Replica_proofs`: `RTypeCorrect`, `LoadsRecorded` (`LoadsAreRecorded`) and
`ServesHonestly` (`ServesWithCredential`), for all durations; and `OnlyHungIsKilled`
under `PatientKubelet`: no more attempts than the liveness threshold, and a period
shorter than the pause between two polls. The deployment has 3, 5, 10 s and
30 s. The invariant `RInv` has a part for each concern. `ReadInv` is the client's.
`Notes` says that a load's own failure record is there exactly after a failed read,
and perhaps after an unusable secret. `Switches`, `Counters` and `Holdings` are the
types. `Serving` is why three probes are enough: the ticks an expired credential has
been served are at most the failures the kubelet has counted since, plus one for an
answer that was read before. `Patience` counts for the kubelet: the misses it has seen are at
most the pauses of the read under way, and a probe fits in before the next read.

`Rotation_proofs`, for any number of replicas, operators and rotations, with
`KeyGenerationFails` either way:

- `TypeCorrect`.
- `ReplicasPoll` (`ReplicaPolls`): for each replica, every step of the whole system,
  its own polls, those of the others, the scripts, the pods, Vault and the clock, is
  a step of its `PollingReplica` or a stutter. It needs that a replica that is down
  holds nothing (`DownEmpty`). `ReplicasAreDual` follows. With
  `ImplementsPolling` this ties the two models together: the replica for
  which `NoDowntime` is proved has the schedule the manager is proved to have.
- `LatestTaken` (`LatestAccepted`) and `OldKeyStaysRevoked` from `KeyInv`: a list of keys
  has the key in use, or is the shipped one and Vault has its first version (`Serves`),
  so that no list is the shipped one once something was written; while no write was lost and
  no two scripts ran at once, where the one running script stands determines which
  key is in use, what the secret holds, and what the pods have read (`Stage`); and a
  replaced key is nowhere and not the new key of anybody (`Replaced`).
- `NoDowntime` (`ZeroDowntime`) from `WindowInv`, under `LongPauses`: twice the cap of
  the backoff exceeds the wait by more than a tick (20 and 3 + 1 in the code). The
  invariant has two sides: from before the write until the wait is over both keys
  are in force and settled (`Window`); and a replica that is behind, with pauses
  that do not outlast the wait, polls before it is over: `waited + wake <=
  2 * delay - 1` (`InTime`). The right-hand side doubles with the pause, so a failed
  poll keeps it. Without `LongPauses` a replica at the cap would be
  late and not excused. The conclusion is about the key a replica serves; nothing of
  the proof speaks of its fallback.
- `PaymentsChangeNothing`: `PaySpec => Spec`, so that the theorems above hold with
  payments under way. `PaymentTypes` (`PayTypeOK`) rests on the history of versions,
  which only grows.
- `PaymentsInRotation` (`PaymentsTaken`) under `LongPauses` and `LongWait` (a wait of at
  least two ticks; it is three) from `PaymentInv` on top of `WindowInv`: a payment not
  sent late carries the latest key, or the old key of a script in its wait that lasts
  at least one tick longer than the payment may (`Covered`). Three steps matter: what is
  sent is bounded by `InTime`, the write turns the latest key into the old one of a
  wait that begins, and a tick takes from the payment what it adds to the wait.
  When the wait is over, nothing is covered any more.
- `FallbackNeverHelps` (`FallbackIsIdle`), with no hypothesis on the durations. `KeyInv`
  does not carry it: it speaks of the running script's two keys and gives up when a
  write is lost, while the fallback may be any older key and is just as useless
  after an accident. `RecentInv` survives lost writes and scripts cut short: versions
  in Vault have increasing keys (`Increasing`), and each set of keys, in the secret or
  in a pod, is `Recent`: it has no replaced key (`Clean`), or only the last one, and
  then all the sets have the key in use. What the deployment may do to
  those sets is said once (`CleanChange`), and every action cites it. From it, a pod
  that refuses one version refuses all before it (`RefusedSpends`); a previous
  credential is older than the one sent with it (`FallbacksOlder`, which the poll and
  the payment both need); and no step puts back into use what is `Spent`
  (`SpentStays`). So `AgainInv`, every second attempt carries a spent credential,
  is inductive.

`Middleware_proofs`: `TypeCorrect`, `AdmissionIsBounded` and `RefusalsAreDue`, from
the inductive invariant `MeterInv`. Neither bound is inductive, because neither
ties the ghost meter to what is in the buckets. `MeterInv` does, from both sides:
per client, `excess` and the (capped) balance together are at most a full bucket
per life of the bucket plus what the clock was set ahead, and at least a full
bucket minus what it was set back. `RepliesAreRecorded` (`AnsweredIsAudited`) rests on
the order of the `add_middleware` calls (`Wrapped`).

Assumptions are the named `ASSUME`s of the modules: positive intervals and
thresholds, a cap no shorter than the interval, a cache of at least two, at least one
replica. TLC evaluates them in every run. The hypotheses of single theorems
are named above. Inductive invariants were checked by TLC before they were proved.

Only model-checked: liveness (`RecoversWithVault`, `BreakerRecovers`, `ReadsEnd`,
`ReturnsToService`, `NotRejectedForEver`), which is beyond the prover, as ENABLED
and induction over data are. No module declares a RECURSIVE operator. The
properties of the runs that end in a violation (`ChargedAtMostOnce`, `ReadsRecover`,
`ServesThroughOutage`, `ScriptRuns`, `RecoversWithVault` after a reseed) are false.

## 6. Limits

- `load_credentials` is one step. Its duration (up to three request timeouts and
  1.5 s of sleep) is not counted in ticks, and a sleep ends on time.
- Outside `Middleware` the clock is monotonic; the code uses `time.time()`, which
  can be set back.
- In `Replica` requests to `/health/ready` that pile up in front of a blocked loop
  count as one. Of the pause between two polls only the least is fixed (`rest`).
- In `RotationPayments` a gateway that is unreachable is not modelled: `Return`
  stands for every end of a payment, with an answer or without one. The second
  attempt is not asked of the breaker, as in the code, and may be sent as late as
  the first attempt's time allows.
- In `Rotation` replicas fail a poll only because Vault is down; a rollback of the
  secret by hand is not modelled. A poll takes no time there. In the code three
  requests that hang take 30 s each before the poll has failed and the pause
  begins, so one poll of a Vault that hangs may use up what the wait has to spare for
  a failed poll: "covers one failed poll" is said of a Vault that refuses.
- `PodReplaces` takes the old pod of the mock out of the service and ends it in one
  step. `kubectl rollout status`, for which the script waits, does not wait for pods
  that are terminating; one that still answers then has the keys from before the
  patch. `FallbackIsIdle` and `PaymentsTaken` are said of a rollout that is really over.
- In `GatewayClient` and `PaymentService` the manager is reduced to the
  adoptions and the status it can show there.
- Amounts, currencies, tokens and message texts are not modelled. Two requests
  with one key are taken to be the same payment.
- An exception no handler catches (a gateway answer that is not JSON) leaves the
  middleware without a record or an id: modelled (`raised`), promised by no text,
  excluded from `AnsweredIsAudited`.

Not modelled: configuration and payload models (declarations), the Prometheus,
Alertmanager and Grafana manifests (rates over time series), setup, demo and
teardown scripts and CI (straight-line tooling; `demo.sh:203` repeats the pipeline
that stops the rotation script), the mock's random choice of approved or declined
and its metrics, the format of log records.

## 7. Plan

Done: all modules of section 2, their runs, and the proofs of section 5; every
safety property of a passing run has a theorem. Left:

- One model of a replica from Vault to reply: `CredentialManager`,
  `GatewayClient` and `PaymentService` meet now through `DualCredential`, the
  credential store and the outcomes of a call.

## 8. Running

In `src`'s sibling directory `tla`:

    tlc -config CredentialManager_contract.cfg MCCredentialManager.tla
    tlapm CredentialManager_proofs.tla

Each run of `PROJECT.json` names its module and configuration.
