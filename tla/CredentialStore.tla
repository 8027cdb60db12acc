-------------------------- MODULE CredentialStore --------------------------
(***************************************************************************)
(* The credential cache of CredentialManager (app/credential_manager.py)   *)
(* as a value: the bounded OrderedDict, the versions that point into it,   *)
(* and what _process_secret does to them.  Constant-level operators only:  *)
(* CredentialManager and GatewayClient give them a state.                  *)
(***************************************************************************)
EXTENDS Integers, Sequences

CONSTANTS MaxCacheSize,   \* MAX_CACHE_SIZE
          SoonThreshold   \* EXPIRY_SOON_THRESHOLD_SECONDS, in ticks

ASSUME MaxCacheSizeAssumption == MaxCacheSize \in Nat /\ MaxCacheSize >= 2
ASSUME SoonThresholdAssumption == SoonThreshold \in Nat

None == 0     \* Python's None, as a version or as a pointer into the cache
NoTtl == -1   \* a secret without a "ttl" field

(***************************************************************************)
(* A response of Vault is [id, version, payload, ttl]: id tells the writes *)
(* apart, version is the KV v2 metadata version (None when the response    *)
(* has none), payload says what is wrong with its fields.                  *)
(***************************************************************************)
AllPayloads == {"complete", "incomplete", "badTtl"}

\* left is the ttl minus the age of the credential, stopped at zero.
NoCredential == [key |-> None, version |-> None, id |-> 0, left |-> NoTtl]

EmptyStore == [cache |-> << >>, current |-> None, previous |-> None]

\* version, or int(time.time()) when there is none: a number that no version
\* and no other load shares, written as a negative one.
CacheKey(s) == IF s.version # None THEN s.version ELSE -s.id

CredentialOf(s) ==
  [key |-> CacheKey(s), version |-> s.version, id |-> s.id, left |-> s.ttl]

Positions(cache, k) == {i \in 1 .. Len(cache) : cache[i].key = k}

Lookup(cache, k) ==
  IF Positions(cache, k) = {}
  THEN NoCredential
  ELSE cache[CHOOSE i \in Positions(cache, k) : TRUE]

\* Assignment to a key of an OrderedDict: a key it holds keeps its place.
Put(cache, c) ==
  IF Positions(cache, c.key) = {}
  THEN Append(cache, c)
  ELSE [i \in 1 .. Len(cache) |-> IF cache[i].key = c.key THEN c ELSE cache[i]]

\* Mistakes in Evict: one entry too many is kept, or one too few; the newest
\* entry is dropped.
EvictLate(cache) ==
  IF Len(cache) <= MaxCacheSize + 1
  THEN cache
  ELSE SubSeq(cache, Len(cache) - MaxCacheSize, Len(cache))

EvictEarly(cache) ==
  IF Len(cache) < MaxCacheSize
  THEN cache
  ELSE SubSeq(cache, Len(cache) - MaxCacheSize + 2, Len(cache))

EvictNewest(cache) ==
  IF Len(cache) <= MaxCacheSize THEN cache ELSE SubSeq(cache, 1, MaxCacheSize)

\* popitem(last=False) until at most MaxCacheSize entries are left.
Evict(cache) ==
  IF Len(cache) <= MaxCacheSize
  THEN cache
  ELSE SubSeq(cache, Len(cache) - MaxCacheSize + 1, Len(cache))

FromEnd(cache, n) ==
  IF Len(cache) >= n THEN cache[Len(cache) - n + 1] ELSE NoCredential

\* get_current_credential
Current(m) ==
  IF m.current # None THEN Lookup(m.cache, m.current) ELSE FromEnd(m.cache, 1)

\* get_fallback_credential
Fallback(m) ==
  IF m.previous # None THEN Lookup(m.cache, m.previous) ELSE FromEnd(m.cache, 2)

\* Mistakes in Adopts: the version is not compared; only a first one is taken.
AdoptsAgain(m, s) == s.payload = "complete"
AdoptsOnce(m, s) == s.payload = "complete" /\ m.current = None

\* The response passes the missing-fields check and is not the current version;
\* a ttl that int() cannot parse raises before anything is assigned.
Adopts(m, s) == s.payload = "complete" /\ s.version # m.current

\* A mistake in Succeeds: missing fields are not an error.
SucceedsIncomplete(m, s) == s.version = m.current \/ s.payload # "badTtl"

\* _process_secret returns True: also for a version it already serves.
Succeeds(m, s) ==
  /\ s.payload # "incomplete"
  /\ s.version = m.current \/ s.payload # "badTtl"

\* A mistake in Adopted: _previous_version is moved after _current_version was.
AdoptedSwapped(m, s) ==
  [cache    |-> Evict(Put(m.cache, CredentialOf(s))),
   current  |-> s.version,
   previous |-> s.version]

Adopted(m, s) ==
  [cache    |-> Evict(Put(m.cache, CredentialOf(s))),
   current  |-> s.version,
   previous |-> m.current]

\* A mistake in Rotates: the first load is counted as a rotation.
RotatesAtFirstLoad(m, s) == Adopts(m, s)

\* credential_rotation_total and the audit event follow only such a change.
Rotates(m, s) == Adopts(m, s) /\ m.current # None

\* A mistake in Processed: a bad response clears the cache.
ProcessedClearing(m, s) ==
  IF Adopts(m, s) THEN Adopted(m, s) ELSE IF Succeeds(m, s) THEN m ELSE EmptyStore

Processed(m, s) == IF Adopts(m, s) THEN Adopted(m, s) ELSE m

\* One tick of the clock, seen through age_seconds.
OlderCredential(c) == [c EXCEPT !.left = IF c.left > 0 THEN c.left - 1 ELSE c.left]

Older(m) ==
  [cache    |-> [i \in 1 .. Len(m.cache) |-> OlderCredential(m.cache[i])],
   current  |-> m.current,
   previous |-> m.previous]

\* Credential.status, and CredentialManager.credential_status
StatusOf(c) ==
  IF c = NoCredential THEN "error"
  ELSE IF c.left = NoTtl THEN "valid"
  ELSE IF c.left <= 0 THEN "expired"
  ELSE IF c.left <= SoonThreshold THEN "expiring_soon"
  ELSE "valid"

HasValidCredentials(m) == StatusOf(Current(m)) \in {"valid", "expiring_soon"}
=============================================================================
