---------------------- MODULE CredentialManager_proofs ----------------------
(***************************************************************************)
(* Proofs about CredentialManager, for every interval, backoff cap, cache  *)
(* bound and set of ttls.  Type correctness, and that a manager keeps and  *)
(* serves what it has, hold whatever Vault does; the other theorems are    *)
(* about a Vault that keeps its data and reports its versions.             *)
(***************************************************************************)
EXTENDS CredentialManager, CredentialStore_proofs

\* The manager's stores are the stores of CredentialStore_proofs over its credentials.
LEMMA StoreSetIsStoreOf == StoreSet = StoreOf(CredentialSet)
  BY DEF StoreSet, StoreOf

\* A tick keeps a credential a credential and leaves its identity alone.
LEMMA OlderCredentialType ==
  ASSUME NEW c \in CredentialSet
  PROVE  /\ OlderCredential(c) \in CredentialSet
         /\ OlderCredential(c).key = c.key
         /\ OlderCredential(c).id = c.id
  BY DEF CredentialSet, OlderCredential, NoTtl

\* A tick keeps the type and the bound of a store.
LEMMA OlderType ==
  ASSUME NEW m \in StoreSet
  PROVE  Older(m) \in StoreSet /\ Len(Older(m).cache) = Len(m.cache)
<1> DEFINE old == [i \in 1 .. Len(m.cache) |-> OlderCredential(m.cache[i])]
<1>1. \A i \in 1 .. Len(m.cache) : m.cache[i] \in CredentialSet
  BY DEF StoreSet
<1>2. old \in Seq(CredentialSet) /\ Len(old) = Len(m.cache)
  BY <1>1, OlderCredentialType DEF StoreSet
<1>3. QED
  BY <1>2 DEF Older, StoreSet

\* What Vault holds becomes a well-typed cache entry.
LEMMA CredentialOfType ==
  ASSUME NEW s \in SecretSet PROVE CredentialOf(s) \in CredentialSet /\ s.version \in Nat
  BY DEF SecretSet, CredentialSet, CredentialOf, CacheKey, None

\* A processed response leaves a store of the right type within its bound.
LEMMA ProcessedType ==
  ASSUME NEW m \in StoreSet, Len(m.cache) <= MaxCacheSize, NEW s \in SecretSet
  PROVE  Processed(m, s) \in StoreSet /\ Len(Processed(m, s).cache) <= MaxCacheSize
<1>1. CredentialOf(s) \in CredentialSet /\ s.version \in Nat
  BY CredentialOfType
<1>2. m \in StoreOf(CredentialSet)
  BY StoreSetIsStoreOf
<1>3. Adopted(m, s) \in StoreSet /\ Len(Adopted(m, s).cache) <= MaxCacheSize
  BY <1>1, <1>2, AdoptedType, StoreSetIsStoreOf
<1>4. QED
  BY <1>3 DEF Processed

\* Doubling the delay stays between the interval and the cap.
LEMMA DoubledType ==
  ASSUME NEW d \in CheckInterval .. MaxBackoff
  PROVE  Doubled(d) \in CheckInterval .. MaxBackoff
  BY IntervalAssumption, BackoffAssumption DEF Doubled

\* The part of TypeOK that load_credentials may disturb.
LEMMA LoadType ==
  ASSUME TypeOK, LoadCredentials
  PROVE  /\ mgr' \in StoreSet /\ Len(mgr'.cache) <= MaxCacheSize
         /\ lastError' \in BOOLEAN
         /\ lastLoad' \in {"none", "ok", "failed"}
         /\ rotations' \in Nat
<1>1. mgr' \in StoreSet /\ Len(mgr'.cache) <= MaxCacheSize
  BY ProcessedType DEF TypeOK, LoadCredentials
<1>2. lastError' \in BOOLEAN
  BY Zenon DEF TypeOK, LoadCredentials, LoadOk, LoadAdopts, Adopts
<1>3. lastLoad' \in {"none", "ok", "failed"} /\ rotations' \in Nat
  BY DEF TypeOK, LoadCredentials
<1>4. QED
  BY <1>1, <1>2, <1>3

\* A new process has a well-typed, empty store.
LEMMA EmptyStoreType == EmptyStore \in StoreSet /\ Len(EmptyStore.cache) <= MaxCacheSize
<1>1. << >> \in Seq(CredentialSet) /\ Len(<< >>) = 0
  OBVIOUS
<1>2. QED
  BY <1>1, MaxCacheSizeAssumption DEF EmptyStore, StoreSet, None

\* What a writer or the init job puts into Vault is a secret.
LEMMA SecretType ==
  ASSUME NEW i \in Nat \ {0}, NEW n \in Nat \ {0}, NEW v \in Nat, NEW p \in AllPayloads,
         NEW t \in Ttls
  PROVE  Secret(i, n, v, p, t) \in SecretSet
  BY SecretAssumption DEF Secret, SecretSet

\* The initial state is well typed.
LEMMA TypeInit == Init => TypeOK
<1> SUFFICES ASSUME Init PROVE TypeOK
  OBVIOUS
<1>1. vault \in SecretSet
  BY SecretType DEF Init, AllPayloads
<1>2. vaultUp \in BOOLEAN /\ lastError \in BOOLEAN
  BY Zenon DEF Init, ProcessInit
<1>3. QED
  BY <1>1, <1>2, EmptyStoreType, IntervalAssumption, BackoffAssumption
  DEF Init, ProcessInit, TypeOK

\* Every action of the process, the clock and Vault keeps the state well typed.
LEMMA TypeStep == TypeOK /\ [Next]_vars => TypeOK'
<1> SUFFICES ASSUME TypeOK, [Next]_vars PROVE TypeOK'
  OBVIOUS
<1> USE IntervalAssumption, BackoffAssumption
<1>1. CASE Start
  BY <1>1, LoadType DEF TypeOK, Start, envVars
<1>2. CASE Refresh
  <2>1. NextDelay \in CheckInterval .. MaxBackoff
    BY DoubledType DEF TypeOK, NextDelay
  <2>2. QED
    BY <1>2, <2>1, LoadType DEF TypeOK, Refresh
<1>3. CASE Stop
  BY <1>3 DEF TypeOK, Stop
<1>4. CASE Exit
  <2>1. lastError' \in BOOLEAN
    BY <1>4, Zenon DEF Exit
  <2>2. QED
    BY <1>4, <2>1, EmptyStoreType DEF TypeOK, Exit, envVars
<1>5. CASE Tick
  BY <1>5, OlderType DEF TypeOK, Tick
<1>6. CASE Write
  <2>1. vault' \in SecretSet
    <3>1. PICK p \in Payloads, t \in Ttls, v \in VersionsOf(vault.serial + 1) :
            vault' = Secret(vault.id + 1, vault.serial + 1, v, p, t)
      BY <1>6 DEF Write
    <3>2. vault.id + 1 \in Nat \ {0} /\ vault.serial + 1 \in Nat \ {0}
      BY DEF TypeOK, SecretSet
    <3>3. v \in Nat
      BY <3>2 DEF VersionsOf, None
    <3>4. p \in AllPayloads
      BY SecretAssumption
    <3>5. QED
      BY <3>1, <3>2, <3>3, <3>4, SecretType
  <2>2. QED
    BY <1>6, <2>1 DEF TypeOK, Write, procVars
<1>7. CASE Outage \/ Restore
  <2>1. vaultUp' \in BOOLEAN
    BY <1>7, Zenon DEF Outage, Restore
  <2>2. QED
    BY <1>7, <2>1 DEF TypeOK, Outage, Restore, procVars
<1>8. CASE Reseed
  <2>1. vault' \in SecretSet
    <3>1. PICK t \in Ttls : vault' = Secret(vault.id + 1, 1, 1, "complete", t)
      BY <1>8 DEF Reseed
    <3>2. vault.id + 1 \in Nat \ {0} /\ "complete" \in AllPayloads
      BY DEF TypeOK, SecretSet, AllPayloads
    <3>3. QED
      BY <3>1, <3>2, SecretType
  <2>2. QED
    BY <1>8, <2>1 DEF TypeOK, Reseed, procVars
<1>9. CASE UNCHANGED vars
  BY <1>9 DEF TypeOK, vars
<1>10. QED
  BY <1>1, <1>2, <1>3, <1>4, <1>5, <1>6, <1>7, <1>8, <1>9 DEF Next

\* Every variable keeps its type, and the cache never holds more than
\* MaxCacheSize credentials, whatever Vault answers.
THEOREM TypeCorrect == Spec => []TypeOK
  BY TypeInit, TypeStep, PTL DEF Spec
-----------------------------------------------------------------------------
(* A Vault that keeps its data and reports its versions *)

\* The history of the secret is its version count, and the cache was filled in
\* that order.  A bound on steady alone is not inductive: what has to be kept is
\* that a loop that is behind wakes up before the bound is reached.
HistoryInv ==
  /\ TypeOK
  /\ vault.version = vault.id /\ vault.serial = vault.id
  /\ Chronological(mgr)
  /\ mgr.current <= vault.id
  /\ loop = "sleeping" /\ VaultGood /\ mgr.current # vault.id
       => steady + wake <= MaxBackoff

\* In such a history the served credentials are the two version pointers.
LEMMA ServedIds ==
  ASSUME HistoryInv
  PROVE  /\ Current(mgr).id = mgr.current /\ Fallback(mgr).id = mgr.previous
         /\ mgr.current \in Nat /\ mgr.previous \in Nat
         /\ vault.id \in Nat \ {0}
<1>1. mgr \in StoreOf(CredentialSet)
  BY StoreSetIsStoreOf DEF HistoryInv, TypeOK
<1>2. Current(mgr).id = mgr.current /\ Fallback(mgr).id = mgr.previous
  BY <1>1, ServedAt DEF HistoryInv
<1>3. QED
  BY <1>1, <1>2 DEF StoreOf, HistoryInv, TypeOK, SecretSet

\* A load leaves the pointers alone or moves both by one credential, and with a
\* good Vault it ends at the newest version.
LEMMA LoadInOrder ==
  ASSUME HistoryInv, LoadCredentials
  PROVE  /\ Chronological(mgr')
         /\ \/ mgr' = mgr
            \/ mgr'.current = vault.id /\ mgr'.previous = mgr.current /\ vault.id # mgr.current
         /\ VaultGood => mgr'.current = vault.id
<1>1. mgr \in StoreOf(CredentialSet) /\ Chronological(mgr)
  BY StoreSetIsStoreOf DEF HistoryInv, TypeOK
<1>2. vault.version = vault.id /\ vault.id \in Nat \ {0} /\ mgr.current <= vault.id
  BY DEF HistoryInv, TypeOK, SecretSet
<1>3. CASE vaultUp /\ Adopts(mgr, vault)
  <2>1. mgr' = Adopted(mgr, vault)
    BY <1>3 DEF LoadCredentials, Processed
  <2>2. vault.version > mgr.current /\ vault.version \in Nat \ {0} /\ mgr.current \in Nat
    BY <1>1, <1>2, <1>3 DEF Adopts, StoreOf
  <2>3. CredentialOf(vault) \in CredentialSet
    BY CredentialOfType DEF HistoryInv, TypeOK
  <2>4. /\ Chronological(Adopted(mgr, vault))
        /\ Adopted(mgr, vault).current = vault.version
        /\ Adopted(mgr, vault).previous = mgr.current
    BY <1>1, <1>2, <2>2, <2>3, AdoptedInOrder
  <2>5. QED
    BY <1>2, <2>1, <2>2, <2>4
<1>4. CASE ~(vaultUp /\ Adopts(mgr, vault))
  <2>1. mgr' = mgr
    BY <1>4 DEF LoadCredentials, Processed
  <2>2. VaultGood => mgr.current = vault.id
    BY <1>2, <1>4 DEF VaultGood, Adopts
  <2>3. QED
    BY <1>1, <2>1, <2>2
<1>5. QED
  BY <1>3, <1>4

\* A tick of the clock does not move the pointers.
LEMMA TickInOrder ==
  ASSUME HistoryInv, Tick
  PROVE  Chronological(mgr') /\ mgr'.current = mgr.current /\ mgr'.previous = mgr.previous
<1>1. mgr \in StoreOf(CredentialSet) /\ Chronological(mgr) /\ mgr' = Older(mgr)
  BY StoreSetIsStoreOf DEF HistoryInv, TypeOK, Tick
<1>2. \A c \in CredentialSet : /\ OlderCredential(c) \in CredentialSet
                               /\ OlderCredential(c).key = c.key
                               /\ OlderCredential(c).id = c.id
  BY OlderCredentialType
<1>3. Chronological(Older(mgr)) /\ Older(mgr).current = mgr.current
      /\ Older(mgr).previous = mgr.previous
  BY <1>1, <1>2, OlderInOrder
<1>4. QED
  BY <1>1, <1>3

\* The store of a new process is trivially in order.
LEMMA EmptyInOrder == Chronological(EmptyStore) /\ EmptyStore.current = 0 /\ EmptyStore.previous = 0
<1>1. Len(<< >>) = 0
  OBVIOUS
<1>2. QED
  BY <1>1 DEF Chronological, EmptyStore, None

\* The history starts with version 1 and an empty store.
LEMMA HistoryInit == Init => HistoryInv
<1> SUFFICES ASSUME Init PROVE HistoryInv
  OBVIOUS
<1>1. TypeOK
  BY TypeInit
<1>2. vault.id = 1 /\ vault.version = 1 /\ vault.serial = 1
  BY DEF Init, Secret
<1>3. QED
  BY <1>1, <1>2, EmptyInOrder DEF Init, ProcessInit, HistoryInv

\* Every action keeps the history in order and the refresh loop on schedule.
LEMMA HistoryStep ==
  ASSUME ~VaultLosesData, ~Versionless
  PROVE  HistoryInv /\ [Next]_vars => HistoryInv'
<1> SUFFICES ASSUME HistoryInv, [Next]_vars PROVE HistoryInv'
  OBVIOUS
<1> USE IntervalAssumption, BackoffAssumption
<1>1. TypeOK /\ TypeOK'
  BY TypeStep DEF HistoryInv
<1>2. /\ vault.id \in Nat \ {0} /\ mgr.current \in Nat /\ mgr'.current \in Nat
      /\ steady \in 0 .. MaxBackoff + 1 /\ wake \in 0 .. MaxBackoff
      /\ steady' \in 0 .. MaxBackoff + 1 /\ wake' \in 0 .. MaxBackoff
  BY <1>1 DEF TypeOK, SecretSet, StoreSet
<1>3. CASE Start \/ Refresh
  <2>1. LoadCredentials /\ UNCHANGED <<vault, vaultUp>>
    BY <1>3 DEF Start, Refresh, envVars
  <2>2. mgr'.current <= vault.id
    BY <1>2, <2>1, LoadInOrder DEF HistoryInv
  <2>3. Chronological(mgr') /\ (VaultGood => mgr'.current = vault.id)
    BY <2>1, LoadInOrder
  <2>4. VaultGood' = VaultGood
    BY <2>1 DEF VaultGood
  <2>5. QED
    BY <1>1, <2>1, <2>2, <2>3, <2>4 DEF HistoryInv
<1>4. CASE Stop
  BY <1>1, <1>4 DEF HistoryInv, Stop
<1>5. CASE Exit
  BY <1>1, <1>2, <1>5, EmptyInOrder DEF HistoryInv, Exit, envVars
<1>6. CASE Tick
  <2>1. UNCHANGED <<vault, vaultUp, loop>> /\ VaultGood' = VaultGood
    BY <1>6 DEF Tick, VaultGood
  <2>2. loop = "sleeping" /\ VaultGood /\ mgr.current # vault.id
          => steady' + wake' <= MaxBackoff
    <3> SUFFICES ASSUME loop = "sleeping", VaultGood, mgr.current # vault.id
                 PROVE  steady' + wake' <= MaxBackoff
      OBVIOUS
    <3>1. steady + wake <= MaxBackoff
      BY DEF HistoryInv
    <3>2. wake > 0 /\ wake' = wake - 1 /\ steady' = steady + 1
      BY <1>2, <1>6, <3>1 DEF Tick
    <3>3. QED
      BY <1>2, <3>1, <3>2
  <2>3. QED
    BY <1>1, <1>6, <2>1, <2>2, TickInOrder DEF HistoryInv
<1>7. CASE Write
  <2>1. vault'.id = vault.id + 1 /\ vault'.serial = vault'.id /\ vault'.version = vault'.id
    BY <1>7 DEF Write, VersionsOf, Secret, HistoryInv
  <2>2. steady' = 0 /\ UNCHANGED <<mgr, loop, wake>>
    BY <1>7 DEF Write, procVars
  <2>3. QED
    BY <1>1, <1>2, <2>1, <2>2 DEF HistoryInv
<1>8. CASE Outage \/ Restore
  <2>1. steady' = 0 /\ UNCHANGED <<vault, mgr, loop, wake>>
    BY <1>8, Zenon DEF Outage, Restore, procVars
  <2>2. steady' + wake' <= MaxBackoff
    BY <1>2, <2>1
  <2>3. QED
    BY <1>1, <2>1, <2>2 DEF HistoryInv
<1>9. CASE Reseed
  BY <1>9 DEF Reseed
<1>10. CASE UNCHANGED vars
  BY <1>1, <1>10 DEF HistoryInv, vars, VaultGood
<1>11. QED
  BY <1>3, <1>4, <1>5, <1>6, <1>7, <1>8, <1>9, <1>10 DEF Next

\* A running loop that has been offered a good secret for more than MaxBackoff
\* ticks serves it, however many failures came before.
THEOREM FreshnessBound ==
  ASSUME ~VaultLosesData, ~Versionless
  PROVE  Spec => []FreshWithinMaxBackoff
<1>1. HistoryInv => FreshWithinMaxBackoff
  <2> SUFFICES ASSUME HistoryInv, loop = "sleeping", VaultGood, steady > MaxBackoff
               PROVE  Fresh
    BY DEF FreshWithinMaxBackoff
  <2>1. steady \in Nat /\ wake \in Nat /\ MaxBackoff \in Nat
    BY BackoffAssumption DEF HistoryInv, TypeOK
  <2>2. mgr.current = vault.id
    BY <2>1 DEF HistoryInv
  <2>3. QED
    BY <2>2, ServedIds DEF Fresh
<1>2. QED
  BY <1>1, HistoryInit, HistoryStep, PTL DEF Spec

\* What one step may do to the three credentials of the contract.
LEMMA ServedStep ==
  ASSUME ~VaultLosesData, ~Versionless, HistoryInv, HistoryInv', [Next]_vars
  PROVE  \/ UNCHANGED <<vault, Current(mgr).id, Fallback(mgr).id>>
         \/ /\ vault'.id = vault.id + 1
            /\ UNCHANGED <<Current(mgr).id, Fallback(mgr).id>>
         \/ /\ Current(mgr).id # vault.id /\ Current(mgr').id = vault.id
            /\ Fallback(mgr').id = Current(mgr).id /\ UNCHANGED vault
         \/ /\ Current(mgr').id = 0 /\ Fallback(mgr').id = 0
            /\ loop' = "off" /\ UNCHANGED vault
<1>1. Current(mgr).id = mgr.current /\ Fallback(mgr).id = mgr.previous
  BY ServedIds
<1>2. Current(mgr').id = mgr'.current /\ Fallback(mgr').id = mgr'.previous
  <2>1. mgr' \in StoreOf(CredentialSet) /\ Chronological(mgr')
    BY StoreSetIsStoreOf DEF HistoryInv, TypeOK
  <2>2. QED
    BY <2>1, ServedAt
<1>3. CASE Start \/ Refresh
  <2>1. LoadCredentials /\ UNCHANGED vault
    BY <1>3 DEF Start, Refresh, envVars
  <2>2. \/ mgr' = mgr
        \/ mgr'.current = vault.id /\ mgr'.previous = mgr.current /\ vault.id # mgr.current
    BY <2>1, LoadInOrder
  <2>3. QED
    BY <1>1, <1>2, <2>1, <2>2
<1>4. CASE Stop
  BY <1>4 DEF Stop
<1>5. CASE Exit
  BY <1>2, <1>5, EmptyInOrder DEF Exit, envVars
<1>6. CASE Tick
  BY <1>1, <1>2, <1>6, TickInOrder DEF Tick
<1>7. CASE Write
  BY <1>7 DEF Write, Secret, procVars
<1>8. CASE Outage \/ Restore
  BY <1>8 DEF Outage, Restore, procVars
<1>9. CASE Reseed
  BY <1>9 DEF Reseed
<1>10. CASE UNCHANGED vars
  BY <1>10 DEF vars
<1>11. QED
  BY <1>3, <1>4, <1>5, <1>6, <1>7, <1>8, <1>9, <1>10 DEF Next

\* Replacing the served credential always leaves the replaced one as fallback.
THEOREM WindowHasNoHole ==
  ASSUME ~VaultLosesData, ~Versionless
  PROVE  Spec => RotationKeepsOld
<1>1. HistoryInv /\ HistoryInv' /\ [Next]_vars =>
        [LET old == Current(mgr)
             new == Current(mgr')
         IN  old # NoCredential /\ loop' # "off" /\ new.id # old.id
               => Fallback(mgr').id = old.id]_vars
  BY ServedStep
<1>2. QED
  BY <1>1, HistoryInit, HistoryStep, PTL DEF Spec, RotationKeepsOld

\* The manager implements the dual-credential contract: its initial state is an
\* initial state of the contract and each of its steps is one of the contract's
\* steps or changes none of the contract's variables.
THEOREM ImplementsDual ==
  ASSUME ~VaultLosesData, ~Versionless
  PROVE  Spec => DualSpec
<1>1. Init => Dual!Init
  <2> SUFFICES ASSUME Init PROVE Dual!Init
    OBVIOUS
  <2>1. HistoryInv /\ mgr = EmptyStore
    BY HistoryInit DEF Init, ProcessInit
  <2>2. vault.id = 1
    BY DEF Init, Secret
  <2>3. QED
    BY <2>1, <2>2, ServedIds, EmptyInOrder DEF Dual!Init
<1>2. HistoryInv /\ HistoryInv' /\ [Next]_vars => [Dual!Next]_(Dual!vars)
  <2> SUFFICES ASSUME HistoryInv, HistoryInv', [Next]_vars
               PROVE  [Dual!Next]_(Dual!vars)
    OBVIOUS
  <2>1. vault.id \in Nat
    BY ServedIds
  <2>2. CASE UNCHANGED <<vault, Current(mgr).id, Fallback(mgr).id>>
    BY <2>2 DEF Dual!vars
  <2>3. CASE /\ vault'.id = vault.id + 1
             /\ UNCHANGED <<Current(mgr).id, Fallback(mgr).id>>
    BY <2>1, <2>3 DEF Dual!Next, Dual!Publish
  <2>4. CASE /\ Current(mgr).id # vault.id /\ Current(mgr').id = vault.id
             /\ Fallback(mgr').id = Current(mgr).id /\ UNCHANGED vault
    BY <2>4 DEF Dual!Next, Dual!Adopt
  <2>5. CASE /\ Current(mgr').id = 0 /\ Fallback(mgr').id = 0
             /\ loop' = "off" /\ UNCHANGED vault
    BY <2>5 DEF Dual!Next, Dual!Forget
  <2>6. QED
    BY <2>2, <2>3, <2>4, <2>5, ServedStep
<1>3. QED
  BY <1>1, <1>2, HistoryInit, HistoryStep, PTL DEF Spec, DualSpec, Dual!Spec

\* The served credential is never newer than Vault's and the fallback is
\* strictly older than the served one.
THEOREM WindowLooksBack ==
  ASSUME ~VaultLosesData, ~Versionless
  PROVE  Spec => []DualOrdered
<1>1. HistoryInv => DualOrdered
  <2> SUFFICES ASSUME HistoryInv PROVE DualOrdered
    OBVIOUS
  <2>1. PICK n \in Nat : n = Len(mgr.cache)
    BY DEF HistoryInv, TypeOK, StoreSet
  <2>2. \A i \in 1 .. n : mgr.cache[i].key \in Nat \ {0}
    BY <2>1 DEF HistoryInv, Chronological
  <2>3. mgr.current = 0 => mgr.previous = 0
    <3>1. n >= 1 => n \in 1 .. n
      OBVIOUS
    <3>2. n >= 1 => mgr.current # 0
      BY <2>1, <2>2, <3>1 DEF HistoryInv, Chronological
    <3>3. ~(n >= 1) => mgr.previous = 0
      BY <2>1 DEF HistoryInv, Chronological, None
    <3>4. QED
      BY <3>2, <3>3
  <2>4. mgr.current # 0 => mgr.previous < mgr.current
    <3>1. n >= 2 => n \in 1 .. n /\ n - 1 \in 1 .. n /\ n - 1 < n
      OBVIOUS
    <3>2. n >= 2 => mgr.previous < mgr.current
      BY <2>1, <3>1 DEF HistoryInv, Chronological
    <3>3. ~(n >= 2) => mgr.previous = 0
      BY <2>1 DEF HistoryInv, Chronological, None
    <3>4. QED
      BY <3>2, <3>3, ServedIds
  <2>5. mgr.current <= vault.id
    BY DEF HistoryInv
  <2>6. QED
    BY <2>3, <2>4, <2>5, ServedIds DEF DualOrdered, Dual!Ordered
<1>2. QED
  BY <1>1, HistoryInit, HistoryStep, PTL DEF Spec
-----------------------------------------------------------------------------
(* The manager and its loop as a PollingReplica *)

\* The contract lets a load succeed exactly when Vault is good.  In the code it
\* also succeeds, without a look at the ttl, when the version is the one it has;
\* that this version was complete when it was adopted is what has to be kept.
\* Between processes nothing is held, and without a loop no pause is running.
PollInv ==
  /\ HistoryInv
  /\ mgr.current = vault.id => vault.payload = "complete"
  /\ loop # "sleeping" => wake = 0
  /\ loop = "off" => mgr.current = 0

\* Then a load succeeds exactly when Vault is good.
LEMMA LoadOkIsGood ==
  ASSUME PollInv
  PROVE  LoadOk <=> VaultGood
<1>1. vault.version = vault.id /\ mgr.current \in Nat /\ vault.id \in Nat \ {0}
  BY ServedIds DEF PollInv, HistoryInv
<1>2. CASE vault.payload = "complete"
  BY <1>2 DEF LoadOk, VaultGood, Succeeds
<1>3. CASE vault.payload # "complete"
  <2>1. vault.payload \in {"incomplete", "badTtl"} /\ vault.version # mgr.current
    BY <1>1, <1>3 DEF PollInv, HistoryInv, TypeOK, SecretSet, AllPayloads
  <2>2. QED
    BY <1>3, <2>1 DEF LoadOk, VaultGood, Succeeds
<1>4. QED
  BY <1>2, <1>3

\* A load is one of the contract's, and keeps what PollInv says of the secret.
LEMMA LoadPolls ==
  ASSUME PollInv, HistoryInv', LoadCredentials, UNCHANGED <<vault, vaultUp>>
  PROVE  Polling!Load /\ (mgr'.current = vault.id => vault.payload = "complete")
<1>1. Current(mgr).id = mgr.current /\ Fallback(mgr).id = mgr.previous
  BY ServedIds DEF PollInv
<1>2. Current(mgr').id = mgr'.current /\ Fallback(mgr').id = mgr'.previous
  <2>1. mgr' \in StoreOf(CredentialSet) /\ Chronological(mgr')
    BY StoreSetIsStoreOf DEF HistoryInv, TypeOK
  <2>2. QED
    BY <2>1, ServedAt
<1>3. CASE vaultUp /\ Adopts(mgr, vault)
  <2>1. VaultGood
    BY <1>3 DEF Adopts, VaultGood
  <2>2. mgr'.current = vault.id /\ mgr'.previous = mgr.current /\ vault.id # mgr.current
    <3>1. mgr' # mgr
      BY <1>3 DEF LoadCredentials, Processed, Adopted, Adopts
    <3>2. QED
      BY <3>1, LoadInOrder DEF PollInv
  <2>3. QED
    BY <1>1, <1>2, <2>1, <2>2 DEF Polling!Load, Polling!Adopt, VaultGood
<1>4. CASE ~(vaultUp /\ Adopts(mgr, vault))
  <2>1. mgr' = mgr
    BY <1>4 DEF LoadCredentials, Processed
  <2>2. VaultGood => mgr.current = vault.id
    BY <2>1, LoadInOrder DEF PollInv
  <2>3. QED
    BY <1>1, <2>1, <2>2 DEF Polling!Load, PollInv
<1>5. QED
  BY <1>3, <1>4

\* What each action does in the contract: PollInv is kept, and the step is one
\* of the contract's or changes none of its variables.
LEMMA PollStep ==
  ASSUME ~VaultLosesData, ~Versionless, PollInv, [Next]_vars
  PROVE  PollInv' /\ [Polling!PollNext]_(Polling!pollVars)
<1> USE IntervalAssumption, BackoffAssumption
<1>1. HistoryInv /\ HistoryInv'
  BY HistoryStep DEF PollInv
<1>2. Current(mgr).id = mgr.current /\ Fallback(mgr).id = mgr.previous
      /\ mgr.current \in Nat /\ mgr.previous \in Nat /\ vault.id \in Nat \ {0}
  BY <1>1, ServedIds
<1>3. Current(mgr').id = mgr'.current /\ Fallback(mgr').id = mgr'.previous
  <2>1. mgr' \in StoreOf(CredentialSet) /\ Chronological(mgr')
    BY <1>1, StoreSetIsStoreOf DEF HistoryInv, TypeOK
  <2>2. QED
    BY <2>1, ServedAt
<1>4. CASE Start
  <2>1. LoadCredentials /\ UNCHANGED <<vault, vaultUp>>
    BY <1>4 DEF Start, envVars
  <2>2. Polling!Load /\ (mgr'.current = vault.id => vault.payload = "complete")
    BY <1>1, <2>1, LoadPolls
  <2>3. PollInv'
    BY <1>1, <1>4, <2>1, <2>2 DEF PollInv, Start
  <2>4. VaultGood' = VaultGood
    BY <2>1 DEF VaultGood
  <2>5. Polling!Start
    BY <1>2, <1>4, <2>2, <2>4 DEF Polling!Start, Polling!Pause, Start, PollInv
  <2>6. QED
    BY <2>3, <2>5 DEF Polling!PollNext
<1>5. CASE Refresh
  <2>1. LoadCredentials /\ UNCHANGED <<vault, vaultUp>>
    BY <1>5 DEF Refresh
  <2>2. Polling!Load /\ (mgr'.current = vault.id => vault.payload = "complete")
    BY <1>1, <2>1, LoadPolls
  <2>3. PollInv'
    BY <1>1, <1>5, <2>1, <2>2 DEF PollInv, Refresh
  <2>4. VaultGood' = VaultGood
    BY <2>1 DEF VaultGood
  <2>5. NextDelay = IF VaultGood THEN CheckInterval ELSE Polling!Longer
    BY LoadOkIsGood DEF NextDelay, Doubled, Polling!Longer
  <2>6. Polling!Poll
    BY <1>5, <2>2, <2>4, <2>5 DEF Polling!Poll, Polling!Pause, Refresh
  <2>7. QED
    BY <2>3, <2>6 DEF Polling!PollNext
<1>6. CASE Stop
  <2>1. PollInv'
    BY <1>1, <1>6 DEF PollInv, Stop
  <2>2. Polling!Stop
    BY <1>6 DEF Polling!Stop, Stop, VaultGood
  <2>3. QED
    BY <2>1, <2>2 DEF Polling!PollNext
<1>7. CASE Exit
  <2>1. mgr'.current = 0 /\ mgr'.previous = 0 /\ UNCHANGED <<vault, vaultUp>>
    BY <1>7, EmptyInOrder DEF Exit, envVars
  <2>2. PollInv'
    BY <1>1, <1>2, <1>7, <2>1 DEF PollInv, Exit
  <2>3. Polling!Exit
    BY <1>3, <1>7, <2>1 DEF Polling!Exit, Polling!Forget, Exit, VaultGood
  <2>4. QED
    BY <2>2, <2>3 DEF Polling!PollNext
<1>8. CASE Tick
  <2>1. mgr'.current = mgr.current /\ mgr'.previous = mgr.previous
    BY <1>1, <1>8, TickInOrder
  <2>2. UNCHANGED <<vault, vaultUp, loop, delay>> /\ VaultGood' = VaultGood
    BY <1>8 DEF Tick, VaultGood
  <2>3. wake \in Nat
    BY <1>1 DEF HistoryInv, TypeOK
  <2>4. CASE loop = "sleeping"
    <3>1. Polling!Tick
      BY <1>2, <1>3, <1>8, <2>1, <2>2, <2>3, <2>4 DEF Polling!Tick, Tick
    <3>2. QED
      BY <1>1, <2>1, <2>2, <2>4, <3>1 DEF PollInv, Polling!PollNext
  <2>5. CASE loop # "sleeping"
    <3>1. wake = 0 /\ wake' = 0
      BY <1>8, <2>5 DEF PollInv, Tick
    <3>2. UNCHANGED Polling!pollVars
      BY <1>2, <1>3, <2>1, <2>2, <3>1 DEF Polling!pollVars
    <3>3. QED
      BY <1>1, <2>1, <2>2, <3>1, <3>2 DEF PollInv
  <2>6. QED
    BY <2>4, <2>5
<1>9. CASE Write
  <2>1. vault'.id = vault.id + 1 /\ UNCHANGED <<mgr, loop, wake, delay>>
    BY <1>9 DEF Write, Secret, procVars
  <2>2. mgr'.current # vault'.id
    BY <1>1, <1>2, <2>1 DEF HistoryInv
  <2>3. PollInv'
    BY <1>1, <2>1, <2>2 DEF PollInv
  <2>4. VaultGood' \in BOOLEAN
    BY Zenon DEF VaultGood
  <2>5. Polling!PublishAny
    BY <1>2, <2>1, <2>4 DEF Polling!PublishAny, Polling!Publish, Polling!loopVars
  <2>6. QED
    BY <2>3, <2>5 DEF Polling!PollNext
<1>10. CASE Outage \/ Restore
  <2>1. UNCHANGED <<vault, mgr, loop, wake, delay>> /\ vaultUp' = ~vaultUp
    BY <1>10 DEF Outage, Restore, procVars
  <2>2. PollInv'
    BY <1>1, <2>1 DEF PollInv
  <2>3. CASE vault.payload = "complete"
    <3>1. VaultGood' = ~VaultGood
      BY <2>1, <2>3 DEF VaultGood
    <3>2. Polling!VaultChanges
      BY <2>1, <3>1 DEF Polling!VaultChanges, Polling!loopVars
    <3>3. QED
      BY <2>2, <3>2 DEF Polling!PollNext
  <2>4. CASE vault.payload # "complete"
    <3>1. VaultGood' = VaultGood
      BY <2>1, <2>4 DEF VaultGood
    <3>2. UNCHANGED Polling!pollVars
      BY <2>1, <3>1 DEF Polling!pollVars
    <3>3. QED
      BY <2>2, <3>2
  <2>5. QED
    BY <2>3, <2>4
<1>11. CASE Reseed
  BY <1>11 DEF Reseed
<1>12. CASE UNCHANGED vars
  <2>1. UNCHANGED Polling!pollVars
    BY <1>12 DEF vars, Polling!pollVars, VaultGood
  <2>2. QED
    BY <1>1, <1>12, <2>1 DEF vars, PollInv
<1>13. QED
  BY <1>4, <1>5, <1>6, <1>7, <1>8, <1>9, <1>10, <1>11, <1>12 DEF Next

\* The manager and its refresh loop implement PollingReplica, the contract on
\* whose timing the rotation script depends: no step adopts a credential that is
\* not complete, misses one that is, or pauses longer or shorter than promised.
THEOREM ImplementsPolling ==
  ASSUME ~VaultLosesData, ~Versionless
  PROVE  Spec => PollingSpec
<1>1. Init => PollInv /\ Polling!PollInit
  <2> SUFFICES ASSUME Init PROVE PollInv /\ Polling!PollInit
    OBVIOUS
  <2>1. HistoryInv /\ mgr = EmptyStore /\ loop = "off" /\ wake = 0 /\ delay = CheckInterval
    BY HistoryInit DEF Init, ProcessInit
  <2>2. vault.id = 1
    BY DEF Init, Secret
  <2>3. PollInv
    BY <2>1, <2>2, EmptyInOrder DEF PollInv
  <2>4. VaultGood \in BOOLEAN
    BY Zenon DEF VaultGood
  <2>5. Polling!PollInit
    BY <2>1, <2>2, <2>4, ServedIds, EmptyInOrder DEF Polling!PollInit, Polling!Init
  <2>6. QED
    BY <2>3, <2>5
<1>2. QED
  BY <1>1, PollStep, PTL DEF Spec, PollingSpec, Polling!PollSpec

\* A PollingReplica is a DualCredential: its loads are Adopt or nothing, its end
\* is Forget, and every other step leaves the contract's three variables alone.
THEOREM PollingIsDual == PollingSpec => DualSpec
<1>1. Polling!PollInit => Dual!Init
  BY DEF Polling!PollInit, Polling!Init, Dual!Init
<1>2. [Polling!PollNext]_(Polling!pollVars) => [Dual!Next]_(Dual!vars)
  BY DEF Polling!PollNext, Polling!Start, Polling!Poll, Polling!Tick, Polling!Stop, Polling!Exit,
     Polling!PublishAny, Polling!VaultChanges, Polling!Load, Polling!pollVars, Polling!Adopt,
     Polling!Publish, Polling!Forget, Dual!Next, Dual!vars, Dual!Adopt, Dual!Publish, Dual!Forget
<1>3. QED
  BY <1>1, <1>2, PTL DEF PollingSpec, Polling!PollSpec, DualSpec, Dual!Spec
-----------------------------------------------------------------------------
(* The served credential, whatever Vault answers *)

\* _current_version, when it is set, is in the cache.
Pointed(m) == m.current # None => Positions(m.cache, m.current) # {}

CachedInv == TypeOK /\ Pointed(mgr)

\* Then a store serves a credential exactly when it holds one.
LEMMA PointedServes ==
  ASSUME NEW m \in StoreSet, Pointed(m)
  PROVE  Current(m) # NoCredential <=> m.cache # << >>
<1>1. PICK n \in Nat : n = Len(m.cache) /\ \A i \in 1 .. n : m.cache[i] \in CredentialSet
  BY DEF StoreSet
<1>2. NoCredential \notin CredentialSet
  BY DEF NoCredential, None, CredentialSet
<1>3. m.cache = << >> <=> n = 0
  BY <1>1 DEF StoreSet
<1>4. CASE m.current # None
  <2>1. Positions(m.cache, m.current) # {}
    BY <1>4 DEF Pointed
  <2>2. PICK i \in 1 .. n : Lookup(m.cache, m.current) = m.cache[i]
    <3> DEFINE i == CHOOSE j \in Positions(m.cache, m.current) : TRUE
    <3>1. i \in Positions(m.cache, m.current)
      BY <2>1
    <3>2. i \in 1 .. n /\ Lookup(m.cache, m.current) = m.cache[i]
      BY <1>1, <2>1, <3>1 DEF Lookup, Positions
    <3>3. QED
      BY <3>2
  <2>3. QED
    BY <1>1, <1>2, <1>3, <1>4, <2>2 DEF Current
<1>5. CASE m.current = None
  <2>1. Current(m) = IF n >= 1 THEN m.cache[n] ELSE NoCredential
    BY <1>1, <1>5 DEF Current, FromEnd
  <2>2. n >= 1 => n \in 1 .. n
    OBVIOUS
  <2>3. QED
    BY <1>1, <1>2, <1>3, <2>1, <2>2
<1>6. QED
  BY <1>4, <1>5

\* What is adopted is in the cache: the eviction takes from the other end.
LEMMA AdoptedPointed ==
  ASSUME NEW m \in StoreSet, Len(m.cache) <= MaxCacheSize, NEW s \in SecretSet
  PROVE  Pointed(Adopted(m, s)) /\ Adopted(m, s).cache # << >>
<1> USE MaxCacheSizeAssumption
<1> DEFINE c == CredentialOf(s)
           new == Adopted(m, s).cache
<1>1. PICK n \in Nat : n = Len(m.cache) /\ n <= MaxCacheSize
  BY DEF StoreSet
<1>2. c \in CredentialSet /\ m.cache \in Seq(CredentialSet)
  BY CredentialOfType DEF StoreSet
<1>3. new = Evict(Put(m.cache, c)) /\ Adopted(m, s).current = s.version
  BY DEF Adopted
<1>4. c.key = IF s.version # None THEN s.version ELSE -s.id
  BY DEF CredentialOf, CacheKey
<1> HIDE DEF c, new
<1>5. \E i \in 1 .. Len(new) : new[i] = c
  <2>1. CASE Positions(m.cache, c.key) = {}
    <3>1. PICK long : long = Append(m.cache, c)
      OBVIOUS
    <3>2. new = Evict(long)
      BY <1>3, <2>1, <3>1 DEF Put
    <3>3. PICK l \in Nat : l >= 1 /\ long \in Seq(CredentialSet) /\ Len(long) = l /\ long[l] = c
      BY <1>1, <1>2, <3>1
    <3>4. PICK len, k \in Nat : /\ Len(Evict(long)) = len
                                /\ len + k = l
                                /\ len = l \/ len = MaxCacheSize
                                /\ \A i \in 1 .. len : Evict(long)[i] = long[i + k]
      BY <3>3, EvictSuffix, Zenon
    <3>5. len \in 1 .. len /\ len + k = l
      BY <3>3, <3>4
    <3>6. Len(new) = len /\ new[len] = c
      BY <3>2, <3>3, <3>4, <3>5
    <3>7. QED
      BY <3>5, <3>6
  <2>2. CASE Positions(m.cache, c.key) # {}
    <3>1. PICK put : put = [i \in 1 .. n |-> IF m.cache[i].key = c.key THEN c ELSE m.cache[i]]
      OBVIOUS
    <3>2. Put(m.cache, c) = put
      BY <1>1, <2>2, <3>1 DEF Put
    <3>3. put \in [1 .. n -> CredentialSet]
      BY <1>1, <1>2, <3>1
    <3>4. put \in Seq(CredentialSet) /\ Len(put) = n
      BY <3>3
    <3>5. new = put
      BY <1>1, <1>3, <3>2, <3>4 DEF Evict
    <3>6. PICK i \in 1 .. n : m.cache[i].key = c.key
      BY <1>1, <2>2 DEF Positions
    <3>7. put[i] = c
      BY <3>1, <3>6
    <3>8. QED
      BY <3>4, <3>5, <3>7
  <2>3. QED
    BY <2>1, <2>2
<1>6. PICK i \in 1 .. Len(new) : new[i] = c
  BY <1>5
<1>7. s.version # None => i \in Positions(new, s.version)
  BY <1>4, <1>6 DEF Positions
<1>8. Adopted(m, s).cache = new
  BY DEF new
<1>9. new # << >>
  BY <1>6
<1>10. QED
  BY <1>3, <1>7, <1>8, <1>9 DEF Pointed

\* A tick changes no key.
LEMMA OlderPointed ==
  ASSUME NEW m \in StoreSet, Pointed(m)
  PROVE  Pointed(Older(m)) /\ (Older(m).cache = << >> <=> m.cache = << >>)
<1>1. PICK n \in Nat : n = Len(m.cache) /\ \A i \in 1 .. n : m.cache[i] \in CredentialSet
  BY DEF StoreSet
<1>2. PICK old : old = [i \in 1 .. n |-> OlderCredential(m.cache[i])]
  OBVIOUS
<1>3. Older(m).cache = old /\ Older(m).current = m.current
  BY <1>1, <1>2 DEF Older
<1>4. Len(old) = n /\ \A i \in 1 .. n : old[i].key = m.cache[i].key
  BY <1>1, <1>2, OlderCredentialType
<1>5. Positions(old, m.current) = Positions(m.cache, m.current)
  BY <1>1, <1>4 DEF Positions
<1>6. old = << >> <=> m.cache = << >>
  BY <1>1, <1>2, <1>4 DEF StoreSet
<1>7. QED
  BY <1>3, <1>5, <1>6 DEF Pointed

\* No step but the end of the process empties the cache or loses the pointer.
LEMMA CachedStep ==
  ASSUME CachedInv, [Next]_vars
  PROVE  CachedInv' /\ (loop' # "off" /\ mgr.cache # << >> => mgr'.cache # << >>)
<1>1. TypeOK' /\ mgr \in StoreSet /\ Len(mgr.cache) <= MaxCacheSize /\ vault \in SecretSet
  BY TypeStep DEF CachedInv, TypeOK
<1>2. CASE Start \/ Refresh
  <2>1. mgr' = mgr \/ mgr' = Adopted(mgr, vault)
    BY <1>2 DEF Start, Refresh, LoadCredentials, Processed
  <2>2. Pointed(mgr') /\ (mgr.cache # << >> => mgr'.cache # << >>)
    BY <1>1, <2>1, AdoptedPointed DEF CachedInv
  <2>3. QED
    BY <1>1, <2>2 DEF CachedInv
<1>3. CASE Exit
  BY <1>1, <1>3 DEF CachedInv, Exit, EmptyStore, Pointed
<1>4. CASE Tick
  <2>1. mgr' = Older(mgr)
    BY <1>4 DEF Tick
  <2>2. Pointed(mgr') /\ (mgr'.cache = << >> <=> mgr.cache = << >>)
    BY <1>1, <2>1, OlderPointed DEF CachedInv
  <2>3. QED
    BY <1>1, <2>2 DEF CachedInv
<1>5. CASE mgr' = mgr
  BY <1>1, <1>5 DEF CachedInv
<1>6. QED
  BY <1>2, <1>3, <1>4, <1>5 DEF Next, vars, Stop, Write, Outage, Restore, Reseed, procVars

LEMMA CachedAlways == Spec => []CachedInv
<1>1. Init => Pointed(mgr)
  BY DEF Init, ProcessInit, EmptyStore, Pointed
<1>2. QED
  BY <1>1, TypeInit, CachedStep, PTL DEF Spec, CachedInv

\* No eviction removes the served credential, also with versionless responses
\* and a history that starts again: a manager that has a credential serves one.
THEOREM CurrentStaysCached == Spec => []CurrentCached
<1>1. CachedInv => CurrentCached
  BY PointedServes DEF CachedInv, TypeOK, CurrentCached
<1>2. QED
  BY <1>1, CachedAlways, PTL

\* A process that keeps running never loses its last credential, whatever Vault
\* answers or fails to answer.
THEOREM CredentialKept == Spec => NeverLosesCredential
<1>1. CachedInv /\ [Next]_vars =>
        [Current(mgr) # NoCredential /\ loop' # "off" => Current(mgr') # NoCredential]_vars
  <2> SUFFICES ASSUME CachedInv, [Next]_vars, Current(mgr) # NoCredential, loop' # "off"
               PROVE  Current(mgr') # NoCredential
    OBVIOUS
  <2>1. mgr \in StoreSet /\ Pointed(mgr) /\ mgr' \in StoreSet /\ Pointed(mgr')
    BY CachedStep DEF CachedInv, TypeOK
  <2>2. mgr'.cache # << >>
    BY <2>1, CachedStep, PointedServes
  <2>3. QED
    BY <2>1, <2>2, PointedServes
<1>2. QED
  BY <1>1, CachedAlways, PTL DEF Spec, NeverLosesCredential

-----------------------------------------------------------------------------
(* A process without a credential *)

\* An empty store is the result of a failed load.
Explained == loop # "off" /\ mgr.current = None => lastError /\ lastLoad = "failed"

LEMMA ExplainedStep ==
  ASSUME HistoryInv, HistoryInv', Explained, [Next]_vars
  PROVE  Explained'
<1>1. CASE Start \/ Refresh
  <2>1. LoadCredentials
    BY <1>1 DEF Start, Refresh
  <2>2. CASE mgr'.current = None
    <3>1. vault.version \in Nat \ {0}
      BY DEF HistoryInv, TypeOK, SecretSet
    <3>2. ~LoadAdopts
      BY <2>1, <2>2, <3>1 DEF LoadCredentials, LoadAdopts, Processed, Adopted, None
    <3>3. mgr' = mgr
      BY <2>1, <3>2 DEF LoadCredentials, LoadAdopts, Processed
    <3>4. ~LoadOk
      BY <2>2, <3>1, <3>2, <3>3 DEF LoadOk, LoadAdopts, Succeeds, Adopts, None, HistoryInv, TypeOK,
         SecretSet, AllPayloads
    <3>5. QED
      BY <2>1, <3>4 DEF LoadCredentials, Explained
  <2>3. QED
    BY <2>2 DEF Explained
<1>2. CASE Exit
  BY <1>2 DEF Exit, Explained
<1>3. CASE Tick
  BY <1>3, TickInOrder DEF Tick, Explained
<1>4. CASE Stop
  BY <1>4 DEF Stop, Explained
<1>5. CASE UNCHANGED <<mgr, lastError, lastLoad, loop>>
  BY <1>5 DEF Explained
<1>6. QED
  BY <1>1, <1>2, <1>3, <1>4, <1>5 DEF Next, vars, Write, Outage, Restore, Reseed, procVars

\* While versions only grow, a process that has nothing to authenticate with
\* had a load that failed and an error that says why.
THEOREM EmptyHasAReason ==
  ASSUME ~VaultLosesData, ~Versionless
  PROVE  Spec => []EmptyIsExplained
<1>1. Init => Explained
  BY DEF Init, ProcessInit, Explained
<1>2. HistoryInv /\ Explained => EmptyIsExplained
  BY ServedIds DEF Explained, EmptyIsExplained, NoCredential, None
<1>3. QED
  BY <1>1, <1>2, HistoryInit, HistoryStep, ExplainedStep, PTL DEF Spec

-----------------------------------------------------------------------------
(* Counting rotations, and expiry *)

\* The counter moves exactly when one served credential replaces another.
THEOREM RotationsAreCounted ==
  ASSUME ~VaultLosesData, ~Versionless
  PROVE  Spec => RotationCounted
<1>1. HistoryInv /\ HistoryInv' /\ [Next]_vars =>
        [loop' # "off" =>
           (rotations' = rotations + 1
              <=> Current(mgr) # NoCredential /\ Current(mgr').id # Current(mgr).id)]_vars
  <2> SUFFICES ASSUME HistoryInv, HistoryInv', [Next]_vars, loop' # "off"
               PROVE  rotations' = rotations + 1
                        <=> Current(mgr) # NoCredential /\ Current(mgr').id # Current(mgr).id
    OBVIOUS
  <2>1. Current(mgr).id = mgr.current /\ mgr.current \in Nat /\ rotations \in Nat
    BY ServedIds DEF HistoryInv, TypeOK
  <2>2. Current(mgr').id = mgr'.current
    <3>1. mgr' \in StoreOf(CredentialSet) /\ Chronological(mgr')
      BY StoreSetIsStoreOf DEF HistoryInv, TypeOK
    <3>2. QED
      BY <3>1, ServedAt
  <2>3. Current(mgr) # NoCredential <=> mgr.current # None
    <3>1. mgr \in StoreOf(CredentialSet)
      BY StoreSetIsStoreOf DEF HistoryInv, TypeOK
    <3>2. Current(mgr) \in CredentialSet \cup {NoCredential}
      BY <3>1, ServedType
    <3>3. QED
      BY <2>1, <3>2 DEF CredentialSet, NoCredential, None
  <2>4. CASE Start \/ Refresh
    <3>1. LoadCredentials
      BY <2>4 DEF Start, Refresh
    <3>2. CASE vaultUp /\ Adopts(mgr, vault)
      <4>1. mgr'.current = vault.version /\ vault.version # mgr.current
        BY <3>1, <3>2 DEF LoadCredentials, Processed, Adopted, Adopts
      <4>2. rotations' = rotations + 1 <=> mgr.current # None
        BY <2>1, <3>1, <3>2 DEF LoadCredentials, Rotates
      <4>3. QED
        BY <2>1, <2>2, <2>3, <4>1, <4>2
    <3>3. CASE ~(vaultUp /\ Adopts(mgr, vault))
      <4>1. mgr' = mgr /\ rotations' = rotations
        BY <3>1, <3>3 DEF LoadCredentials, Processed, Rotates
      <4>2. QED
        BY <2>1, <4>1
    <3>4. QED
      BY <3>2, <3>3
  <2>5. CASE Tick
    BY <2>1, <2>2, <2>5, TickInOrder DEF Tick
  <2>6. CASE UNCHANGED <<mgr, rotations>>
    BY <2>1, <2>6
  <2>7. QED
    BY <2>4, <2>5, <2>6 DEF Next, vars, Stop, Exit, Write, Outage, Restore, Reseed, procVars
<1>2. QED
  BY <1>1, HistoryInit, HistoryStep, PTL DEF Spec, RotationCounted

\* A tick ages the served credential and leaves an expired one expired.
LEMMA TickKeepsExpired ==
  ASSUME HistoryInv, Tick, StatusOf(Current(mgr)) = "expired"
  PROVE  StatusOf(Current(mgr')) = "expired"
<1>1. PICK n \in Nat : n = Len(mgr.cache) /\ \A i \in 1 .. n : mgr.cache[i] \in CredentialSet
  BY DEF HistoryInv, TypeOK, StoreSet
<1>2. mgr \in StoreOf(CredentialSet) /\ Chronological(mgr)
  BY StoreSetIsStoreOf DEF HistoryInv, TypeOK
<1>3. Current(mgr) = IF n >= 1 THEN mgr.cache[n] ELSE NoCredential
  <2>1. Current(mgr) = FromEnd(mgr.cache, 1)
    BY <1>2, ServedAt
  <2>2. QED
    BY <1>1, <2>1 DEF FromEnd
<1>4. n >= 1 /\ n \in 1 .. n
  <2>1. StatusOf(NoCredential) # "expired"
    BY DEF StatusOf
  <2>2. QED
    BY <1>3, <2>1
<1>5. Current(mgr') = OlderCredential(mgr.cache[n])
  <2>1. mgr' \in StoreOf(CredentialSet) /\ Chronological(mgr')
    <3>1. mgr' = Older(mgr)
      BY DEF Tick
    <3>2. mgr \in StoreSet
      BY <1>2, StoreSetIsStoreOf
    <3>3. QED
      BY <3>1, <3>2, OlderType, TickInOrder, StoreSetIsStoreOf
  <2>2. Current(mgr') = FromEnd(mgr'.cache, 1)
    BY <2>1, ServedAt
  <2>3. mgr'.cache = [i \in 1 .. n |-> OlderCredential(mgr.cache[i])]
    BY <1>1 DEF Tick, Older
  <2>4. Len(mgr'.cache) = n
    BY <1>1, <2>3
  <2>5. QED
    BY <1>4, <2>2, <2>3, <2>4 DEF FromEnd
<1>6. PICK c \in CredentialSet : c = mgr.cache[n]
  BY <1>1, <1>4
<1>7. c.left = 0
  BY <1>3, <1>4, <1>6 DEF StatusOf, CredentialSet, NoTtl
<1>8. OlderCredential(c) \in CredentialSet /\ OlderCredential(c).left = 0
  BY <1>7, OlderCredentialType DEF OlderCredential, CredentialSet
<1>9. OlderCredential(c) # NoCredential
  BY <1>8 DEF NoCredential, CredentialSet, None
<1>10. QED
  BY <1>5, <1>6, <1>8, <1>9 DEF StatusOf, NoTtl

\* Reading the same version again renews nothing: an expired credential stays
\* expired until another replaces it.
THEOREM ExpiryIsFinal ==
  ASSUME ~VaultLosesData, ~Versionless
  PROVE  Spec => ExpiredStaysExpired
<1>1. HistoryInv /\ HistoryInv' /\ [Next]_vars =>
        [StatusOf(Current(mgr)) = "expired" /\ loop' # "off" /\ Current(mgr').id = Current(mgr).id
           => StatusOf(Current(mgr')) = "expired"]_vars
  <2> SUFFICES ASSUME HistoryInv, HistoryInv', [Next]_vars, StatusOf(Current(mgr)) = "expired",
                      loop' # "off", Current(mgr').id = Current(mgr).id
               PROVE  StatusOf(Current(mgr')) = "expired"
    OBVIOUS
  <2>1. CASE Start \/ Refresh
    <3>1. mgr' = mgr \/ (mgr'.current = vault.id /\ vault.id # mgr.current)
      BY <2>1, LoadInOrder DEF Start, Refresh
    <3>2. Current(mgr').id = mgr'.current
      <4>1. mgr' \in StoreOf(CredentialSet) /\ Chronological(mgr')
        BY StoreSetIsStoreOf DEF HistoryInv, TypeOK
      <4>2. QED
        BY <4>1, ServedAt
    <3>3. mgr' = mgr
      BY <3>1, <3>2, ServedIds
    <3>4. QED
      BY <3>3
  <2>2. CASE Tick
    BY <2>2, TickKeepsExpired
  <2>3. CASE mgr' = mgr
    BY <2>3
  <2>4. QED
    BY <2>1, <2>2, <2>3 DEF Next, vars, Stop, Exit, Write, Outage, Restore, Reseed, procVars
<1>2. QED
  BY <1>1, HistoryInit, HistoryStep, PTL DEF Spec, ExpiredStaysExpired
=============================================================================
