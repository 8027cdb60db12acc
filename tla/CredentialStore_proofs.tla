----------------------- MODULE CredentialStore_proofs -----------------------
(***************************************************************************)
(* Lemmas about the credential cache: the types of its operators, and what *)
(* adopting a version does to a cache that was filled in version order.    *)
(* S stands for the set the cached credentials are taken from.             *)
(***************************************************************************)
EXTENDS CredentialStore, TLAPS

StoreOf(S) == [cache : Seq(S), current : Nat, previous : Nat]

\* Evicting returns a sequence of the same set within the bound.
LEMMA EvictType ==
  ASSUME NEW S, NEW cache \in Seq(S)
  PROVE  Evict(cache) \in Seq(S) /\ Len(Evict(cache)) <= MaxCacheSize
<1>1. CASE Len(cache) <= MaxCacheSize
  BY <1>1 DEF Evict
<1>2. CASE ~(Len(cache) <= MaxCacheSize)
  <2> DEFINE first == Len(cache) - MaxCacheSize + 1
  <2>1. first \in 1 .. Len(cache) /\ Len(cache) \in Nat
    BY <1>2, MaxCacheSizeAssumption
  <2>2. Evict(cache) = SubSeq(cache, first, Len(cache))
    BY <1>2 DEF Evict
  <2>3. SubSeq(cache, first, Len(cache)) \in Seq(S)
        /\ Len(SubSeq(cache, first, Len(cache))) = MaxCacheSize
    BY <2>1, MaxCacheSizeAssumption
  <2>4. QED
    BY <2>2, <2>3, MaxCacheSizeAssumption
<1>3. QED
  BY <1>1, <1>2

\* Putting a credential returns a sequence of the same set.
LEMMA PutType ==
  ASSUME NEW S, NEW cache \in Seq(S), NEW c \in S
  PROVE  Put(cache, c) \in Seq(S)
<1>1. CASE Positions(cache, c.key) = {}
  BY <1>1 DEF Put
<1>2. CASE Positions(cache, c.key) # {}
  <2>1. Put(cache, c) = [i \in 1 .. Len(cache) |-> IF cache[i].key = c.key THEN c ELSE cache[i]]
    BY <1>2 DEF Put
  <2>2. \A i \in 1 .. Len(cache) : (IF cache[i].key = c.key THEN c ELSE cache[i]) \in S
    OBVIOUS
  <2>3. QED
    BY <2>1, <2>2
<1>3. QED
  BY <1>1, <1>2

\* Looking up a key gives a cached credential or none.
LEMMA LookupType ==
  ASSUME NEW S, NEW cache \in Seq(S), NEW k
  PROVE  Lookup(cache, k) \in S \cup {NoCredential}
<1>1. CASE Positions(cache, k) = {}
  BY <1>1 DEF Lookup
<1>2. CASE Positions(cache, k) # {}
  <2> DEFINE i == CHOOSE j \in Positions(cache, k) : TRUE
  <2>1. i \in Positions(cache, k)
    BY <1>2
  <2>2. i \in 1 .. Len(cache)
    BY <2>1 DEF Positions
  <2>3. Lookup(cache, k) = cache[i]
    BY <1>2 DEF Lookup
  <2>4. QED
    BY <2>2, <2>3
<1>3. QED
  BY <1>1, <1>2

\* The current and the fallback credential are cached credentials or none.
LEMMA ServedType ==
  ASSUME NEW S, NEW m \in StoreOf(S)
  PROVE  /\ Current(m) \in S \cup {NoCredential}
         /\ Fallback(m) \in S \cup {NoCredential}
<1>1. \A n \in 1 .. 2 : FromEnd(m.cache, n) \in S \cup {NoCredential}
  BY DEF FromEnd, StoreOf
<1>2. QED
  BY <1>1, LookupType DEF Current, Fallback, StoreOf

\* Adopting a secret keeps the type of the store and restores its bound.
LEMMA AdoptedType ==
  ASSUME NEW S, NEW m \in StoreOf(S), NEW s, CredentialOf(s) \in S, s.version \in Nat
  PROVE  Adopted(m, s) \in StoreOf(S) /\ Len(Adopted(m, s).cache) <= MaxCacheSize
  BY PutType, EvictType DEF Adopted, StoreOf

-----------------------------------------------------------------------------
(* Caches filled in version order *)

\* Every entry is a versioned credential under its own version, the versions
\* grow, and the two pointers are the last two entries.
Chronological(m) ==
  /\ \A i \in 1 .. Len(m.cache) :
       m.cache[i].key \in Nat \ {0} /\ m.cache[i].id = m.cache[i].key
  /\ \A i, j \in 1 .. Len(m.cache) : i < j => m.cache[i].key < m.cache[j].key
  /\ m.current = IF Len(m.cache) >= 1 THEN m.cache[Len(m.cache)].key ELSE None
  /\ m.previous = IF Len(m.cache) >= 2 THEN m.cache[Len(m.cache) - 1].key ELSE None

\* In such a cache a lookup finds the entry at the only position of its key.
LEMMA LookupAt ==
  ASSUME NEW S, NEW m \in StoreOf(S), Chronological(m), NEW i \in 1 .. Len(m.cache)
  PROVE  Lookup(m.cache, m.cache[i].key) = m.cache[i]
<1>1. Positions(m.cache, m.cache[i].key) = {i}
  BY DEF Positions, Chronological, StoreOf
<1>2. QED
  BY <1>1 DEF Lookup

\* Both served credentials are the ones the pointers were meant to name.
LEMMA ServedAt ==
  ASSUME NEW S, NEW m \in StoreOf(S), Chronological(m)
  PROVE  /\ Current(m) = FromEnd(m.cache, 1)
         /\ Fallback(m) = FromEnd(m.cache, 2)
         /\ Current(m).id = m.current
         /\ Fallback(m).id = m.previous
<1>1. Len(m.cache) \in Nat
  BY DEF StoreOf
<1>2. CASE Len(m.cache) = 0
  BY <1>1, <1>2 DEF Chronological, Current, Fallback, FromEnd, NoCredential, None
<1>3. CASE Len(m.cache) = 1
  <2>1. /\ 1 \in 1 .. Len(m.cache)
        /\ m.current = m.cache[1].key /\ m.current # None /\ m.cache[1].id = m.current
        /\ m.previous = None
    BY <1>1, <1>3 DEF Chronological, None
  <2>2. Current(m) = m.cache[1]
    BY <2>1, LookupAt DEF Current
  <2>3. QED
    BY <1>1, <1>3, <2>1, <2>2 DEF Fallback, FromEnd, NoCredential, None
<1>4. CASE Len(m.cache) >= 2
  <2> DEFINE n == Len(m.cache)
  <2>1. n \in 1 .. n /\ n - 1 \in 1 .. n
    BY <1>1, <1>4
  <2>2. m.current = m.cache[n].key /\ m.previous = m.cache[n - 1].key
    BY <1>1, <1>4 DEF Chronological
  <2>3. m.current # None /\ m.previous # None /\ m.cache[n].id = m.current
        /\ m.cache[n - 1].id = m.previous
    BY <2>1, <2>2 DEF Chronological, None
  <2>4. Current(m) = m.cache[n] /\ Fallback(m) = m.cache[n - 1]
    BY <2>1, <2>2, <2>3, LookupAt DEF Current, Fallback
  <2>5. QED
    BY <1>1, <1>4, <2>3, <2>4 DEF FromEnd
<1>5. Len(m.cache) = 0 \/ Len(m.cache) = 1 \/ Len(m.cache) >= 2
  <2>1. \A x \in Nat : x = 0 \/ x = 1 \/ x >= 2
    OBVIOUS
  <2>2. QED
    BY <1>1, <2>1
<1>6. QED
  BY <1>2, <1>3, <1>4, <1>5

\* Evicting keeps a suffix: everything if it fits, else the last MaxCacheSize.
LEMMA EvictSuffix ==
  ASSUME NEW S, NEW long \in Seq(S), NEW n \in Nat, Len(long) = n
  PROVE  \E len, k \in Nat :
           /\ Len(Evict(long)) = len
           /\ len + k = n
           /\ len = n \/ len = MaxCacheSize
           /\ \A i \in 1 .. len : Evict(long)[i] = long[i + k]
<1>1. CASE n <= MaxCacheSize
  <2>1. Evict(long) = long
    BY <1>1 DEF Evict
  <2>2. \A i \in 1 .. n : long[i] = long[i + 0]
    OBVIOUS
  <2>3. n + 0 = n /\ 0 \in Nat
    OBVIOUS
  <2>4. QED
    BY <2>1, <2>2, <2>3
<1>2. CASE ~(n <= MaxCacheSize)
  <2>1. PICK k \in Nat : k = n - MaxCacheSize
    BY <1>2, MaxCacheSizeAssumption
  <2>2. k + 1 \in 1 .. n /\ MaxCacheSize + k = n /\ n - MaxCacheSize + 1 = k + 1
    BY <1>2, <2>1, MaxCacheSizeAssumption
  <2>3. Evict(long) = SubSeq(long, k + 1, n)
    BY <1>2, <2>2 DEF Evict
  <2>4. Len(SubSeq(long, k + 1, n)) = MaxCacheSize
    BY <2>2, MaxCacheSizeAssumption
  <2>5. \A i \in 1 .. MaxCacheSize : SubSeq(long, k + 1, n)[i] = long[i + k]
    BY <2>2, MaxCacheSizeAssumption
  <2>6. QED
    BY <2>2, <2>3, <2>4, <2>5, MaxCacheSizeAssumption
<1>3. QED
  BY <1>1, <1>2

\* Adopting a newer version keeps the order, makes it the current one and the
\* current one the fallback: with room for two, no eviction takes either.
LEMMA AdoptedInOrder ==
  ASSUME NEW S, NEW m \in StoreOf(S), Chronological(m),
         NEW s, CredentialOf(s) \in S,
         s.version \in Nat \ {0}, s.id = s.version, s.version > m.current
  PROVE  /\ Chronological(Adopted(m, s))
         /\ Adopted(m, s).current = s.version
         /\ Adopted(m, s).previous = m.current
<1> DEFINE c == CredentialOf(s)
           long == Append(m.cache, c)
           new == Adopted(m, s).cache
<1>1. PICK n \in Nat : n = Len(m.cache)
  BY DEF StoreOf
<1>2. m.cache \in Seq(S) /\ m.current \in Nat
  BY DEF StoreOf
<1>3. c.key = s.version /\ c.id = s.version
  BY DEF CredentialOf, CacheKey, None
<1>4. \A i \in 1 .. n : m.cache[i].key < s.version
  <2>1. ASSUME NEW i \in 1 .. n PROVE m.cache[i].key < s.version
    <3>1. n >= 1 /\ n \in 1 .. n /\ (i = n \/ i < n)
      OBVIOUS
    <3>2. m.current = m.cache[n].key /\ m.cache[i].key \in Nat
      BY <1>1, <3>1 DEF Chronological
    <3>3. i < n => m.cache[i].key < m.cache[n].key
      BY <1>1, <3>1 DEF Chronological
    <3>4. QED
      BY <1>2, <3>1, <3>2, <3>3
  <2>2. QED
    BY <2>1
<1>5. Positions(m.cache, c.key) = {}
  <2>1. \A i \in 1 .. n : m.cache[i].key \in Nat
    BY <1>1 DEF Chronological
  <2>2. \A i \in 1 .. n : m.cache[i].key # c.key
    BY <1>3, <1>4, <2>1
  <2>3. QED
    BY <1>1, <2>2 DEF Positions
<1>6. new = Evict(long) /\ Adopted(m, s).current = s.version /\ Adopted(m, s).previous = m.current
  BY <1>5 DEF Adopted, Put
<1>7. /\ long \in Seq(S) /\ Len(long) = n + 1
      /\ \A i \in 1 .. n : long[i] = m.cache[i]
      /\ long[n + 1] = c
  BY <1>1, <1>2
<1> HIDE DEF long, c, new
<1>8. \A i \in 1 .. n + 1 : long[i].key \in Nat \ {0} /\ long[i].id = long[i].key
  <2>1. \A i \in 1 .. n + 1 : i \in 1 .. n \/ i = n + 1
    OBVIOUS
  <2>2. \A i \in 1 .. n : m.cache[i].key \in Nat \ {0} /\ m.cache[i].id = m.cache[i].key
    BY <1>1 DEF Chronological
  <2>3. QED
    BY <1>3, <1>7, <2>1, <2>2
<1>9. \A i, j \in 1 .. n + 1 : i < j => long[i].key < long[j].key
  <2>1. ASSUME NEW i \in 1 .. n + 1, NEW j \in 1 .. n + 1, i < j
        PROVE  long[i].key < long[j].key
    <3>1. i \in 1 .. n /\ (j \in 1 .. n \/ j = n + 1)
      BY <2>1
    <3>2. CASE j \in 1 .. n
      <4>1. m.cache[i].key < m.cache[j].key
        BY <1>1, <2>1, <3>1, <3>2 DEF Chronological
      <4>2. QED
        BY <1>7, <3>1, <3>2, <4>1
    <3>3. CASE j = n + 1
      BY <1>3, <1>4, <1>7, <3>1, <3>3
    <3>4. QED
      BY <3>1, <3>2, <3>3
  <2>2. QED
    BY <2>1
<1>10. m.current = IF n >= 1 THEN long[n].key ELSE None
  <2>1. n >= 1 => n \in 1 .. n
    OBVIOUS
  <2>2. m.current = IF n >= 1 THEN m.cache[n].key ELSE None
    BY <1>1 DEF Chronological
  <2>3. QED
    BY <1>7, <2>1, <2>2
<1>11. PICK len \in Nat, k \in Nat :
         /\ Len(new) = len
         /\ len + k = n + 1
         /\ len = n + 1 \/ len = MaxCacheSize
         /\ \A i \in 1 .. len : new[i] = long[i + k]
  <2> DEFINE Suffix(l) ==
        \E len, k \in Nat :
          /\ Len(Evict(long)) = len
          /\ len + k = l
          /\ len = l \/ len = MaxCacheSize
          /\ \A i \in 1 .. len : Evict(long)[i] = long[i + k]
  <2>1. PICK l \in Nat : l = n + 1
    OBVIOUS
  <2>2. long \in Seq(S) /\ Len(long) = l
    BY <1>7, <2>1
  <2>3. Suffix(l)
    BY <2>2, EvictSuffix
  <2> HIDE DEF Suffix
  <2>4. Suffix(n + 1)
    BY <2>1, <2>3
  <2>5. QED
    BY <1>6, <2>4 DEF Suffix
<1>12. \A i \in 1 .. len : i + k \in 1 .. n + 1
  BY <1>11
<1>13. \A i \in 1 .. len : new[i].key \in Nat \ {0} /\ new[i].id = new[i].key
  BY <1>8, <1>11, <1>12
<1>14. \A i, j \in 1 .. len : i < j => new[i].key < new[j].key
  <2>1. \A i, j \in 1 .. len : i < j => i + k < j + k
    BY <1>11
  <2>2. QED
    BY <1>9, <1>11, <1>12, <2>1
<1>15. len >= 1 /\ len \in 1 .. len
  BY <1>11, MaxCacheSizeAssumption
<1>16. new[len].key = s.version
  <2>1. new[len] = long[n + 1]
    BY <1>11, <1>15
  <2>2. QED
    BY <1>3, <1>7, <2>1
<1>17. m.current = IF len >= 2 THEN new[len - 1].key ELSE None
  <2>1. CASE len >= 2
    <3>1. n >= 1 /\ len - 1 \in 1 .. len /\ (len - 1) + k = n
      BY <1>11, <2>1
    <3>2. new[len - 1] = long[n]
      BY <1>11, <3>1
    <3>3. QED
      BY <1>10, <2>1, <3>1, <3>2
  <2>2. CASE ~(len >= 2)
    <3>1. ~(n >= 1)
      BY <1>11, <1>15, <2>2, MaxCacheSizeAssumption
    <3>2. QED
      BY <1>10, <2>2, <3>1
  <2>3. QED
    BY <2>1, <2>2
<1>18. new = Adopted(m, s).cache
  BY DEF new
<1>19. QED
  BY <1>6, <1>11, <1>13, <1>14, <1>15, <1>16, <1>17, <1>18 DEF Chronological

\* The passing of time touches neither the order nor what is served.
LEMMA OlderInOrder ==
  ASSUME NEW S, NEW m \in StoreOf(S), Chronological(m),
         \A c \in S : /\ OlderCredential(c) \in S
                      /\ OlderCredential(c).key = c.key
                      /\ OlderCredential(c).id = c.id
  PROVE  /\ Older(m) \in StoreOf(S)
         /\ Chronological(Older(m))
         /\ Older(m).current = m.current /\ Older(m).previous = m.previous
         /\ Len(Older(m).cache) = Len(m.cache)
<1> DEFINE old == [i \in 1 .. Len(m.cache) |-> OlderCredential(m.cache[i])]
<1>1. Older(m) = [cache |-> old, current |-> m.current, previous |-> m.previous]
  BY DEF Older, StoreOf
<1>2. \A i \in 1 .. Len(m.cache) : m.cache[i] \in S
  BY DEF StoreOf
<1>3. /\ old \in Seq(S) /\ Len(old) = Len(m.cache)
      /\ \A i \in 1 .. Len(m.cache) : old[i].key = m.cache[i].key /\ old[i].id = m.cache[i].id
  BY <1>2 DEF StoreOf
<1>4. Older(m) \in StoreOf(S)
  BY <1>1, <1>3 DEF StoreOf
<1>5. Len(m.cache) \in Nat
  BY DEF StoreOf
<1>6. Chronological(Older(m))
  <2> HIDE DEF old
  <2>1. /\ \A i \in 1 .. Len(old) : old[i].key \in Nat \ {0} /\ old[i].id = old[i].key
        /\ \A i, j \in 1 .. Len(old) : i < j => old[i].key < old[j].key
    BY <1>3 DEF Chronological
  <2>2. /\ m.current = IF Len(old) >= 1 THEN old[Len(old)].key ELSE None
        /\ m.previous = IF Len(old) >= 2 THEN old[Len(old) - 1].key ELSE None
    BY <1>3, <1>5 DEF Chronological
  <2>3. QED
    BY <1>1, <2>1, <2>2 DEF Chronological
<1>7. QED
  BY <1>1, <1>3, <1>4, <1>6
=============================================================================
