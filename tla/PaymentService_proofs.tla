----------------------- MODULE PaymentService_proofs ------------------------
(***************************************************************************)
(* The payment endpoint for any number of replicas, keys, requests and     *)
(* cache entries, well-behaved clients or not: its types, the count of     *)
(* requests in flight, the truth of every reply and of every cached        *)
(* answer, the graceful exit, the ways a key can be charged twice, the     *)
(* refinement of PaymentContract, and when a key is charged exactly once.  *)
(***************************************************************************)
EXTENDS PaymentService, FiniteSetTheorems, TLAPS

USE PodsAssumption, MaxEntriesAssumption

-----------------------------------------------------------------------------
(* The cache as a sequence of entries *)

OneEach(s) == \A i, j \in DOMAIN s : s[i].key = s[j].key => i = j
KeysOf(s) == {s[i].key : i \in DOMAIN s}

\* A cache: bounded, one entry for a key.
IsCache(s) == s \in Seq(Entry) /\ Len(s) <= MaxEntries /\ OneEach(s)

(* A key is cached when an entry has it, and then EntryOf is that entry. *)
LEMMA CachedEntry ==
  ASSUME NEW p \in Pods, NEW k
  PROVE  /\ Cached(p, k) <=> k \in KeysOf(cache[p])
         /\ Cached(p, k) => \E i \in DOMAIN cache[p] :
                               cache[p][i] = EntryOf(p, k) /\ cache[p][i].key = k
<1>1. Cached(p, k) <=> k \in KeysOf(cache[p])
  BY DEF Cached, Hits, Entries, KeysOf
<1>2. ASSUME Cached(p, k)
      PROVE  \E i \in DOMAIN cache[p] : cache[p][i] = EntryOf(p, k) /\ cache[p][i].key = k
  <2>1. \E e : e \in Hits(p, k)
    BY <1>2 DEF Cached
  <2>2. EntryOf(p, k) \in Hits(p, k)
    BY <2>1, Zenon DEF EntryOf
  <2>3. QED
    BY <2>2 DEF Hits, Entries
<1>3. QED
  BY <1>1, <1>2

(* A function on an interval is a sequence. *)
LEMMA IntervalSeq ==
  ASSUME NEW S, NEW n \in Nat, NEW t \in [1 .. n -> S]
  PROVE  t \in Seq(S) /\ Len(t) = n /\ DOMAIN t = 1 .. n
  OBVIOUS

\* Where the entries come from when the one at a place moves to the end.
Shifts(from, n, at) ==
  /\ from \in [1 .. n -> 1 .. n]
  /\ \A i \in 1 .. n : /\ i < at => from[i] = i
                       /\ at <= i /\ i < n => from[i] = i + 1
                       /\ i = n => from[i] = at

Permutes(from, n) ==
  /\ from \in [1 .. n -> 1 .. n]
  /\ \A i, j \in 1 .. n : from[i] = from[j] => i = j
  /\ \A j \in 1 .. n : \E i \in 1 .. n : from[i] = j

LEMMA Shift ==
  ASSUME NEW n \in Nat, NEW at \in 1 .. n, NEW from, Shifts(from, n, at)
  PROVE  Permutes(from, n)
<1>1. /\ from \in [1 .. n -> 1 .. n]
      /\ \A i \in 1 .. n : /\ i < at => from[i] = i
                           /\ at <= i /\ i < n => from[i] = i + 1
                           /\ i = n => from[i] = at
  BY DEF Shifts
<1>3. ASSUME NEW i \in 1 .. n, NEW j \in 1 .. n, from[i] = from[j] PROVE i = j
  <2>1. \/ i < at /\ from[i] = i
        \/ at <= i /\ i < n /\ from[i] = i + 1
        \/ i = n /\ from[i] = at
    BY <1>1
  <2>2. \/ j < at /\ from[j] = j
        \/ at <= j /\ j < n /\ from[j] = j + 1
        \/ j = n /\ from[j] = at
    BY <1>1
  <2>3. QED
    BY <1>3, <2>1, <2>2
<1>4. ASSUME NEW j \in 1 .. n PROVE \E i \in 1 .. n : from[i] = j
  <2>1. CASE j < at
    BY <1>1, <2>1
  <2>2. CASE j = at
    BY <1>1, <2>2
  <2>3. CASE at < j
    <3>1. j - 1 \in 1 .. n /\ at <= j - 1 /\ j - 1 < n
      BY <2>3
    <3>2. from[j - 1] = j
      BY <1>1, <3>1
    <3>3. QED
      BY <3>1, <3>2
  <2>4. QED
    BY <2>1, <2>2, <2>3
<1>5. QED
  BY <1>1, <1>3, <1>4 DEF Permutes

\* A cache in another order.
Reordered(t, s) ==
  /\ IsCache(t)
  /\ \A i \in DOMAIN t : \E j \in DOMAIN s : t[i] = s[j]
  /\ KeysOf(t) = KeysOf(s)

(* A permutation of a cache is a cache with the same entries. *)
LEMMA Permuted ==
  ASSUME NEW n \in Nat, NEW s \in [1 .. n -> Entry], OneEach(s), n <= MaxEntries,
         NEW from, Permutes(from, n), NEW t, t = [i \in 1 .. n |-> s[from[i]]]
  PROVE  Reordered(t, s)
<1>0. /\ from \in [1 .. n -> 1 .. n]
      /\ \A i, j \in 1 .. n : from[i] = from[j] => i = j
      /\ \A j \in 1 .. n : \E i \in 1 .. n : from[i] = j
  BY DEF Permutes
<1>1. t \in [1 .. n -> Entry]
  BY <1>0
<1>2. t \in Seq(Entry) /\ Len(t) = n /\ DOMAIN t = 1 .. n /\ DOMAIN s = 1 .. n
  BY <1>1, IntervalSeq
<1>3. OneEach(t)
  <2>1. ASSUME NEW i \in 1 .. n, NEW j \in 1 .. n, t[i].key = t[j].key PROVE i = j
    <3>1. s[from[i]].key = s[from[j]].key
      BY <2>1
    <3>2. from[i] = from[j]
      BY <1>0, <1>2, <3>1 DEF OneEach
    <3>3. QED
      BY <1>0, <3>2
  <2>2. QED
    BY <1>2, <2>1 DEF OneEach
<1>4. KeysOf(t) = KeysOf(s)
  <2>1. ASSUME NEW k \in KeysOf(t) PROVE k \in KeysOf(s)
    <3>1. PICK i \in 1 .. n : k = s[from[i]].key
      BY <1>2, <2>1 DEF KeysOf
    <3>2. QED
      BY <1>0, <1>2, <3>1 DEF KeysOf
  <2>2. ASSUME NEW k \in KeysOf(s) PROVE k \in KeysOf(t)
    <3>1. PICK j \in 1 .. n : k = s[j].key
      BY <1>2, <2>2 DEF KeysOf
    <3>2. PICK i \in 1 .. n : from[i] = j
      BY <1>0
    <3>3. QED
      BY <1>2, <3>1, <3>2 DEF KeysOf
  <2>3. QED
    BY <2>1, <2>2
<1>5. \A i \in DOMAIN t : \E j \in DOMAIN s : t[i] = s[j]
  BY <1>0, <1>2
<1>6. QED
  BY <1>2, <1>3, <1>4, <1>5 DEF IsCache, Reordered

(* Moving an entry to the end of a cache keeps its entries. *)
LEMMA MoveToEnd ==
  ASSUME NEW s, IsCache(s), NEW at \in 1 .. Len(s)
  PROVE  LET t == [i \in DOMAIN s |-> IF i < at THEN s[i]
                                      ELSE IF i < Len(s) THEN s[i + 1] ELSE s[at]]
         IN  Reordered(t, s)
<1>1. PICK n \in Nat : n = Len(s) /\ n <= MaxEntries /\ DOMAIN s = 1 .. n /\ s \in [1 .. n -> Entry]
  BY DEF IsCache
<1>2. at \in 1 .. n /\ OneEach(s)
  BY <1>1 DEF IsCache
<1>3. PICK from : from = [i \in 1 .. n |-> IF i < at THEN i ELSE IF i < n THEN i + 1 ELSE at]
  OBVIOUS
<1>4. Permutes(from, n)
  <2>1. from \in [1 .. n -> 1 .. n]
    BY <1>2, <1>3
  <2>2. \A i \in 1 .. n : /\ i < at => from[i] = i
                          /\ at <= i /\ i < n => from[i] = i + 1
                          /\ i = n => from[i] = at
    BY <1>2, <1>3
  <2>3. Shifts(from, n, at)
    BY <2>1, <2>2, Zenon DEF Shifts
  <2>4. QED
    BY <1>2, <2>3, Shift
<1>5. PICK t : t = [i \in 1 .. n |-> s[from[i]]]
  OBVIOUS
<1>6. t = [i \in DOMAIN s |-> IF i < at THEN s[i] ELSE IF i < Len(s) THEN s[i + 1] ELSE s[at]]
  BY <1>1, <1>3, <1>5
<1>7. Reordered(t, s)
  BY <1>1, <1>2, <1>4, <1>5, Permuted
<1>8. QED
  BY <1>6, <1>7, Zenon

(* move_to_end keeps the entries of the cache. *)
LEMMA TouchedCache ==
  ASSUME NEW p \in Pods, NEW k, IsCache(cache[p]), Cached(p, k)
  PROVE  Reordered(Touched(p, k), cache[p])
<1>1. PICK n \in Nat : n = Len(cache[p]) /\ DOMAIN cache[p] = 1 .. n
  BY DEF IsCache
<1>2. \E i \in 1 .. n : cache[p][i] = EntryOf(p, k)
  BY <1>1, CachedEntry
<1>3. (CHOOSE i \in DOMAIN cache[p] : cache[p][i] = EntryOf(p, k)) \in 1 .. n
  BY <1>1, <1>2
<1> DEFINE at == CHOOSE i \in DOMAIN cache[p] : cache[p][i] = EntryOf(p, k)
<1>5. at \in 1 .. Len(cache[p])
  BY <1>1, <1>3
<1>6. Touched(p, k) = [i \in DOMAIN cache[p] |->
                         IF i < at THEN cache[p][i]
                         ELSE IF i < Len(cache[p]) THEN cache[p][i + 1] ELSE cache[p][at]]
  BY Zenon DEF Touched
<1> HIDE DEF at
<1>7. QED
  BY <1>5, <1>6, MoveToEnd, Zenon

\* Every entry of t is the new one or one of s.
Within(t, s, e) == \A i \in DOMAIN t : t[i] = e \/ \E j \in DOMAIN s : t[i] = s[j]

(* An assignment adds the entry or takes its place in the one of its key. *)
LEMMA AssignedCache ==
  ASSUME NEW s, IsCache(s), NEW e \in Entry
  PROVE  /\ Assigned(s, e) \in Seq(Entry) /\ OneEach(Assigned(s, e))
         /\ Within(Assigned(s, e), s, e)
         /\ \/ Len(Assigned(s, e)) <= MaxEntries /\ e.key \in KeysOf(Assigned(s, e))
            \/ /\ Len(Assigned(s, e)) = MaxEntries + 1
               /\ Assigned(s, e)[MaxEntries + 1] = e
<1>1. PICK n \in Nat : n = Len(s) /\ n <= MaxEntries /\ DOMAIN s = 1 .. n /\ s \in [1 .. n -> Entry]
  BY DEF IsCache
<1>2. OneEach(s) /\ s \in Seq(Entry)
  BY DEF IsCache
<1>3. CASE \E i \in DOMAIN s : s[i].key = e.key
  <2>1. PICK t : t = [i \in 1 .. n |-> IF s[i].key = e.key THEN e ELSE s[i]]
    OBVIOUS
  <2>2. Assigned(s, e) = t
    BY <1>1, <1>3, <2>1 DEF Assigned
  <2>3. t \in [1 .. n -> Entry] /\ \A i \in 1 .. n : t[i].key = s[i].key
    BY <1>1, <2>1
  <2>4. t \in Seq(Entry) /\ Len(t) = n /\ DOMAIN t = 1 .. n
    BY <2>3, IntervalSeq
  <2>5. OneEach(t)
    BY <1>1, <1>2, <2>3, <2>4 DEF OneEach
  <2>6. Within(t, s, e)
    BY <1>1, <2>1, <2>4 DEF Within
  <2>7. e.key \in KeysOf(t)
    BY <1>1, <1>3, <2>3, <2>4 DEF KeysOf
  <2>8. QED
    BY <1>1, <2>2, <2>4, <2>5, <2>6, <2>7
<1>4. CASE ~\E i \in DOMAIN s : s[i].key = e.key
  <2>1. PICK t : t = Append(s, e)
    OBVIOUS
  <2>2. Assigned(s, e) = t
    BY <1>4, <2>1 DEF Assigned
  <2>3. /\ t \in Seq(Entry) /\ Len(t) = n + 1 /\ DOMAIN t = 1 .. n + 1
        /\ \A i \in 1 .. n : t[i] = s[i]
        /\ t[n + 1] = e
    BY <1>1, <1>2, <2>1
  <2>4. OneEach(t)
    <3>1. ASSUME NEW i \in 1 .. n + 1, NEW j \in 1 .. n + 1, t[i].key = t[j].key PROVE i = j
      <4>1. CASE i \in 1 .. n /\ j \in 1 .. n
        BY <1>1, <1>2, <2>3, <3>1, <4>1 DEF OneEach
      <4>2. CASE i = n + 1 /\ j = n + 1
        BY <4>2
      <4>3. CASE i \in 1 .. n /\ j = n + 1
        BY <1>1, <1>4, <2>3, <3>1, <4>3
      <4>4. CASE i = n + 1 /\ j \in 1 .. n
        BY <1>1, <1>4, <2>3, <3>1, <4>4
      <4>5. QED
        BY <4>1, <4>2, <4>3, <4>4
    <3>2. QED
      BY <2>3, <3>1 DEF OneEach
  <2>5. Within(t, s, e)
    <3>1. ASSUME NEW i \in 1 .. n + 1 PROVE t[i] = e \/ \E j \in DOMAIN s : t[i] = s[j]
      <4>1. i = n + 1 \/ i \in 1 .. n
        OBVIOUS
      <4>2. QED
        BY <1>1, <2>3, <4>1
    <3>2. QED
      BY <2>3, <3>1 DEF Within
  <2>6. e.key \in KeysOf(t)
    BY <2>3 DEF KeysOf
  <2>7. n + 1 <= MaxEntries \/ n = MaxEntries
    <3>1. n <= MaxEntries
      BY <1>1
    <3>2. QED
      BY <3>1
  <2>8. QED
    BY <2>2, <2>3, <2>4, <2>5, <2>6, <2>7
<1>5. QED
  BY <1>3, <1>4

(* Storing an answer in a cache leaves a cache that holds it. *)
LEMMA StoredCache ==
  ASSUME NEW p \in Pods, IsCache(cache[p]), NEW e \in Entry
  PROVE  /\ IsCache(Stored(p, e)) /\ e.key \in KeysOf(Stored(p, e))
         /\ Within(Stored(p, e), cache[p], e)
<1>1. PICK s : s = Assigned(cache[p], e)
  OBVIOUS
<1>2. /\ s \in Seq(Entry) /\ OneEach(s) /\ Within(s, cache[p], e)
      /\ \/ Len(s) <= MaxEntries /\ e.key \in KeysOf(s)
         \/ Len(s) = MaxEntries + 1 /\ s[MaxEntries + 1] = e
  BY <1>1, AssignedCache
<1>3. Stored(p, e) = Evicted(s)
  BY <1>1 DEF Stored
<1>4. CASE Len(s) <= MaxEntries
  <2>1. Evicted(s) = s
    BY <1>2, <1>4 DEF Evicted
  <2>2. e.key \in KeysOf(s)
    BY <1>2, <1>4
  <2>3. QED
    BY <1>2, <1>3, <1>4, <2>1, <2>2 DEF IsCache
<1>5. CASE Len(s) = MaxEntries + 1
  <2>1. s \in [1 .. MaxEntries + 1 -> Entry] /\ DOMAIN s = 1 .. MaxEntries + 1
    BY <1>2, <1>5
  <2>2. PICK t : t = SubSeq(s, 2, MaxEntries + 1)
    OBVIOUS
  <2>3. Evicted(s) = t
    BY <1>5, <2>2 DEF Evicted
  <2>4. /\ t \in Seq(Entry) /\ Len(t) = MaxEntries /\ DOMAIN t = 1 .. MaxEntries
        /\ \A i \in 1 .. MaxEntries : t[i] = s[i + 1]
    BY <1>2, <1>5, <2>2
  <2>5. OneEach(t)
    BY <1>2, <2>1, <2>4 DEF OneEach
  <2>6. Within(t, cache[p], e)
    <3>1. ASSUME NEW i \in 1 .. MaxEntries
          PROVE  t[i] = e \/ \E j \in DOMAIN cache[p] : t[i] = cache[p][j]
      <4>1. t[i] = s[i + 1] /\ i + 1 \in DOMAIN s
        BY <2>1, <2>4
      <4>2. QED
        BY <1>2, <4>1 DEF Within
    <3>2. QED
      BY <2>4, <3>1 DEF Within
  <2>7. e.key \in KeysOf(t)
    <3>1. MaxEntries \in DOMAIN t /\ t[MaxEntries] = s[MaxEntries + 1]
      BY <2>4
    <3>2. t[MaxEntries] = e
      BY <1>2, <1>5, <3>1
    <3>3. QED
      BY <3>1, <3>2 DEF KeysOf
  <2>8. QED
    BY <1>3, <2>3, <2>4, <2>5, <2>6, <2>7 DEF IsCache
<1>6. QED
  BY <1>2, <1>4, <1>5

-----------------------------------------------------------------------------
(* The requests *)

\* What the phase of a request says of the rest of it.
Phased ==
  \A r \in Requests :
    /\ req[r].phase = "new" => req[r].wire = "none" /\ req[r].txn = NoTxn
    /\ Waiting(r) => Forwarded(r)
    /\ Forwarded(r) => req[r].key \in Keys

Requested == req \in [Requests -> RequestSet]

Others(r) == \A q \in Requests : q # r => req'[q] = req[q]

(* What a request becomes when its handler replies. *)
LEMMA ReplyReq ==
  ASSUME Requested, NEW r \in Requests, NEW p, NEW k, NEW t, NEW reply,
         Reply(r, p, k, t, reply)
  PROVE  /\ Others(r)
         /\ req'[r] = [phase |-> "done", pod |-> p, key |-> k, wire |-> req[r].wire,
                       txn |-> t, reply |-> reply]
<1>1. req' = [req EXCEPT ![r].phase = "done", ![r].pod = p, ![r].key = k, ![r].txn = t,
                        ![r].reply = reply]
  BY DEF Reply
<1>2. req[r] \in RequestSet
  BY DEF Requested
<1>3. Others(r) /\ req'[r] = [req[r] EXCEPT !.phase = "done", !.pod = p, !.key = k, !.txn = t,
                                           !.reply = reply]
  BY <1>1 DEF Requested, Others
<1>4. QED
  BY <1>2, <1>3 DEF RequestSet

(* The reply keeps the requests well formed. *)
LEMMA ReplyKeepsRequested ==
  ASSUME Requested, NEW r \in Requests, NEW p \in Pods, NEW k, NEW t \in Txns, NEW reply,
         k \in Keys \/ k = NoKey,
         reply = "denied" \/ reply = "unavailable" \/ reply = "answered",
         Reply(r, p, k, t, reply)
  PROVE  Requested'
<1>1. /\ Others(r)
      /\ req'[r] = [phase |-> "done", pod |-> p, key |-> k, wire |-> req[r].wire,
                    txn |-> t, reply |-> reply]
  BY ReplyReq
<1>2. req[r] \in RequestSet /\ k \in Keys \cup {NoKey}
  BY DEF Requested
<1>3. req'[r] \in RequestSet
  BY <1>1, <1>2 DEF RequestSet
<1>4. req' = [req EXCEPT ![r].phase = "done", ![r].pod = p, ![r].key = k, ![r].txn = t,
                        ![r].reply = reply]
  BY DEF Reply
<1>5. QED
  BY <1>1, <1>3, <1>4 DEF Requested, Others

LEMMA ForwardReq ==
  ASSUME Requested, NEW r \in Requests, NEW p \in Pods, NEW k \in Keys, Forward(r, p, k)
  PROVE  /\ Requested' /\ Others(r)
         /\ req'[r] = [phase |-> "waiting", pod |-> p, key |-> k, wire |-> "sent",
                       txn |-> req[r].txn, reply |-> req[r].reply]
<1>1. req' = [req EXCEPT ![r].phase = "waiting", ![r].pod = p, ![r].key = k, ![r].wire = "sent"]
  BY DEF Forward
<1>2. req[r] \in RequestSet
  BY DEF Requested
<1>3. Others(r) /\ req'[r] = [req[r] EXCEPT !.phase = "waiting", !.pod = p, !.key = k, !.wire = "sent"]
  BY <1>1 DEF Requested, Others
<1>4. req'[r] = [phase |-> "waiting", pod |-> p, key |-> k, wire |-> "sent",
                 txn |-> req[r].txn, reply |-> req[r].reply]
  BY <1>2, <1>3 DEF RequestSet
<1>5. req'[r] \in RequestSet
  BY <1>2, <1>4 DEF RequestSet
<1>6. QED
  BY <1>1, <1>3, <1>4, <1>5 DEF Requested, Others

LEMMA ChargeReq ==
  ASSUME Requested, NEW r \in Requests, Charge(r), Len(ledger) \in Nat
  PROVE  /\ Requested' /\ Others(r)
         /\ req'[r] = [phase |-> req[r].phase, pod |-> req[r].pod, key |-> req[r].key,
                       wire |-> "charged",
                       txn |-> IF Waiting(r) THEN Len(ledger) + 1 ELSE req[r].txn,
                       reply |-> req[r].reply]
<1>1. PICK t \in Txns : t = IF Waiting(r) THEN Len(ledger) + 1 ELSE req[r].txn
  <2>1. req[r].txn \in Txns
    BY DEF Requested, RequestSet
  <2>2. Len(ledger) + 1 \in Txns
    BY DEF Txns
  <2>3. QED
    BY <2>1, <2>2
<1>2. req' = [req EXCEPT ![r].wire = "charged", ![r].txn = t]
  BY <1>1 DEF Charge
<1>3. req[r] \in RequestSet
  BY DEF Requested
<1>4. Others(r) /\ req'[r] = [req[r] EXCEPT !.wire = "charged", !.txn = t]
  BY <1>2 DEF Requested, Others
<1>5. req'[r] = [phase |-> req[r].phase, pod |-> req[r].pod, key |-> req[r].key,
                 wire |-> "charged", txn |-> t, reply |-> req[r].reply]
  BY <1>3, <1>4 DEF RequestSet
<1>6. req'[r] \in RequestSet
  BY <1>3, <1>5 DEF RequestSet
<1>7. QED
  BY <1>1, <1>2, <1>4, <1>5, <1>6 DEF Requested, Others

LEMMA RefuseReq ==
  ASSUME Requested, NEW r \in Requests, RefuseAtGateway(r)
  PROVE  /\ Requested' /\ Others(r)
         /\ req'[r] = [phase |-> req[r].phase, pod |-> req[r].pod, key |-> req[r].key,
                       wire |-> "refused", txn |-> req[r].txn, reply |-> req[r].reply]
<1>1. req' = [req EXCEPT ![r].wire = "refused"]
  BY DEF RefuseAtGateway
<1>2. req[r] \in RequestSet
  BY DEF Requested
<1>3. Others(r) /\ req'[r] = [req[r] EXCEPT !.wire = "refused"]
  BY <1>1 DEF Requested, Others
<1>4. req'[r] = [phase |-> req[r].phase, pod |-> req[r].pod, key |-> req[r].key,
                 wire |-> "refused", txn |-> req[r].txn, reply |-> req[r].reply]
  BY <1>2, <1>3 DEF RequestSet
<1>5. req'[r] \in RequestSet
  BY <1>2, <1>4 DEF RequestSet
<1>6. QED
  BY <1>1, <1>3, <1>4, <1>5 DEF Requested, Others

LEMMA GoneReq ==
  ASSUME Requested, NEW p \in Pods, Gone(p)
  PROVE  /\ Requested'
         /\ \A r \in Requests : r \notin WaitingAt(p) => req'[r] = req[r]
         /\ \A r \in WaitingAt(p) :
              req'[r] = [phase |-> "done", pod |-> p, key |-> req[r].key, wire |-> req[r].wire,
                         txn |-> NoTxn, reply |-> "lost"]
<1>1. req' = [r \in Requests |->
                IF r \in WaitingAt(p)
                THEN [req[r] EXCEPT !.phase = "done", !.reply = "lost", !.txn = NoTxn]
                ELSE req[r]]
  BY DEF Gone
<1>2. ASSUME NEW r \in Requests, r \notin WaitingAt(p)
      PROVE  req'[r] = req[r] /\ req'[r] \in RequestSet
  BY <1>1, <1>2 DEF Requested
<1>3. ASSUME NEW r \in WaitingAt(p)
      PROVE  /\ req'[r] = [phase |-> "done", pod |-> p, key |-> req[r].key,
                           wire |-> req[r].wire, txn |-> NoTxn, reply |-> "lost"]
             /\ req'[r] \in RequestSet
  <2>1. r \in Requests /\ req[r].pod = p /\ req[r] \in RequestSet
    BY DEF WaitingAt, Requested
  <2>2. req'[r] = [req[r] EXCEPT !.phase = "done", !.reply = "lost", !.txn = NoTxn]
    BY <1>1, <2>1
  <2>3. req'[r] = [phase |-> "done", pod |-> p, key |-> req[r].key,
                   wire |-> req[r].wire, txn |-> NoTxn, reply |-> "lost"]
    BY <2>1, <2>2 DEF RequestSet
  <2>4. NoTxn \in Txns
    BY DEF NoTxn, Txns
  <2>5. req'[r] \in RequestSet
    BY <2>1, <2>3, <2>4 DEF RequestSet
  <2>6. QED
    BY <2>3, <2>5
<1>4. \A r \in Requests : req'[r] \in RequestSet
  BY <1>2, <1>3
<1>5. Requested'
  BY <1>1, <1>4 DEF Requested
<1>6. QED
  BY <1>2, <1>3, <1>5

-----------------------------------------------------------------------------
(* Types *)

Caches == cache \in [Pods -> Seq(Entry)] /\ \A p \in Pods : IsCache(cache[p])

Books ==
  /\ pod \in [Pods -> {"up", "draining", "overdue", "down"}]
  /\ inFlight \in [Pods -> Int]
  /\ ledger \in Seq(Keys)
  /\ excuse \in [Keys -> SUBSET Excuses]

Usability == usable \in [Pods -> BOOLEAN]

Base == Requested /\ Phased /\ Caches /\ Books

LEMMA TypeParts == TypeOK <=> Requested /\ Caches /\ Books /\ Usability
<1>1. (\A p \in Pods : IsCache(cache[p])) <=>
        (\A p \in Pods : cache[p] \in Seq(Entry)) /\
        (\A p \in Pods :
           /\ Len(cache[p]) <= MaxEntries
           /\ \A i, j \in DOMAIN cache[p] : cache[p][i].key = cache[p][j].key => i = j)
  BY Zenon DEF IsCache, OneEach
<1>2. cache \in [Pods -> Seq(Entry)] => \A p \in Pods : cache[p] \in Seq(Entry)
  OBVIOUS
<1>3. QED
  BY <1>1, <1>2, Zenon DEF TypeOK, Requested, Caches, Books, Usability

(* One cache is replaced by another. *)
LEMMA CacheChange ==
  ASSUME Caches, NEW p \in Pods, NEW s, IsCache(s), cache' = [cache EXCEPT ![p] = s]
  PROVE  /\ Caches' /\ cache'[p] = s
         /\ \A q \in Pods : q # p => cache'[q] = cache[q]
<1>1. s \in Seq(Entry)
  BY DEF IsCache
<1>2. /\ cache' \in [Pods -> Seq(Entry)] /\ cache'[p] = s
      /\ \A q \in Pods : q # p => cache'[q] = cache[q]
  BY <1>1 DEF Caches
<1>3. \A q \in Pods : IsCache(cache'[q])
  BY <1>2 DEF Caches
<1>4. QED
  BY <1>2, <1>3 DEF Caches, IsCache, OneEach

LEMMA RefuseBase ==
  ASSUME Base, NEW r \in Requests, NEW p \in Pods, NEW k \in Keys, Refuse(r, p, k)
  PROVE  Base'
<1>1. PICK reply \in {"denied", "unavailable"} : Reply(r, req[r].pod, NoKey, NoTxn, reply)
  BY DEF Refuse
<1>2. /\ Requested' /\ Others(r)
      /\ req'[r] = [phase |-> "done", pod |-> req[r].pod, key |-> NoKey, wire |-> req[r].wire,
                    txn |-> NoTxn, reply |-> reply]
  <2>1. Requested
    BY DEF Base
  <2>2. NoTxn \in Txns /\ req[r].pod \in Pods /\ (reply = "denied" \/ reply = "unavailable")
    BY <2>1 DEF NoTxn, Txns, Requested, RequestSet
  <2>3. Requested'
    BY <1>1, <2>1, <2>2, ReplyKeepsRequested
  <2>4. QED
    BY <1>1, <2>1, <2>3, ReplyReq
<1>3. Phased'
  BY <1>2 DEF Base, Phased, Waiting, Forwarded, Others, Refuse, MaySend
<1>4. UNCHANGED <<pod, cache, inFlight, ledger, excuse>>
  BY DEF Refuse
<1>5. QED
  BY <1>2, <1>3, <1>4 DEF Base, Caches, Books, IsCache, OneEach

LEMMA ReplayBase ==
  ASSUME Base, NEW r \in Requests, NEW p \in Pods, NEW k \in Keys, Replay(r, p, k)
  PROVE  Base'
<1>1. Reordered(Touched(p, k), cache[p]) /\ Caches'
  <2>1. Reordered(Touched(p, k), cache[p])
    BY TouchedCache DEF Base, Caches, Replay
  <2>2. QED
    BY <2>1, CacheChange DEF Base, Replay, Reordered
<1>2. EntryOf(p, k).txn \in Txns
  <2>1. \E i \in DOMAIN cache[p] : cache[p][i] = EntryOf(p, k)
    BY CachedEntry DEF Replay
  <2>2. cache[p] \in Seq(Entry)
    BY DEF Base, Caches
  <2>3. EntryOf(p, k) \in Entry
    BY <2>1, <2>2
  <2>4. QED
    BY <2>3 DEF Entry
<1>3. /\ Requested' /\ Others(r)
      /\ req'[r] = [phase |-> "done", pod |-> p, key |-> k, wire |-> req[r].wire,
                    txn |-> EntryOf(p, k).txn, reply |-> "answered"]
  <2>1. Requested /\ Reply(r, p, k, EntryOf(p, k).txn, "answered")
    BY DEF Base, Replay
  <2>2. Requested'
    BY <1>2, <2>1, ReplyKeepsRequested
  <2>3. QED
    BY <2>1, <2>2, ReplyReq
<1>4. Phased'
  BY <1>3 DEF Base, Phased, Waiting, Forwarded, Others
<1>5. UNCHANGED <<pod, inFlight, ledger, excuse>>
  BY DEF Replay
<1>6. QED
  BY <1>1, <1>3, <1>4, <1>5 DEF Base, Books

LEMMA ForwardBase ==
  ASSUME Base, NEW r \in Requests, NEW p \in Pods, NEW k \in Keys, Forward(r, p, k)
  PROVE  Base'
<1>1. /\ Requested' /\ Others(r)
      /\ req'[r] = [phase |-> "waiting", pod |-> p, key |-> k, wire |-> "sent",
                    txn |-> req[r].txn, reply |-> req[r].reply]
  BY ForwardReq DEF Base
<1>2. Phased'
  BY <1>1 DEF Base, Phased, Waiting, Forwarded, Others
<1>3. UNCHANGED <<pod, cache, ledger>>
  BY DEF Forward
<1>4. inFlight' \in [Pods -> Int]
  BY DEF Base, Books, Forward, Entered
<1>5. excuse' \in [Keys -> SUBSET Excuses]
  <2>1. WhyNotCached(p, k) \in SUBSET Excuses
    BY DEF WhyNotCached, Excuses
  <2>2. QED
    BY <2>1 DEF Base, Books, Forward
<1>6. QED
  BY <1>1, <1>2, <1>3, <1>4, <1>5 DEF Base, Caches, Books, IsCache, OneEach

(* Marking some keys with a reason keeps the type of the excuses. *)
LEMMA ExcusedType ==
  ASSUME Books, NEW ks, NEW why \in Excuses, Excused(ks, why)
  PROVE  excuse' \in [Keys -> SUBSET Excuses]
  BY DEF Books, Excused

(* The handler of a waiting request has a key, and its answer is an entry. *)
LEMMA WaitingEntry ==
  ASSUME Base, NEW r \in Requests, Waiting(r)
  PROVE  /\ req[r].pod \in Pods /\ req[r].key \in Keys /\ TransactionId(r) \in Txns
         /\ [key |-> req[r].key, txn |-> TransactionId(r)] \in Entry
<1>1. req[r].pod \in Pods /\ req[r].key \in Keys /\ req[r].txn \in Txns
  BY DEF Base, Requested, RequestSet, Phased
<1>2. TransactionId(r) \in Txns
  BY <1>1 DEF TransactionId, Txns
<1>3. QED
  BY <1>1, <1>2 DEF Entry

LEMMA CompleteBase ==
  ASSUME Base, NEW r \in Requests, Complete(r)
  PROVE  Base'
<1>1. PICK p \in Pods, k \in Keys, t \in Txns, e \in Entry :
        p = req[r].pod /\ k = req[r].key /\ t = TransactionId(r) /\ e = [key |-> k, txn |-> t]
  BY WaitingEntry DEF Complete
<1>2. Caches'
  <2>1. IsCache(Stored(p, e))
    BY StoredCache DEF Base, Caches
  <2>2. cache' = [cache EXCEPT ![p] = Stored(p, e)]
    BY <1>1, Zenon DEF Complete
  <2>3. QED
    BY <2>1, <2>2, CacheChange DEF Base
<1>3. /\ Requested' /\ Others(r)
      /\ req'[r] = [phase |-> "done", pod |-> p, key |-> k, wire |-> req[r].wire,
                    txn |-> t, reply |-> "answered"]
  <2>1. Requested /\ Reply(r, p, k, t, "answered")
    BY <1>1, Zenon DEF Base, Complete
  <2>2. Requested'
    BY <2>1, ReplyKeepsRequested
  <2>3. QED
    BY <2>1, <2>2, ReplyReq
<1>4. Phased'
  BY <1>1, <1>3 DEF Base, Phased, Waiting, Forwarded, Others
<1>5. UNCHANGED <<pod, ledger>> /\ inFlight' \in [Pods -> Int]
  <2>1. UNCHANGED <<pod, ledger>> /\ inFlight' = Left(p)
    BY <1>1, Zenon DEF Complete
  <2>2. QED
    BY <2>1 DEF Base, Books, Left
<1>6. excuse' \in [Keys -> SUBSET Excuses]
  <2>1. \E ks : Excused(ks, "evicted")
    BY Zenon DEF Complete
  <2>2. QED
    BY <2>1, ExcusedType DEF Base, Excuses
<1>7. QED
  BY <1>2, <1>3, <1>4, <1>5, <1>6 DEF Base, Books

LEMMA FailBase ==
  ASSUME Base, NEW r \in Requests, Fail(r)
  PROVE  Base'
<1>1. /\ Requested' /\ Others(r)
      /\ req'[r] = [phase |-> "done", pod |-> req[r].pod, key |-> req[r].key,
                    wire |-> req[r].wire, txn |-> NoTxn, reply |-> "unavailable"]
  <2>1. NoTxn \in Txns /\ req[r].pod \in Pods /\ req[r].key \in Keys
    BY WaitingEntry DEF Fail, NoTxn, Txns
  <2>2. Requested /\ Reply(r, req[r].pod, req[r].key, NoTxn, "unavailable")
    BY DEF Base, Fail
  <2>3. Requested'
    BY <2>1, <2>2, ReplyKeepsRequested
  <2>4. QED
    BY <2>2, <2>3, ReplyReq
<1>2. Phased'
  BY <1>1 DEF Base, Phased, Waiting, Forwarded, Others, Fail
<1>3. UNCHANGED <<pod, cache, ledger>> /\ inFlight' \in [Pods -> Int]
  <2>1. UNCHANGED <<pod, cache, ledger>> /\ inFlight' = Left(req[r].pod)
    BY DEF Fail
  <2>2. req[r].pod \in Pods /\ inFlight \in [Pods -> Int]
    BY WaitingEntry DEF Base, Books, Fail
  <2>3. QED
    BY <2>1, <2>2 DEF Left
<1>4. excuse' \in [Keys -> SUBSET Excuses]
  BY ExcusedType DEF Base, Fail, Excuses
<1>5. QED
  BY <1>1, <1>2, <1>3, <1>4 DEF Base, Caches, Books, IsCache, OneEach

LEMMA GatewayBase ==
  ASSUME Base, NEW r \in Requests, Charge(r) \/ RefuseAtGateway(r)
  PROVE  Base'
<1>1. Len(ledger) \in Nat
  BY DEF Base, Books
<1>2. /\ Requested' /\ Others(r)
      /\ req'[r].phase = req[r].phase /\ req'[r].key = req[r].key
      /\ req[r].wire = "sent" /\ req'[r].wire \in {"charged", "refused"}
  <2>1. CASE Charge(r)
    <3>1. Requested /\ req[r].wire = "sent"
      BY <2>1 DEF Base, Charge
    <3>2. /\ Requested' /\ Others(r)
          /\ \E t : req'[r] = [phase |-> req[r].phase, pod |-> req[r].pod, key |-> req[r].key,
                               wire |-> "charged", txn |-> t, reply |-> req[r].reply]
      BY <1>1, <2>1, <3>1, ChargeReq
    <3>3. QED
      BY <3>1, <3>2
  <2>2. CASE RefuseAtGateway(r)
    <3>1. Requested /\ req[r].wire = "sent"
      BY <2>2 DEF Base, RefuseAtGateway
    <3>2. /\ Requested' /\ Others(r)
          /\ req'[r] = [phase |-> req[r].phase, pod |-> req[r].pod, key |-> req[r].key,
                        wire |-> "refused", txn |-> req[r].txn, reply |-> req[r].reply]
      BY <2>2, <3>1, RefuseReq
    <3>3. QED
      BY <3>1, <3>2
  <2>3. QED
    BY <2>1, <2>2
<1>3. Phased'
  BY <1>2 DEF Base, Phased, Waiting, Forwarded, Others
<1>4. UNCHANGED <<pod, cache, inFlight, excuse>>
  BY DEF Charge, RefuseAtGateway
<1>5. ledger' \in Seq(Keys)
  <2>1. req[r].key \in Keys
    BY <1>2 DEF Base, Phased, Forwarded
  <2>2. ledger \in Seq(Keys) /\ (ledger' = ledger \/ ledger' = Append(ledger, req[r].key))
    BY DEF Base, Books, Charge, RefuseAtGateway
  <2>3. QED
    BY <2>1, <2>2
<1>6. QED
  BY <1>2, <1>3, <1>4, <1>5 DEF Base, Caches, Books, IsCache, OneEach

LEMMA GoneBase ==
  ASSUME Base, NEW p \in Pods, Gone(p)
  PROVE  Base'
<1>1. /\ Requested'
      /\ \A r \in Requests : r \notin WaitingAt(p) => req'[r] = req[r]
      /\ \A r \in WaitingAt(p) :
           req'[r] = [phase |-> "done", pod |-> p, key |-> req[r].key, wire |-> req[r].wire,
                      txn |-> NoTxn, reply |-> "lost"]
  BY GoneReq DEF Base
<1>2. Phased'
  <2>1. ASSUME NEW r \in Requests
        PROVE  /\ req'[r].phase = "new" => req'[r].wire = "none" /\ req'[r].txn = NoTxn
               /\ req'[r].phase = "waiting" => req'[r].wire # "none"
               /\ req'[r].wire # "none" => req'[r].key \in Keys
    <3>1. CASE r \in WaitingAt(p)
      <4>1. req'[r] = [phase |-> "done", pod |-> p, key |-> req[r].key, wire |-> req[r].wire,
                       txn |-> NoTxn, reply |-> "lost"]
        BY <1>1, <3>1
      <4>2. req[r].wire # "none" => req[r].key \in Keys
        BY DEF Base, Phased, Forwarded
      <4>3. QED
        BY <4>1, <4>2
    <3>2. CASE r \notin WaitingAt(p)
      BY <1>1, <3>2 DEF Base, Phased, Waiting, Forwarded
    <3>3. QED
      BY <3>1, <3>2
  <2>2. QED
    BY <2>1 DEF Phased, Waiting, Forwarded
<1>3. Caches'
  <2>1. IsCache(<< >>)
    BY DEF IsCache, OneEach
  <2>2. QED
    BY <2>1, CacheChange DEF Base, Gone
<1>4. pod' \in [Pods -> {"up", "draining", "overdue", "down"}] /\ inFlight' \in [Pods -> Int]
      /\ ledger' = ledger
  <2>1. /\ pod' = [pod EXCEPT ![p] = "down"] /\ inFlight' = [inFlight EXCEPT ![p] = 0]
        /\ ledger' = ledger
    BY DEF Gone
  <2>2. QED
    BY <2>1 DEF Base, Books
<1>5. excuse' \in [Keys -> SUBSET Excuses]
  BY DEF Base, Books, Gone, Excuses
<1>6. QED
  BY <1>1, <1>2, <1>3, <1>4, <1>5 DEF Base, Books

LEMMA PodBase ==
  ASSUME Base, NEW p \in Pods, CredentialsChange(p) \/ Drain(p) \/ Deadline(p) \/ Restart(p)
  PROVE  Base'
<1>1. pod' \in [Pods -> {"up", "draining", "overdue", "down"}]
  BY DEF Base, Books, CredentialsChange, Drain, Deadline, Restart
<1>2. UNCHANGED <<cache, inFlight, req, ledger, excuse>>
  BY DEF CredentialsChange, Drain, Deadline, Restart
<1>3. QED
  BY <1>1, <1>2 DEF Base, Requested, Phased, Waiting, Forwarded, Caches, Books, IsCache, OneEach

LEMMA BaseInit == Init => Base
<1> SUFFICES ASSUME Init PROVE Base
  OBVIOUS
<1>1. NewRequest \in RequestSet
  <2>1. (CHOOSE p \in Pods : TRUE) \in Pods
    BY PodsAssumption
  <2>2. QED
    BY <2>1 DEF NewRequest, RequestSet, NoTxn, Txns
<1>2. Requested /\ Phased
  BY <1>1 DEF Init, Requested, Phased, Waiting, Forwarded, NewRequest
<1>3. Caches
  BY DEF Init, Caches, IsCache, OneEach
<1>4. Books
  BY DEF Init, Books
<1>5. QED
  BY <1>2, <1>3, <1>4 DEF Base

LEMMA BaseStep == Base /\ [Next]_vars => Base'
<1> SUFFICES ASSUME Base, [Next]_vars PROVE Base'
  OBVIOUS
<1>1. CASE UNCHANGED vars
  BY <1>1 DEF vars, Base, Requested, Phased, Waiting, Forwarded, Caches, Books, IsCache, OneEach
<1>2. CASE Next
  BY <1>2, RefuseBase, ReplayBase, ForwardBase, CompleteBase, FailBase, GatewayBase, GoneBase,
     PodBase DEF Next, Shutdown, Kill
<1>3. QED
  BY <1>1, <1>2

LEMMA UsabilityStep == Usability /\ [Next]_vars => Usability'
<1> SUFFICES ASSUME Usability, [Next]_vars PROVE Usability'
  OBVIOUS
<1>1. ASSUME NEW p \in Pods, CredentialsChange(p) PROVE Usability'
  <2>1. usable' = [usable EXCEPT ![p] = ~@] /\ usable \in [Pods -> BOOLEAN]
    BY <1>1 DEF CredentialsChange, Usability
  <2>2. QED
    BY <2>1, Zenon DEF Usability
<1>2. CASE usable' = usable
  BY <1>2, Zenon DEF Usability
<1>3. ASSUME NEW r \in Requests, NEW p \in Pods, NEW k \in Keys,
             Refuse(r, p, k) \/ Replay(r, p, k) \/ Forward(r, p, k)
      PROVE  usable' = usable
  BY <1>3 DEF Refuse, Replay, Forward
<1>4. ASSUME NEW r \in Requests, Complete(r) \/ Fail(r) \/ Charge(r) \/ RefuseAtGateway(r)
      PROVE  usable' = usable
  BY <1>4, Zenon DEF Complete, Fail, Charge, RefuseAtGateway
<1>5. ASSUME NEW p \in Pods, Drain(p) \/ Deadline(p) \/ Shutdown(p) \/ Kill(p) \/ Restart(p)
      PROVE  usable' = usable
  BY <1>5 DEF Drain, Deadline, Shutdown, Kill, Gone, Restart
<1>6. CASE UNCHANGED vars
  BY <1>2, <1>6 DEF vars
<1>7. QED
  BY <1>1, <1>2, <1>3, <1>4, <1>5, <1>6 DEF Next

LEMMA BaseInvariant == Spec => []Base
  BY BaseInit, BaseStep, PTL DEF Spec

(* Every variable keeps its type; no cache outgrows its bound or holds a key
   twice. *)
THEOREM TypeCorrect == Spec => []TypeOK
<1>1. Init => Usability
  BY Zenon DEF Init, Usability
<1>2. Spec => []Usability
  BY <1>1, UsabilityStep, PTL DEF Spec
<1>3. Base /\ Usability => TypeOK
  BY TypeParts DEF Base
<1>4. QED
  BY <1>2, <1>3, BaseInvariant, PTL

-----------------------------------------------------------------------------
(* The requests in flight *)

(* Where no other request changes, the waiting requests change by one. *)
LEMMA WaitingChange ==
  ASSUME Requested, NEW r \in Requests, Others(r), NEW p \in Pods
  PROVE  /\ ~Waiting(r)' /\ ~Waiting(r) => WaitingAt(p)' = WaitingAt(p)
         /\ req[r].pod # p /\ req'[r].pod # p => WaitingAt(p)' = WaitingAt(p)
         /\ req'[r].phase = req[r].phase /\ req'[r].pod = req[r].pod => WaitingAt(p)' = WaitingAt(p)
         /\ Waiting(r)' /\ req'[r].pod = p => WaitingAt(p)' = WaitingAt(p) \cup {r}
         /\ ~Waiting(r)' => WaitingAt(p)' = WaitingAt(p) \ {r}
  BY DEF Others, WaitingAt, Waiting

LEMMA WaitingFinite ==
  ASSUME NEW p
  PROVE  IsFiniteSet(WaitingAt(p)) /\ Cardinality(WaitingAt(p)) \in Nat
<1>1. WaitingAt(p) \subseteq Requests
  BY DEF WaitingAt
<1>2. QED
  BY <1>1, RequestsAssumption, FS_Subset, FS_CardinalityType

LEMMA InFlightStep ==
  ASSUME Base, InFlightIsExact, [Next]_vars
  PROVE  InFlightIsExact'
<1>1. ASSUME inFlight' = inFlight, \A p \in Pods : WaitingAt(p)' = WaitingAt(p)
      PROVE  InFlightIsExact'
  BY <1>1 DEF InFlightIsExact
<1>2. ASSUME NEW r \in Requests, NEW p \in Pods, NEW k \in Keys, Refuse(r, p, k) \/ Replay(r, p, k)
      PROVE  InFlightIsExact'
  <2>1. inFlight' = inFlight /\ ~Waiting(r) /\ Others(r) /\ ~Waiting(r)'
    <3>1. inFlight' = inFlight /\ ~Waiting(r)
      BY <1>2 DEF Refuse, Replay, MaySend, Waiting
    <3>2. \E o, c, t, reply : Reply(r, o, c, t, reply)
      BY <1>2, Zenon DEF Refuse, Replay
    <3>3. Others(r) /\ req'[r].phase = "done"
      BY <3>2 DEF Reply, Base, Requested, RequestSet, Others
    <3>4. QED
      BY <3>1, <3>3 DEF Waiting
  <2>2. QED
    BY <1>1, <2>1, WaitingChange DEF Base
<1>3. ASSUME NEW r \in Requests, NEW p \in Pods, NEW k \in Keys, Forward(r, p, k)
      PROVE  InFlightIsExact'
  <2>1. Others(r) /\ req'[r].phase = "waiting" /\ req'[r].pod = p /\ req[r].phase = "new"
    <3>1. /\ Others(r)
          /\ req'[r] = [phase |-> "waiting", pod |-> p, key |-> k, wire |-> "sent",
                        txn |-> req[r].txn, reply |-> req[r].reply]
      BY <1>3, ForwardReq DEF Base
    <3>2. req[r].phase = "new"
      BY <1>3 DEF Forward, MaySend
    <3>3. QED
      BY <3>1, <3>2
  <2>2. WaitingAt(p)' = WaitingAt(p) \cup {r} /\ r \notin WaitingAt(p)
    BY <2>1, WaitingChange DEF Base, Waiting, WaitingAt
  <2>3. Cardinality(WaitingAt(p)') = Cardinality(WaitingAt(p)) + 1
    BY <2>2, WaitingFinite, FS_AddElement
  <2>4. ASSUME NEW q \in Pods, q # p PROVE WaitingAt(q)' = WaitingAt(q)
    BY <2>1, <2>4 DEF Others, WaitingAt, Waiting
  <2>5. inFlight' = [inFlight EXCEPT ![p] = @ + 1] /\ inFlight \in [Pods -> Int]
    BY <1>3 DEF Forward, Entered, Base, Books
  <2>6. QED
    BY <2>3, <2>4, <2>5 DEF InFlightIsExact
<1>4. ASSUME NEW r \in Requests, Complete(r) \/ Fail(r)
      PROVE  InFlightIsExact'
  <2>1. PICK p \in Pods : p = req[r].pod
    BY DEF Base, Requested, RequestSet
  <2>2. Waiting(r) /\ inFlight' = Left(p) /\ \E k, t, reply : Reply(r, p, k, t, reply)
    BY <1>4, <2>1, Zenon DEF Complete, Fail
  <2>3. Others(r) /\ req'[r].phase = "done"
    BY <2>2 DEF Reply, Base, Requested, RequestSet, Others
  <2>4. WaitingAt(p)' = WaitingAt(p) \ {r} /\ r \in WaitingAt(p)
    BY <2>1, <2>2, <2>3, WaitingChange DEF Base, Waiting, WaitingAt
  <2>5. Cardinality(WaitingAt(p)') = Cardinality(WaitingAt(p)) - 1
    <3>1. IsFiniteSet(WaitingAt(p))
      BY WaitingFinite
    <3>2. Cardinality(WaitingAt(p) \ {r}) = Cardinality(WaitingAt(p)) - 1
      BY <2>4, <3>1, FS_RemoveElement
    <3>3. QED
      BY <2>4, <3>2
  <2>6. ASSUME NEW q \in Pods, q # p PROVE WaitingAt(q)' = WaitingAt(q)
    BY <2>1, <2>3, <2>6 DEF Others, WaitingAt, Waiting
  <2>7. inFlight' = [inFlight EXCEPT ![p] = @ - 1] /\ inFlight \in [Pods -> Int]
    BY <2>2 DEF Left, Base, Books
  <2>8. QED
    BY <2>5, <2>6, <2>7 DEF InFlightIsExact
<1>5. ASSUME NEW r \in Requests, Charge(r) \/ RefuseAtGateway(r)
      PROVE  InFlightIsExact'
  <2>1. Others(r) /\ req'[r].phase = req[r].phase /\ req'[r].pod = req[r].pod
    <3>1. CASE Charge(r)
      <4>1. /\ Others(r)
            /\ \E t : req'[r] = [phase |-> req[r].phase, pod |-> req[r].pod, key |-> req[r].key,
                                 wire |-> "charged", txn |-> t, reply |-> req[r].reply]
        <5>1. Requested /\ Len(ledger) \in Nat
          BY DEF Base, Books
        <5>2. QED
          BY <3>1, <5>1, ChargeReq
      <4>2. QED
        BY <4>1
    <3>2. CASE RefuseAtGateway(r)
      <4>1. /\ Others(r)
            /\ req'[r] = [phase |-> req[r].phase, pod |-> req[r].pod, key |-> req[r].key,
                          wire |-> "refused", txn |-> req[r].txn, reply |-> req[r].reply]
        BY <3>2, RefuseReq DEF Base
      <4>2. QED
        BY <4>1
    <3>3. QED
      BY <1>5, <3>1, <3>2
  <2>2. inFlight' = inFlight
    BY <1>5 DEF Charge, RefuseAtGateway
  <2>3. QED
    BY <1>1, <2>1, <2>2, WaitingChange DEF Base
<1>6. ASSUME NEW p \in Pods, Gone(p)
      PROVE  InFlightIsExact'
  <2>1. /\ \A r \in Requests : r \notin WaitingAt(p) => req'[r] = req[r]
        /\ \A r \in WaitingAt(p) : req'[r].phase = "done"
    <3>1. /\ \A r \in Requests : r \notin WaitingAt(p) => req'[r] = req[r]
          /\ \A r \in WaitingAt(p) :
               req'[r] = [phase |-> "done", pod |-> p, key |-> req[r].key, wire |-> req[r].wire,
                          txn |-> NoTxn, reply |-> "lost"]
      BY <1>6, GoneReq DEF Base
    <3>2. ASSUME NEW r \in WaitingAt(p) PROVE req'[r].phase = "done"
      <4>1. req'[r] = [phase |-> "done", pod |-> p, key |-> req[r].key, wire |-> req[r].wire,
                       txn |-> NoTxn, reply |-> "lost"]
        BY <3>1
      <4>2. QED
        BY <4>1
    <3>3. QED
      BY <3>1, <3>2
  <2>2. WaitingAt(p)' = {}
    BY <2>1 DEF WaitingAt, Waiting
  <2>3. ASSUME NEW q \in Pods, q # p PROVE WaitingAt(q)' = WaitingAt(q)
    BY <2>1, <2>3 DEF WaitingAt, Waiting
  <2>4. inFlight' = [inFlight EXCEPT ![p] = 0] /\ inFlight \in [Pods -> Int]
    BY <1>6 DEF Gone, Base, Books
  <2>5. QED
    BY <2>2, <2>3, <2>4, FS_EmptySet DEF InFlightIsExact
<1>7. ASSUME UNCHANGED <<inFlight, req>> PROVE InFlightIsExact'
  BY <1>7 DEF InFlightIsExact, WaitingAt, Waiting
<1>8. QED
  BY <1>2, <1>3, <1>4, <1>5, <1>6, <1>7 DEF Next, vars, Shutdown, Kill, CredentialsChange, Drain,
     Deadline, Restart

(* The counter the shutdown waits for is exact: no path out of the handler, and
   no crash, loses or adds a count. *)
THEOREM InFlightCounts == Spec => []InFlightIsExact
<1>1. Init => InFlightIsExact
  <2> SUFFICES ASSUME Init, NEW p \in Pods PROVE inFlight[p] = Cardinality(WaitingAt(p))
    BY DEF InFlightIsExact
  <2>1. WaitingAt(p) = {}
    BY DEF Init, NewRequest, WaitingAt, Waiting
  <2>2. QED
    BY <2>1, FS_EmptySet DEF Init
<1>2. QED
  BY <1>1, InFlightStep, BaseInvariant, PTL DEF Spec

(* A replica that ends its drain before the deadline drops no request. *)
THEOREM GracefulExit == Spec => GracefulExitDropsNothing
<1>1. ASSUME Base, InFlightIsExact, [Next]_vars,
             NEW p \in Pods, pod[p] = "draining", pod'[p] = "down"
      PROVE  \A r \in Requests : req'[r].reply = "lost" => req[r].reply = "lost"
  <2>1. Shutdown(p)
    <3>1. pod \in [Pods -> {"up", "draining", "overdue", "down"}] /\ pod' # pod
      BY <1>1 DEF Base, Books
    <3>2. \E q \in Pods : \/ Drain(q) \/ Deadline(q) \/ Shutdown(q) \/ Kill(q) \/ Restart(q)
      <4>1. ASSUME NEW r \in Requests, NEW q \in Pods, NEW k \in Keys,
                   Refuse(r, q, k) \/ Replay(r, q, k) \/ Forward(r, q, k)
            PROVE  pod' = pod
        BY <4>1 DEF Refuse, Replay, Forward
      <4>2. ASSUME NEW r \in Requests, Complete(r) \/ Fail(r) \/ Charge(r) \/ RefuseAtGateway(r)
            PROVE  pod' = pod
        BY <4>2, Zenon DEF Complete, Fail, Charge, RefuseAtGateway
      <4>3. QED
        BY <1>1, <3>1, <4>1, <4>2 DEF Next, vars, CredentialsChange
    <3>3. ASSUME NEW q \in Pods, Drain(q) \/ Deadline(q) \/ Restart(q) PROVE FALSE
      BY <1>1, <3>1, <3>3 DEF Drain, Deadline, Restart
    <3>4. ASSUME NEW q \in Pods, Shutdown(q) \/ Kill(q) PROVE q = p /\ ~Kill(q)
      <4>1. pod' = [pod EXCEPT ![q] = "down"] /\ (Kill(q) => pod[q] = "up")
        BY <3>4 DEF Shutdown, Kill, Gone
      <4>2. QED
        BY <1>1, <3>1, <4>1
    <3>5. QED
      BY <3>2, <3>3, <3>4
  <2>2. inFlight[p] = 0 /\ Gone(p)
    BY <1>1, <2>1 DEF Shutdown, DrainOver
  <2>3. WaitingAt(p) = {}
    BY <1>1, <2>2, WaitingFinite, FS_EmptySet DEF InFlightIsExact
  <2>4. QED
    BY <1>1, <2>2, <2>3, GoneReq DEF Base
<1>2. Base /\ InFlightIsExact /\ [Next]_vars =>
        \A p \in Pods : pod[p] = "draining" /\ pod'[p] = "down"
          => \A r \in Requests : req'[r].reply = "lost" => req[r].reply = "lost"
  BY <1>1
<1>3. QED
  BY <1>2, InFlightCounts, BaseInvariant, PTL DEF Spec, GracefulExitDropsNothing

-----------------------------------------------------------------------------
(* The life of a request *)

(* The steps: of a handler, of the gateway, the end of a replica, and those
   that touch neither requests nor caches. *)
LEMMA Steps ==
  ASSUME [Next]_vars
  PROVE  \/ \E r \in Requests, p \in Pods, k \in Keys :
              Refuse(r, p, k) \/ Replay(r, p, k) \/ Forward(r, p, k)
         \/ \E r \in Requests : Complete(r) \/ Fail(r) \/ Charge(r) \/ RefuseAtGateway(r)
         \/ \E p \in Pods : Gone(p)
         \/ UNCHANGED <<cache, req, ledger, excuse>>
<1>1. CASE UNCHANGED vars
  BY <1>1 DEF vars
<1>2. ASSUME NEW p \in Pods, CredentialsChange(p) \/ Drain(p) \/ Deadline(p) \/ Restart(p)
      PROVE  UNCHANGED <<cache, req, ledger, excuse>>
  BY <1>2 DEF CredentialsChange, Drain, Deadline, Restart
<1>3. ASSUME NEW p \in Pods, Shutdown(p) \/ Kill(p) PROVE Gone(p)
  BY <1>3, Zenon DEF Shutdown, Kill
<1>4. CASE Next
  BY <1>2, <1>3, <1>4 DEF Next
<1>5. QED
  BY <1>1, <1>4

(* Only a charge writes the ledger. *)
LEMMA LedgerStep ==
  ASSUME Base, [Next]_vars
  PROVE  ledger' = ledger \/ \E r \in Requests : Charge(r)
<1>1. ASSUME NEW r \in Requests, NEW p \in Pods, NEW k \in Keys,
             Refuse(r, p, k) \/ Replay(r, p, k) \/ Forward(r, p, k)
      PROVE  ledger' = ledger
  BY <1>1 DEF Refuse, Replay, Forward
<1>2. ASSUME NEW r \in Requests, Complete(r) \/ Fail(r) \/ RefuseAtGateway(r)
      PROVE  ledger' = ledger
  BY <1>2, Zenon DEF Complete, Fail, RefuseAtGateway
<1>3. ASSUME NEW p \in Pods, Gone(p) PROVE ledger' = ledger
  BY <1>3 DEF Gone
<1>4. QED
  BY <1>1, <1>2, <1>3, Steps

\* A request sent to the gateway keeps its key, its replica and what the
\* gateway made of it.
Follows(r) ==
  Forwarded(r) => /\ Forwarded(r)' /\ req'[r].key = req[r].key /\ req'[r].pod = req[r].pod
                  /\ req[r].wire # "sent" => req'[r].wire = req[r].wire

FirstSent(r) ==
  ~Forwarded(r) /\ Forwarded(r)' => \E p \in Pods, k \in Keys : Forward(r, p, k)

Sent(r) == Follows(r) /\ FirstSent(r)

(* What the gateway leaves alone. *)
LEMMA GatewayKeeps ==
  ASSUME Base, NEW r \in Requests, Charge(r) \/ RefuseAtGateway(r)
  PROVE  /\ Others(r) /\ req[r].wire = "sent" /\ req'[r].wire \in {"charged", "refused"}
         /\ req'[r].phase = req[r].phase /\ req'[r].key = req[r].key /\ req'[r].pod = req[r].pod
<1>1. req[r].wire = "sent"
  BY DEF Charge, RefuseAtGateway
<1>2. CASE Charge(r)
  <2>1. Len(ledger) \in Nat
    BY DEF Base, Books
  <2>2. PICK t : /\ Others(r)
                 /\ req'[r] = [phase |-> req[r].phase, pod |-> req[r].pod, key |-> req[r].key,
                               wire |-> "charged", txn |-> t, reply |-> req[r].reply]
    BY <1>2, <2>1, ChargeReq DEF Base
  <2>3. QED
    BY <1>1, <2>2
<1>3. CASE RefuseAtGateway(r)
  <2>1. /\ Others(r)
        /\ req'[r] = [phase |-> req[r].phase, pod |-> req[r].pod, key |-> req[r].key,
                      wire |-> "refused", txn |-> req[r].txn, reply |-> req[r].reply]
    BY <1>3, RefuseReq DEF Base
  <2>2. QED
    BY <1>1, <2>1
<1>4. QED
  BY <1>2, <1>3

LEMMA SentSame ==
  ASSUME NEW r \in Requests, req'[r] = req[r]
  PROVE  Sent(r)
  BY DEF Sent, Follows, FirstSent, Forwarded

(* Only Forward sends a request, and what was sent follows the life above. *)
LEMMA SentStep ==
  ASSUME Base, [Next]_vars, NEW r \in Requests
  PROVE  Sent(r)
<1>1. ASSUME NEW q \in Requests, Others(q), r # q PROVE Sent(r)
  BY <1>1, SentSame DEF Others
<1>2. ASSUME NEW q \in Requests, NEW p \in Pods, NEW k \in Keys, Forward(q, p, k)
      PROVE  Sent(r)
  <2>1. Others(q) /\ ~Forwarded(q)
    BY <1>2, ForwardReq DEF Base, Phased, Forward, MaySend, Forwarded
  <2>2. CASE r = q
    BY <1>2, <2>1, <2>2 DEF Sent, Follows, FirstSent
  <2>3. QED
    BY <1>1, <2>1, <2>2
<1>3. ASSUME NEW q \in Requests, NEW p \in Pods, NEW k \in Keys, Refuse(q, p, k) \/ Replay(q, p, k)
      PROVE  Sent(r)
  <2>1. req[q].wire = "none" /\ \E o, c, t, reply : Reply(q, o, c, t, reply)
    BY <1>3 DEF Base, Phased, Refuse, Replay, MaySend
  <2>2. Others(q) /\ req'[q].wire = "none"
    BY <2>1 DEF Base, Requested, RequestSet, Reply, Others
  <2>3. CASE r = q
    BY <2>1, <2>2, <2>3 DEF Sent, Follows, FirstSent, Forwarded
  <2>4. QED
    BY <1>1, <2>2, <2>3
<1>4. ASSUME NEW q \in Requests, Complete(q) \/ Fail(q)
      PROVE  Sent(r)
  <2>1. \E t, reply : Reply(q, req[q].pod, req[q].key, t, reply)
    BY <1>4, Zenon DEF Complete, Fail
  <2>2. Others(q) /\ req'[q].wire = req[q].wire /\ req'[q].key = req[q].key
        /\ req'[q].pod = req[q].pod
    BY <2>1 DEF Base, Requested, RequestSet, Reply, Others
  <2>3. CASE r = q
    BY <2>2, <2>3 DEF Sent, Follows, FirstSent, Forwarded
  <2>4. QED
    BY <1>1, <2>2, <2>3
<1>5. ASSUME NEW q \in Requests, Charge(q) \/ RefuseAtGateway(q)
      PROVE  Sent(r)
  <2>1. /\ Others(q) /\ req[q].wire = "sent" /\ req'[q].wire \in {"charged", "refused"}
        /\ req'[q].key = req[q].key /\ req'[q].pod = req[q].pod
    BY <1>5, GatewayKeeps
  <2>2. CASE r = q
    BY <2>1, <2>2 DEF Sent, Follows, FirstSent, Forwarded
  <2>3. QED
    BY <1>1, <2>1, <2>2
<1>6. ASSUME NEW p \in Pods, Gone(p)
      PROVE  Sent(r)
  <2>1. CASE r \in WaitingAt(p)
    <3>1. req'[r] = [phase |-> "done", pod |-> p, key |-> req[r].key, wire |-> req[r].wire,
                     txn |-> NoTxn, reply |-> "lost"]
      BY <1>6, <2>1, GoneReq DEF Base
    <3>2. req'[r].wire = req[r].wire /\ req'[r].key = req[r].key /\ req'[r].pod = p
      BY <3>1
    <3>3. req[r].pod = p
      BY <2>1 DEF WaitingAt
    <3>4. QED
      BY <3>2, <3>3 DEF Sent, Follows, FirstSent, Forwarded
  <2>2. CASE r \notin WaitingAt(p)
    BY <1>6, <2>2, GoneReq, SentSame DEF Base
  <2>3. QED
    BY <2>1, <2>2
<1>7. CASE req' = req
  BY <1>7, SentSame
<1>8. QED
  BY <1>2, <1>3, <1>4, <1>5, <1>6, <1>7, Steps

\* A handler replies when it ends, and an answer is given after the gateway has
\* dealt with the request, if it was sent there.
Orderly ==
  \A r \in Requests :
    /\ req[r].phase # "done" => req[r].reply = "none"
    /\ Answered(r) => req[r].wire # "sent" /\ req[r].key \in Keys

(* What a step does to one request. *)
LEMMA RequestStep ==
  ASSUME Base, [Next]_vars, NEW r \in Requests
  PROVE  \/ req'[r] = req[r]
         \/ \E p \in Pods, k \in Keys : Refuse(r, p, k) \/ Replay(r, p, k) \/ Forward(r, p, k)
         \/ Complete(r) \/ Fail(r) \/ Charge(r) \/ RefuseAtGateway(r)
         \/ \E p \in Pods : Gone(p) /\ r \in WaitingAt(p)
<1>1. ASSUME NEW q \in Requests, Others(q), q # r PROVE req'[r] = req[r]
  BY <1>1 DEF Others
<1>2. ASSUME NEW q \in Requests, NEW o, NEW c, NEW t, NEW reply, Reply(q, o, c, t, reply)
      PROVE  Others(q)
  BY <1>2 DEF Base, Requested, RequestSet, Reply, Others
<1>3. ASSUME NEW q \in Requests, NEW p \in Pods, NEW k \in Keys,
             Refuse(q, p, k) \/ Replay(q, p, k) \/ Forward(q, p, k)
      PROVE  Others(q)
  <2>1. CASE Forward(q, p, k)
    BY <2>1, ForwardReq DEF Base
  <2>2. CASE Refuse(q, p, k)
    BY <1>2, <2>2 DEF Refuse
  <2>3. CASE Replay(q, p, k)
    BY <1>2, <2>3 DEF Replay
  <2>4. QED
    BY <1>3, <2>1, <2>2, <2>3
<1>4. ASSUME NEW q \in Requests, Complete(q) \/ Fail(q) \/ Charge(q) \/ RefuseAtGateway(q)
      PROVE  Others(q)
  <2>1. CASE Complete(q)
    <3>1. Reply(q, req[q].pod, req[q].key, TransactionId(q), "answered")
      BY <2>1, Zenon DEF Complete
    <3>2. QED
      BY <1>2, <3>1
  <2>2. CASE Fail(q)
    BY <1>2, <2>2 DEF Fail
  <2>3. CASE Charge(q) \/ RefuseAtGateway(q)
    BY <2>3, GatewayKeeps
  <2>4. QED
    BY <1>4, <2>1, <2>2, <2>3
<1>5. ASSUME NEW p \in Pods, Gone(p), r \notin WaitingAt(p) PROVE req'[r] = req[r]
  BY <1>5, GoneReq DEF Base
<1>6. QED
  BY <1>1, <1>3, <1>4, <1>5, Steps

(* The answer a replay gives: that of entry i of the cache. *)
ReplayedAs(r, p, k, i) ==
  req'[r] = [phase |-> "done", pod |-> p, key |-> k, wire |-> "none",
             txn |-> cache[p][i].txn, reply |-> "answered"]

(* The two ways to answer: from the cache, *)
LEMMA ReplayAnswers ==
  ASSUME Base, NEW r \in Requests, NEW p \in Pods, NEW k \in Keys, Replay(r, p, k)
  PROVE  /\ Others(r)
         /\ \E i \in DOMAIN cache[p] : cache[p][i].key = k /\ ReplayedAs(r, p, k, i)
<1>1. PICK i \in DOMAIN cache[p] : cache[p][i] = EntryOf(p, k) /\ cache[p][i].key = k
  BY CachedEntry DEF Replay
<1>2. cache[p][i] \in Entry
  <2>1. cache[p] \in Seq(Entry)
    BY DEF Base, Caches
  <2>2. QED
    BY <2>1
<1>3. Reply(r, p, k, cache[p][i].txn, "answered")
  BY <1>1 DEF Replay
<1>4. Requested
  BY DEF Base
<1>5. /\ Others(r)
      /\ req'[r] = [phase |-> "done", pod |-> p, key |-> k, wire |-> req[r].wire,
                    txn |-> cache[p][i].txn, reply |-> "answered"]
  BY <1>3, <1>4, ReplyReq
<1>6. req[r].wire = "none"
  BY DEF Base, Phased, Replay, MaySend
<1>7. ReplayedAs(r, p, k, i)
  BY <1>5, <1>6 DEF ReplayedAs
<1>8. QED
  BY <1>1, <1>5, <1>7, Zenon

(* and from the gateway. *)
LEMMA CompleteAnswers ==
  ASSUME Base, NEW r \in Requests, Complete(r)
  PROVE  /\ Others(r) /\ req[r].pod \in Pods /\ req[r].key \in Keys /\ Waiting(r)
         /\ req[r].wire \in {"charged", "refused"}
         /\ req'[r] = [phase |-> "done", pod |-> req[r].pod, key |-> req[r].key,
                       wire |-> req[r].wire, txn |-> TransactionId(r), reply |-> "answered"]
<1>1. Waiting(r) /\ req[r].wire \in {"charged", "refused"}
  BY DEF Complete
<1>2. PICK p \in Pods, k \in Keys, t \in Txns, e \in Entry :
        p = req[r].pod /\ k = req[r].key /\ t = TransactionId(r) /\ e = [key |-> k, txn |-> t]
  BY <1>1, WaitingEntry
<1>3. Requested /\ Reply(r, p, k, t, "answered")
  BY <1>2, Zenon DEF Base, Complete
<1>4. /\ Others(r)
      /\ req'[r] = [phase |-> "done", pod |-> p, key |-> k, wire |-> req[r].wire,
                    txn |-> t, reply |-> "answered"]
  BY <1>3, ReplyReq
<1>5. QED
  BY <1>1, <1>2, <1>4

\* What Orderly says of one request.
OrderlyAs(q) ==
  /\ q.phase # "done" => q.reply = "none"
  /\ q.reply = "answered" => q.wire # "sent" /\ q.key \in Keys

LEMMA OrderlyStep ==
  ASSUME Base, Orderly, [Next]_vars
  PROVE  Orderly'
<1>1. ASSUME NEW r \in Requests PROVE OrderlyAs(req'[r])
  <2>1. OrderlyAs(req[r])
    BY DEF Orderly, OrderlyAs, Answered, Waiting, Forwarded
  <2>2. ASSUME NEW p \in Pods, NEW k \in Keys, Refuse(r, p, k) PROVE OrderlyAs(req'[r])
    <3>1. req[r].wire = "none"
      BY <2>2 DEF Base, Phased, Refuse, MaySend
    <3>2. PICK reply \in {"denied", "unavailable"} : Reply(r, req[r].pod, NoKey, NoTxn, reply)
      BY <2>2 DEF Refuse
    <3>3. req'[r].phase = "done" /\ req'[r].reply = reply /\ req'[r].wire = "none"
      BY <3>1, <3>2 DEF Reply, Base, Requested, RequestSet
    <3>4. QED
      BY <3>3 DEF OrderlyAs
  <2>3. ASSUME NEW p \in Pods, NEW k \in Keys, Replay(r, p, k) PROVE OrderlyAs(req'[r])
    <3>1. PICK i \in DOMAIN cache[p] : cache[p][i].key = k /\ ReplayedAs(r, p, k, i)
      BY <2>3, ReplayAnswers, Zenon
    <3>2. QED
      BY <3>1 DEF OrderlyAs, ReplayedAs
  <2>4. ASSUME NEW p \in Pods, NEW k \in Keys, Forward(r, p, k) PROVE OrderlyAs(req'[r])
    <3>1. req[r].phase = "new" /\ req[r].txn = NoTxn
      BY <2>4 DEF Base, Phased, Forward, MaySend
    <3>2. req[r].reply = "none"
      BY <2>1, <3>1 DEF OrderlyAs
    <3>3. req'[r] = [phase |-> "waiting", pod |-> p, key |-> k, wire |-> "sent",
                     txn |-> req[r].txn, reply |-> req[r].reply]
      BY <2>4, ForwardReq DEF Base
    <3>4. QED
      BY <3>1, <3>2, <3>3 DEF OrderlyAs
  <2>5. CASE Complete(r)
    <3>1. /\ req[r].key \in Keys /\ Waiting(r) /\ req[r].wire \in {"charged", "refused"}
          /\ req'[r] = [phase |-> "done", pod |-> req[r].pod, key |-> req[r].key,
                        wire |-> req[r].wire, txn |-> TransactionId(r), reply |-> "answered"]
      BY <2>5, CompleteAnswers
    <3>2. QED
      BY <2>1, <3>1 DEF OrderlyAs, Waiting
  <2>6. CASE Fail(r)
    <3>1. Reply(r, req[r].pod, req[r].key, NoTxn, "unavailable")
      BY <2>6 DEF Fail
    <3>2. req'[r].phase = "done" /\ req'[r].reply = "unavailable"
      BY <3>1 DEF Reply, Base, Requested, RequestSet
    <3>3. QED
      BY <3>2 DEF OrderlyAs
  <2>7. CASE Charge(r)
    <3>1. PICK n \in Nat : n = Len(ledger)
      BY DEF Base, Books
    <3>2. req'[r] = [phase |-> req[r].phase, pod |-> req[r].pod, key |-> req[r].key,
                     wire |-> "charged", txn |-> IF Waiting(r) THEN n + 1 ELSE req[r].txn,
                     reply |-> req[r].reply]
      BY <2>7, <3>1, ChargeReq DEF Base
    <3>3. req[r].wire = "sent"
      BY <2>7 DEF Charge
    <3>4. QED
      BY <2>1, <3>2, <3>3 DEF OrderlyAs
  <2>8. CASE RefuseAtGateway(r)
    <3>1. req'[r] = [phase |-> req[r].phase, pod |-> req[r].pod, key |-> req[r].key,
                     wire |-> "refused", txn |-> req[r].txn, reply |-> req[r].reply]
      BY <2>8, RefuseReq DEF Base
    <3>2. req[r].wire = "sent"
      BY <2>8 DEF RefuseAtGateway
    <3>3. QED
      BY <2>1, <3>1, <3>2 DEF OrderlyAs
  <2>9. ASSUME NEW p \in Pods, Gone(p), r \in WaitingAt(p) PROVE OrderlyAs(req'[r])
    <3>1. req'[r] = [phase |-> "done", pod |-> p, key |-> req[r].key, wire |-> req[r].wire,
                     txn |-> NoTxn, reply |-> "lost"]
      BY <2>9, GoneReq DEF Base
    <3>2. QED
      BY <3>1 DEF OrderlyAs
  <2>10. QED
    BY <2>1, <2>2, <2>3, <2>4, <2>5, <2>6, <2>7, <2>8, <2>9, RequestStep
<1>2. QED
  BY <1>1 DEF Orderly, OrderlyAs, Answered, Waiting, Forwarded


(* An answered request is never touched again. *)
LEMMA AnsweredStays ==
  ASSUME Base, Orderly, [Next]_vars, NEW r \in Requests, Answered(r)
  PROVE  req'[r] = req[r]
<1>1. req[r].phase = "done" /\ req[r].wire # "sent"
  BY DEF Orderly, Answered
<1>2. ASSUME NEW p \in Pods, NEW k \in Keys, Refuse(r, p, k) \/ Replay(r, p, k) \/ Forward(r, p, k)
      PROVE  FALSE
  BY <1>1, <1>2 DEF Refuse, Replay, Forward, MaySend
<1>3. ~(Complete(r) \/ Fail(r) \/ Charge(r) \/ RefuseAtGateway(r))
  BY <1>1 DEF Complete, Fail, Charge, RefuseAtGateway, Waiting
<1>4. \A p \in Pods : r \notin WaitingAt(p)
  BY <1>1 DEF WaitingAt, Waiting
<1>5. QED
  BY <1>2, <1>3, <1>4, RequestStep

(* A new answer comes from the cache or from the gateway. *)
LEMMA NewAnswer ==
  ASSUME Base, Orderly, [Next]_vars, NEW r \in Requests, ~Answered(r), Answered(r)'
  PROVE  Complete(r) \/ \E p \in Pods, k \in Keys : Replay(r, p, k)
<1>1. req[r].reply # "answered" /\ req'[r].reply = "answered"
  BY DEF Answered
<1>2. ASSUME NEW p \in Pods, NEW k \in Keys, Refuse(r, p, k) PROVE FALSE
  <2>1. PICK reply \in {"denied", "unavailable"} : Reply(r, req[r].pod, NoKey, NoTxn, reply)
    BY <1>2 DEF Refuse
  <2>2. req'[r].reply = reply
    BY <2>1 DEF Reply, Base, Requested, RequestSet
  <2>3. QED
    BY <1>1, <2>2
<1>3. ASSUME NEW p \in Pods, NEW k \in Keys, Forward(r, p, k) PROVE FALSE
  <2>1. req'[r] = [phase |-> "waiting", pod |-> p, key |-> k, wire |-> "sent",
                   txn |-> req[r].txn, reply |-> req[r].reply]
    BY <1>3, ForwardReq DEF Base
  <2>2. QED
    BY <1>1, <2>1
<1>4. ~Fail(r)
  <2>1. ASSUME Fail(r) PROVE FALSE
    <3>1. Reply(r, req[r].pod, req[r].key, NoTxn, "unavailable")
      BY <2>1 DEF Fail
    <3>2. req'[r].reply = "unavailable"
      BY <3>1 DEF Reply, Base, Requested, RequestSet
    <3>3. QED
      BY <1>1, <3>2
  <2>2. QED
    BY <2>1
<1>5. ASSUME Charge(r) PROVE FALSE
  <2>1. PICK n \in Nat : n = Len(ledger)
    BY DEF Base, Books
  <2>2. req'[r] = [phase |-> req[r].phase, pod |-> req[r].pod, key |-> req[r].key,
                   wire |-> "charged", txn |-> IF Waiting(r) THEN n + 1 ELSE req[r].txn,
                   reply |-> req[r].reply]
    BY <1>5, <2>1, ChargeReq DEF Base
  <2>3. QED
    BY <1>1, <2>2
<1>6. ASSUME RefuseAtGateway(r) PROVE FALSE
  <2>1. req'[r] = [phase |-> req[r].phase, pod |-> req[r].pod, key |-> req[r].key,
                   wire |-> "refused", txn |-> req[r].txn, reply |-> req[r].reply]
    BY <1>6, RefuseReq DEF Base
  <2>2. QED
    BY <1>1, <2>1
<1>7. ASSUME NEW p \in Pods, Gone(p), r \in WaitingAt(p) PROVE FALSE
  <2>1. req'[r] = [phase |-> "done", pod |-> p, key |-> req[r].key, wire |-> req[r].wire,
                   txn |-> NoTxn, reply |-> "lost"]
    BY <1>7, GoneReq DEF Base
  <2>2. QED
    BY <1>1, <2>1
<1>8. req'[r] # req[r]
  BY <1>1
<1>9. QED
  BY <1>2, <1>3, <1>4, <1>5, <1>6, <1>7, <1>8, RequestStep

-----------------------------------------------------------------------------
(* True replies *)

\* StandsFor, of any ledger and requests.
Named(l, q, t, k) ==
  \/ t \in DOMAIN l /\ l[t] = k
  \/ t \in Requests /\ q[t].wire = "refused" /\ q[t].key = k

\* The id of a request counts once it is answered, or as soon as the gateway has
\* charged for it while the handler waits.
Due(q) == q.reply = "answered" \/ (q.phase = "waiting" /\ q.wire = "charged")

Truth ==
  /\ \A r \in Requests : Due(req[r]) => Named(ledger, req, req[r].txn, req[r].key)
  /\ \A p \in Pods : \A i \in DOMAIN cache[p] :
       Named(ledger, req, cache[p][i].txn, cache[p][i].key)

(* The ledger only grows, and a refusal stays: what was named stays so. *)
LEMMA NamedStays ==
  ASSUME Base, [Next]_vars, NEW t, NEW k, Named(ledger, req, t, k)
  PROVE  Named(ledger', req', t, k)
<1>1. CASE t \in DOMAIN ledger /\ ledger[t] = k
  <2>1. ledger' = ledger \/ \E r \in Requests : ledger' = Append(ledger, req[r].key)
    BY LedgerStep DEF Charge
  <2>2. ledger \in Seq(Keys)
    BY DEF Base, Books
  <2>3. ASSUME NEW r \in Requests, ledger' = Append(ledger, req[r].key)
        PROVE  t \in DOMAIN ledger' /\ ledger'[t] = ledger[t]
    BY <1>1, <2>2, <2>3
  <2>4. QED
    BY <1>1, <2>1, <2>3 DEF Named
<1>2. CASE t \in Requests /\ req[t].wire = "refused" /\ req[t].key = k
  <2>1. Follows(t)
    BY <1>2, SentStep DEF Sent
  <2>2. req'[t].wire = "refused" /\ req'[t].key = k
    BY <1>2, <2>1 DEF Follows, Forwarded
  <2>3. QED
    BY <1>2, <2>2 DEF Named
<1>3. QED
  BY <1>1, <1>2 DEF Named

(* What one request becomes is all there is to check of the requests. *)
LEMMA ReqTruth ==
  ASSUME Base, Truth, [Next]_vars, NEW r \in Requests, Others(r),
         Due(req'[r]) => Named(ledger', req', req'[r].txn, req'[r].key)
  PROVE  \A q \in Requests : Due(req'[q]) => Named(ledger', req', req'[q].txn, req'[q].key)
<1> SUFFICES ASSUME NEW q \in Requests, q # r, Due(req'[q])
             PROVE  Named(ledger', req', req'[q].txn, req'[q].key)
  OBVIOUS
<1>1. req'[q] = req[q]
  BY DEF Others
<1>2. PICK t, k : t = req[q].txn /\ k = req[q].key
  OBVIOUS
<1>3. Named(ledger, req, t, k)
  BY <1>1, <1>2 DEF Truth
<1>4. Named(ledger', req', t, k)
  BY <1>3, NamedStays
<1>5. QED
  BY <1>1, <1>2, <1>4

LEMMA EntryStays ==
  ASSUME Base, Truth, [Next]_vars, NEW p \in Pods, NEW j \in DOMAIN cache[p]
  PROVE  Named(ledger', req', cache[p][j].txn, cache[p][j].key)
<1>1. PICK t, k : t = cache[p][j].txn /\ k = cache[p][j].key
  OBVIOUS
<1>2. Named(ledger, req, t, k)
  BY <1>1 DEF Truth
<1>3. Named(ledger', req', t, k)
  BY <1>2, NamedStays
<1>4. QED
  BY <1>1, <1>3

(* A cache whose entries were in it, or are the new one, stays true. *)
LEMMA CacheTruth ==
  ASSUME Base, Truth, [Next]_vars, NEW p \in Pods, NEW e, Named(ledger', req', e.txn, e.key),
         Within(cache'[p], cache[p], e)
  PROVE  \A i \in DOMAIN cache'[p] : Named(ledger', req', cache'[p][i].txn, cache'[p][i].key)
<1> SUFFICES ASSUME NEW i \in DOMAIN cache'[p]
             PROVE  Named(ledger', req', cache'[p][i].txn, cache'[p][i].key)
  OBVIOUS
<1>1. CASE cache'[p][i] = e
  BY <1>1
<1>2. ASSUME NEW j \in DOMAIN cache[p], cache'[p][i] = cache[p][j]
      PROVE  Named(ledger', req', cache'[p][i].txn, cache'[p][i].key)
  BY <1>2, EntryStays
<1>3. QED
  BY <1>1, <1>2 DEF Within

LEMMA SameCacheTruth ==
  ASSUME Base, Truth, [Next]_vars, NEW p \in Pods, cache'[p] = cache[p]
  PROVE  \A i \in DOMAIN cache'[p] : Named(ledger', req', cache'[p][i].txn, cache'[p][i].key)
  BY EntryStays

(* Where no cache changes, the requests decide. *)
LEMMA TruthOfRequests ==
  ASSUME Base, Truth, [Next]_vars, cache' = cache,
         \A q \in Requests : Due(req'[q]) => Named(ledger', req', req'[q].txn, req'[q].key)
  PROVE  Truth'
<1>1. \A p \in Pods : \A i \in DOMAIN cache'[p] :
        Named(ledger', req', cache'[p][i].txn, cache'[p][i].key)
  BY SameCacheTruth
<1>2. QED
  BY <1>1 DEF Truth, Due, Named

LEMMA ReplayTruth ==
  ASSUME Base, Truth, [Next]_vars,
         NEW r \in Requests, NEW p \in Pods, NEW k \in Keys, Replay(r, p, k)
  PROVE  Truth'
<1>1. PICK i \in DOMAIN cache[p] : cache[p][i].key = k /\ ReplayedAs(r, p, k, i)
  BY ReplayAnswers, Zenon
<1>2. Named(ledger', req', cache[p][i].txn, cache[p][i].key)
  BY EntryStays
<1>3. \A q \in Requests : Due(req'[q]) => Named(ledger', req', req'[q].txn, req'[q].key)
  <2>1. Others(r)
    BY ReplayAnswers
  <2>2. Named(ledger', req', req'[r].txn, req'[r].key)
    BY <1>1, <1>2 DEF ReplayedAs
  <2>3. QED
    BY <2>1, <2>2, ReqTruth
<1>4. ASSUME NEW q \in Pods
      PROVE  \A j \in DOMAIN cache'[q] : Named(ledger', req', cache'[q][j].txn, cache'[q][j].key)
  <2>1. Reordered(Touched(p, k), cache[p]) /\ cache' = [cache EXCEPT ![p] = Touched(p, k)]
    BY TouchedCache DEF Base, Caches, Replay
  <2>2. CASE q = p
    <3>1. cache'[p] = Touched(p, k)
      BY <2>1 DEF Base, Caches
    <3>2. Within(cache'[p], cache[p], cache[p][i])
      BY <2>1, <3>1 DEF Reordered, Within
    <3>3. QED
      BY <1>2, <2>2, <3>2, CacheTruth
  <2>3. CASE q # p
    <3>1. cache'[q] = cache[q]
      BY <2>1, <2>3 DEF Base, Caches
    <3>2. QED
      BY <3>1, SameCacheTruth
  <2>4. QED
    BY <2>2, <2>3
<1>5. QED
  BY <1>3, <1>4 DEF Truth, Due, Named

(* What the handler answers with is true already: the gateway charged for its
   request, or the made-up id stands for the refusal. *)
LEMMA AnswerNamed ==
  ASSUME Base, Truth, NEW r \in Requests, Waiting(r), req[r].wire \in {"charged", "refused"}
  PROVE  Named(ledger, req, TransactionId(r), req[r].key)
<1>1. CASE req[r].wire = "charged"
  <2>1. Named(ledger, req, req[r].txn, req[r].key)
    BY <1>1 DEF Truth, Due, Waiting
  <2>2. TransactionId(r) = req[r].txn
    BY <1>1 DEF TransactionId
  <2>3. QED
    BY <2>1, <2>2
<1>2. CASE req[r].wire = "refused"
  <2>1. TransactionId(r) = r
    BY <1>2 DEF TransactionId
  <2>2. QED
    BY <1>2, <2>1 DEF Named
<1>3. QED
  BY <1>1, <1>2

LEMMA CompleteTruth ==
  ASSUME Base, Truth, [Next]_vars, NEW r \in Requests, Complete(r)
  PROVE  Truth'
<1>1. PICK p \in Pods, k \in Keys, t \in Txns, e \in Entry :
        p = req[r].pod /\ k = req[r].key /\ t = TransactionId(r) /\ e = [key |-> k, txn |-> t]
  BY WaitingEntry DEF Complete
<1>2. Named(ledger', req', t, k)
  <2>1. Named(ledger, req, t, k)
    BY <1>1, AnswerNamed DEF Complete
  <2>2. QED
    BY <2>1, NamedStays
<1>3. \A q \in Requests : Due(req'[q]) => Named(ledger', req', req'[q].txn, req'[q].key)
  <2>1. /\ Others(r)
        /\ req'[r] = [phase |-> "done", pod |-> req[r].pod, key |-> req[r].key,
                      wire |-> req[r].wire, txn |-> TransactionId(r), reply |-> "answered"]
    BY CompleteAnswers
  <2>2. Named(ledger', req', req'[r].txn, req'[r].key)
    BY <1>1, <1>2, <2>1
  <2>3. QED
    BY <2>1, <2>2, ReqTruth
<1>4. ASSUME NEW q \in Pods
      PROVE  \A j \in DOMAIN cache'[q] : Named(ledger', req', cache'[q][j].txn, cache'[q][j].key)
  <2>1. cache' = [cache EXCEPT ![p] = Stored(p, e)]
    BY <1>1, Zenon DEF Complete
  <2>2. CASE q = p
    <3>1. cache'[p] = Stored(p, e)
      BY <2>1 DEF Base, Caches
    <3>2. Within(cache'[p], cache[p], e)
      BY <3>1, StoredCache DEF Base, Caches
    <3>3. Named(ledger', req', e.txn, e.key)
      BY <1>1, <1>2
    <3>4. QED
      BY <2>2, <3>2, <3>3, CacheTruth
  <2>3. CASE q # p
    <3>1. cache'[q] = cache[q]
      BY <2>1, <2>3 DEF Base, Caches
    <3>2. QED
      BY <3>1, SameCacheTruth
  <2>4. QED
    BY <2>2, <2>3
<1>5. QED
  BY <1>3, <1>4 DEF Truth, Due, Named

LEMMA UnansweredTruth ==
  ASSUME Base, Orderly, Truth, [Next]_vars, NEW r \in Requests,
         \/ Fail(r)
         \/ \E p \in Pods, k \in Keys : Refuse(r, p, k) \/ Forward(r, p, k)
  PROVE  Truth'
<1>1. cache' = cache
  BY DEF Fail, Refuse, Forward
<1>2. Others(r) /\ ~Due(req'[r])
  <2>1. CASE Fail(r)
    <3>1. Requested /\ Reply(r, req[r].pod, req[r].key, NoTxn, "unavailable")
      BY <2>1 DEF Base, Fail
    <3>2. /\ Others(r)
          /\ req'[r] = [phase |-> "done", pod |-> req[r].pod, key |-> req[r].key,
                        wire |-> req[r].wire, txn |-> NoTxn, reply |-> "unavailable"]
      BY <3>1, ReplyReq
    <3>3. QED
      BY <3>2 DEF Due
  <2>2. ASSUME NEW p \in Pods, NEW k \in Keys, Refuse(r, p, k)
        PROVE  Others(r) /\ ~Due(req'[r])
    <3>1. PICK reply \in {"denied", "unavailable"} : Reply(r, req[r].pod, NoKey, NoTxn, reply)
      BY <2>2 DEF Refuse
    <3>2. req'[r].phase = "done" /\ req'[r].reply = reply /\ Others(r)
      BY <3>1 DEF Reply, Base, Requested, RequestSet, Others
    <3>3. QED
      BY <3>2 DEF Due
  <2>3. ASSUME NEW p \in Pods, NEW k \in Keys, Forward(r, p, k)
        PROVE  Others(r) /\ ~Due(req'[r])
    <3>1. /\ Others(r)
          /\ req'[r] = [phase |-> "waiting", pod |-> p, key |-> k, wire |-> "sent",
                        txn |-> req[r].txn, reply |-> req[r].reply]
      BY <2>3, ForwardReq DEF Base
    <3>2. req[r].reply = "none"
      BY <2>3 DEF Orderly, Forward, MaySend
    <3>3. QED
      BY <3>1, <3>2 DEF Due
  <2>4. QED
    BY <2>1, <2>2, <2>3
<1>3. QED
  BY <1>1, <1>2, ReqTruth, TruthOfRequests

LEMMA GatewayTruth ==
  ASSUME Base, Orderly, Truth, [Next]_vars, NEW r \in Requests, Charge(r) \/ RefuseAtGateway(r)
  PROVE  Truth'
<1>1. cache' = cache /\ req[r].wire = "sent"
  BY DEF Charge, RefuseAtGateway
<1>2. PICK n \in Nat : n = Len(ledger) /\ ledger \in Seq(Keys) /\ req[r].key \in Keys
  <2>1. ledger \in Seq(Keys) /\ Len(ledger) \in Nat
    BY DEF Base, Books
  <2>2. req[r].key \in Keys
    BY <1>1 DEF Base, Phased, Forwarded
  <2>3. QED
    BY <2>1, <2>2
<1>3. req[r].reply # "answered"
  BY <1>1 DEF Orderly, Answered
<1>4. Others(r) /\ (Due(req'[r]) => Named(ledger', req', req'[r].txn, req'[r].key))
  <2>1. CASE Charge(r)
    <3>1. /\ Others(r)
          /\ req'[r] = [phase |-> req[r].phase, pod |-> req[r].pod, key |-> req[r].key,
                        wire |-> "charged",
                        txn |-> IF Waiting(r) THEN Len(ledger) + 1 ELSE req[r].txn,
                        reply |-> req[r].reply]
      BY <1>2, <2>1, ChargeReq DEF Base
    <3>2. Due(req'[r]) => req'[r].txn = n + 1
      BY <1>2, <1>3, <3>1 DEF Due, Waiting
    <3>3. ledger' = Append(ledger, req[r].key)
      BY <2>1 DEF Charge
    <3>4. Named(ledger', req', n + 1, req[r].key)
      BY <1>2, <3>3 DEF Named
    <3>5. QED
      BY <3>1, <3>2, <3>4
  <2>2. CASE RefuseAtGateway(r)
    <3>1. /\ Others(r)
          /\ req'[r] = [phase |-> req[r].phase, pod |-> req[r].pod, key |-> req[r].key,
                        wire |-> "refused", txn |-> req[r].txn, reply |-> req[r].reply]
      BY <2>2, RefuseReq DEF Base
    <3>2. ~Due(req'[r])
      BY <1>3, <3>1 DEF Due
    <3>3. QED
      BY <3>1, <3>2
  <2>3. QED
    BY <2>1, <2>2
<1>5. QED
  BY <1>1, <1>4, ReqTruth, TruthOfRequests

LEMMA GoneTruth ==
  ASSUME Base, Truth, [Next]_vars, NEW p \in Pods, Gone(p)
  PROVE  Truth'
<1>1. cache' = [cache EXCEPT ![p] = << >>]
  BY DEF Gone
<1>2. ASSUME NEW r \in Requests, Due(req'[r])
      PROVE  Named(ledger', req', req'[r].txn, req'[r].key)
  <2>1. r \notin WaitingAt(p)
    <3>1. ASSUME r \in WaitingAt(p) PROVE FALSE
      <4>1. req'[r] = [phase |-> "done", pod |-> p, key |-> req[r].key, wire |-> req[r].wire,
                       txn |-> NoTxn, reply |-> "lost"]
        BY <3>1, GoneReq DEF Base
      <4>2. QED
        BY <1>2, <4>1 DEF Due
    <3>2. QED
      BY <3>1
  <2>2. req'[r] = req[r]
    BY <2>1, GoneReq DEF Base
  <2>3. PICK t, k : t = req[r].txn /\ k = req[r].key
    OBVIOUS
  <2>4. Named(ledger, req, t, k)
    BY <1>2, <2>2, <2>3 DEF Truth
  <2>5. Named(ledger', req', t, k)
    BY <2>4, NamedStays
  <2>6. QED
    BY <2>2, <2>3, <2>5
<1>3. ASSUME NEW q \in Pods
      PROVE  \A i \in DOMAIN cache'[q] : Named(ledger', req', cache'[q][i].txn, cache'[q][i].key)
  <2>1. CASE q = p
    <3>1. cache'[q] = << >>
      BY <1>1, <2>1 DEF Base, Caches
    <3>2. QED
      BY <3>1
  <2>2. CASE q # p
    <3>1. cache'[q] = cache[q]
      BY <1>1, <2>2 DEF Base, Caches
    <3>2. QED
      BY <3>1, SameCacheTruth
  <2>3. QED
    BY <2>1, <2>2
<1>4. QED
  BY <1>2, <1>3 DEF Truth, Due, Named

LEMMA TruthStep == Base /\ Orderly /\ Truth /\ [Next]_vars => Truth'
<1> SUFFICES ASSUME Base, Orderly, Truth, [Next]_vars PROVE Truth'
  OBVIOUS
<1>1. CASE UNCHANGED <<cache, req, ledger>>
  BY <1>1 DEF Truth, Due, Named
<1>2. QED
  BY <1>1, Steps, ReplayTruth, CompleteTruth, UnansweredTruth, GatewayTruth, GoneTruth

LEMMA TruthInit == Init => Orderly /\ Truth
<1> SUFFICES ASSUME Init PROVE Orderly /\ Truth
  OBVIOUS
<1>1. \A r \in Requests : req[r].reply = "none" /\ req[r].wire = "none"
  BY DEF Init, NewRequest
<1>2. \A p \in Pods : cache[p] = << >>
  BY DEF Init
<1>3. QED
  BY <1>1, <1>2 DEF Orderly, Answered, Truth, Due

(* Every transaction_id that is answered or cached for a key is a transaction
   that the gateway made for that very key, or was made up for a request for it
   that the gateway refused. *)
THEOREM TrueReplies == Spec => []RepliesAreTrue
<1>1. Init => Orderly /\ Truth
  BY TruthInit
<1>2. Base /\ Orderly /\ Truth /\ [Next]_vars => (Orderly /\ Truth)'
  BY OrderlyStep, TruthStep
<1>3. Truth => RepliesAreTrue
  BY DEF Truth, Due, Named, StandsFor, RepliesAreTrue, Entries
<1>4. QED
  BY <1>1, <1>2, <1>3, BaseInvariant, PTL DEF Spec

-----------------------------------------------------------------------------
(* Charged twice *)

Held(p, k) == k \in KeysOf(cache[p])

\* While nothing excuses it, a key has one forwarded request, which is on its
\* way or answered from the cache of its replica, and one charge, made for a
\* forwarded request.
Single ==
  \A q, r \in Requests :
    Forwarded(q) /\ Forwarded(r) /\ req[q].key = req[r].key /\ excuse[req[r].key] = {} => q = r

Kept ==
  \A r \in Requests :
    Forwarded(r) /\ excuse[req[r].key] = {} => Waiting(r) \/ Held(req[r].pod, req[r].key)

ChargedFor ==
  \A i \in DOMAIN ledger : \E r \in Requests : req[r].wire = "charged" /\ req[r].key = ledger[i]

ChargedOnce ==
  \A i, j \in DOMAIN ledger : ledger[i] = ledger[j] /\ excuse[ledger[i]] = {} => i = j

Once == Single /\ Kept /\ ChargedFor /\ ChargedOnce

(* An excuse is never forgotten. *)
LEMMA ExcusesStay ==
  ASSUME Base, [Next]_vars, NEW k \in Keys, excuse'[k] = {}
  PROVE  excuse[k] = {}
<1> excuse \in [Keys -> SUBSET Excuses]
  BY DEF Base, Books
<1>1. ASSUME NEW r \in Requests, NEW p \in Pods, NEW c \in Keys, Forward(r, p, c)
      PROVE  excuse[k] = {}
  <2>1. excuse' = [excuse EXCEPT ![c] = @ \cup WhyNotCached(p, c)]
    BY <1>1 DEF Forward
  <2>2. QED
    BY <2>1
<1>2. ASSUME NEW ks, NEW why, Excused(ks, why) PROVE excuse[k] = {}
  BY <1>2 DEF Excused
<1>3. ASSUME NEW p \in Pods, Gone(p) PROVE excuse[k] = {}
  BY <1>3 DEF Gone
<1>4. ASSUME NEW r \in Requests, Complete(r) \/ Fail(r) PROVE excuse[k] = {}
  <2>1. \E ks, why : Excused(ks, why)
    BY <1>4, Zenon DEF Complete, Fail
  <2>2. QED
    BY <1>2, <2>1
<1>5. CASE excuse' = excuse
  BY <1>5
<1>6. ASSUME NEW r \in Requests,
             \/ Charge(r) \/ RefuseAtGateway(r)
             \/ \E p \in Pods, c \in Keys : Refuse(r, p, c) \/ Replay(r, p, c)
      PROVE  excuse' = excuse
  BY <1>6 DEF Refuse, Replay, Charge, RefuseAtGateway
<1>7. QED
  BY <1>1, <1>3, <1>4, <1>5, <1>6, Steps

(* A key leaves a cache only with an excuse. *)
LEMMA HeldStays ==
  ASSUME Base, [Next]_vars, NEW p \in Pods, NEW k \in Keys, Held(p, k), excuse'[k] = {}
  PROVE  Held(p, k)'
<1>1. ASSUME NEW r \in Requests, NEW c \in Keys, NEW o \in Pods, Replay(r, o, c)
      PROVE  Held(p, k)'
  <2>1. Reordered(Touched(o, c), cache[o]) /\ cache' = [cache EXCEPT ![o] = Touched(o, c)]
    BY <1>1, TouchedCache DEF Base, Caches, Replay
  <2>2. KeysOf(cache'[p]) = KeysOf(cache[p])
    BY <2>1 DEF Base, Caches, Reordered
  <2>3. QED
    BY <2>2 DEF Held
<1>2. ASSUME NEW r \in Requests, Complete(r)
      PROVE  Held(p, k)'
  <2> DEFINE o == req[r].pod
             s == Stored(o, [key |-> req[r].key, txn |-> TransactionId(r)])
  <2>1. /\ cache' = [cache EXCEPT ![o] = s]
        /\ Excused({e.key : e \in Entries(o)} \ {s[i].key : i \in DOMAIN s}, "evicted")
    BY <1>2, Zenon DEF Complete
  <2> HIDE DEF o, s
  <2>2. CASE o # p
    BY <2>1, <2>2 DEF Base, Caches, Held
  <2>3. CASE o = p
    <3>1. cache'[p] = s
      BY <2>1, <2>3 DEF Base, Caches
    <3>2. k \in {e.key : e \in Entries(p)}
      BY DEF Held, KeysOf, Entries
    <3>3. k \in {s[i].key : i \in DOMAIN s}
      BY <2>1, <2>3, <3>2 DEF Excused
    <3>4. QED
      BY <3>1, <3>3 DEF Held, KeysOf
  <2>4. QED
    BY <2>2, <2>3
<1>3. ASSUME NEW o \in Pods, Gone(o)
      PROVE  Held(p, k)'
  <2>1. cache' = [cache EXCEPT ![o] = << >>]
    BY <1>3 DEF Gone
  <2>2. CASE o # p
    BY <2>1, <2>2 DEF Base, Caches, Held
  <2>3. CASE o = p
    <3>1. Cached(p, k)
      BY CachedEntry DEF Held
    <3>2. "restart" \in excuse'[k]
      BY <1>3, <2>3, <3>1 DEF Gone
    <3>3. QED
      BY <3>2
  <2>4. QED
    BY <2>2, <2>3
<1>4. CASE cache' = cache
  BY <1>4 DEF Held
<1>5. ASSUME NEW r \in Requests,
             \/ Fail(r) \/ Charge(r) \/ RefuseAtGateway(r)
             \/ \E o \in Pods, c \in Keys : Refuse(r, o, c) \/ Forward(r, o, c)
      PROVE  cache' = cache
  BY <1>5 DEF Refuse, Forward, Fail, Charge, RefuseAtGateway
<1>6. QED
  BY <1>1, <1>2, <1>3, <1>4, <1>5, Steps

(* A handler that stops waiting has cached the answer, or its key an excuse. *)
LEMMA WaitingEnds ==
  ASSUME Base, [Next]_vars, NEW r \in Requests, Waiting(r), ~Waiting(r)',
         NEW o \in Pods, NEW c \in Keys, o = req[r].pod, c = req[r].key, excuse'[c] = {}
  PROVE  Held(o, c)'
<1>0. req[r].phase = "waiting" /\ req'[r].phase # "waiting"
  BY DEF Waiting
<1>1. ASSUME NEW q \in Requests, Others(q), q # r PROVE FALSE
  BY <1>0, <1>1 DEF Others
<1>2. ASSUME NEW q \in Requests, NEW p \in Pods, NEW k \in Keys,
             Refuse(q, p, k) \/ Replay(q, p, k) \/ Forward(q, p, k)
      PROVE  FALSE
  <2>1. q # r
    BY <1>0, <1>2 DEF Refuse, Replay, Forward, MaySend
  <2>2. CASE Forward(q, p, k)
    BY <1>1, <2>1, <2>2, ForwardReq DEF Base
  <2>3. ASSUME NEW d, NEW h, NEW t, NEW reply, Reply(q, d, h, t, reply) PROVE Others(q)
    BY <2>3 DEF Base, Requested, RequestSet, Reply, Others
  <2>4. QED
    BY <1>1, <1>2, <2>1, <2>2, <2>3 DEF Refuse, Replay
<1>3. ASSUME NEW q \in Requests, Charge(q) \/ RefuseAtGateway(q)
      PROVE  FALSE
  <2>1. Others(q) /\ req'[q].phase = req[q].phase
    BY <1>3, GatewayKeeps
  <2>2. QED
    BY <1>0, <1>1, <2>1
<1>4. ASSUME NEW q \in Requests, Fail(q) PROVE FALSE
  <2>1. Reply(q, req[q].pod, req[q].key, NoTxn, "unavailable")
        /\ Excused({req[q].key}, "unanswered")
    BY <1>4 DEF Fail
  <2>2. Others(q)
    BY <2>1 DEF Base, Requested, RequestSet, Reply, Others
  <2>3. q = r
    BY <1>1, <2>2
  <2>4. QED
    BY <1>0, <2>1, <2>3 DEF Excused
<1>5. ASSUME NEW q \in Requests, Complete(q) PROVE Held(o, c)'
  <2>1. PICK p \in Pods, k \in Keys, t \in Txns, e \in Entry :
          p = req[q].pod /\ k = req[q].key /\ t = TransactionId(q) /\ e = [key |-> k, txn |-> t]
    BY <1>5, WaitingEntry DEF Complete
  <2>2. Reply(q, p, k, t, "answered") /\ cache' = [cache EXCEPT ![p] = Stored(p, e)]
    BY <1>5, <2>1, Zenon DEF Complete
  <2>3. Others(q)
    BY <2>2 DEF Base, Requested, RequestSet, Reply, Others
  <2>4. q = r
    BY <1>1, <2>3
  <2>5. e.key \in KeysOf(Stored(p, e)) /\ cache'[p] = Stored(p, e)
    BY <2>2, StoredCache DEF Base, Caches
  <2>6. e.key = c /\ p = o
    BY <2>1, <2>4
  <2>7. QED
    BY <2>5, <2>6 DEF Held
<1>6. ASSUME NEW p \in Pods, Gone(p) PROVE FALSE
  <2>1. r \in WaitingAt(p)
    BY <1>0, <1>6, GoneReq DEF Base
  <2>2. "unanswered" \in excuse'[c]
    BY <1>6, <2>1 DEF Gone
  <2>3. QED
    BY <2>2
<1>7. CASE req' = req
  BY <1>0, <1>7
<1>8. QED
  BY <1>2, <1>3, <1>4, <1>5, <1>6, <1>7, Steps

(* A new request waits, with its key, and the others are as before. *)
LEMMA ForwardSent ==
  ASSUME Base, NEW r \in Requests, NEW p \in Pods, NEW k \in Keys, Forward(r, p, k)
  PROVE  req'[r].phase = "waiting" /\ req'[r].key = k /\ Others(r)
<1>1. /\ Others(r)
      /\ req'[r] = [phase |-> "waiting", pod |-> p, key |-> k, wire |-> "sent",
                    txn |-> req[r].txn, reply |-> req[r].reply]
  BY ForwardReq DEF Base
<1>2. QED
  BY <1>1

LEMMA KeptStep ==
  ASSUME Base, Once, [Next]_vars
  PROVE  Kept'
<1>1. ASSUME NEW r \in Requests, Forwarded(r)', (excuse[req[r].key] = {})'
      PROVE  (Waiting(r) \/ Held(req[r].pod, req[r].key))'
  <2>1. CASE Forwarded(r)
    <3>1. req'[r].key = req[r].key /\ req'[r].pod = req[r].pod
      BY <2>1, SentStep DEF Sent, Follows
    <3>2. PICK p \in Pods, k \in Keys : p = req[r].pod /\ k = req[r].key
      BY <2>1 DEF Base, Phased, Requested, RequestSet
    <3>3. excuse'[k] = {}
      BY <1>1, <3>1, <3>2
    <3>4. Waiting(r) \/ Held(p, k)
      BY <2>1, <3>2, <3>3, ExcusesStay DEF Once, Kept
    <3>5. Waiting(r)' \/ Held(p, k)'
      BY <3>2, <3>3, <3>4, HeldStays, WaitingEnds
    <3>6. QED
      BY <3>1, <3>2, <3>5 DEF Held
  <2>2. CASE ~Forwarded(r)
    <3>1. PICK p \in Pods, k \in Keys : Forward(r, p, k)
      BY <1>1, <2>2, SentStep DEF Sent, FirstSent
    <3>2. req'[r].phase = "waiting"
      BY <3>1, ForwardSent
    <3>3. QED
      BY <3>2 DEF Waiting
  <2>3. QED
    BY <2>1, <2>2
<1>2. QED
  BY <1>1 DEF Kept

LEMMA SingleStep ==
  ASSUME Base, Once, [Next]_vars
  PROVE  Single'
<1>1. ASSUME NEW r \in Requests, NEW q \in Requests, q # r, NEW p \in Pods, NEW k \in Keys,
             Forward(r, p, k), Forwarded(q)', req'[q].key = k, excuse'[k] = {}
      PROVE  FALSE
  <2>1. Forwarded(q) /\ req[q].key = k
    BY <1>1, ForwardSent DEF Others, Forwarded
  <2>2. WhyNotCached(p, k) = {} /\ excuse[k] = {}
    <3>1. excuse' = [excuse EXCEPT ![k] = @ \cup WhyNotCached(p, k)]
      BY <1>1 DEF Forward
    <3>2. QED
      BY <1>1, <3>1 DEF Base, Books
  <2>3. ~Waiting(q) /\ req[q].pod = p
    BY <2>1, <2>2 DEF WhyNotCached
  <2>4. Held(p, k)
    BY <2>1, <2>2, <2>3 DEF Once, Kept
  <2>5. Cached(p, k)
    BY <2>4, CachedEntry DEF Held
  <2>6. QED
    BY <1>1, <2>5 DEF Forward
<1>2. ASSUME NEW q \in Requests, NEW r \in Requests, q # r, Forwarded(q)', Forwarded(r)',
             req'[q].key = req'[r].key, excuse'[req'[r].key] = {}
      PROVE  FALSE
  <2>1. CASE Forwarded(q) /\ Forwarded(r)
    <3>1. req'[q].key = req[q].key /\ req'[r].key = req[r].key /\ req[r].key \in Keys
      BY <2>1, SentStep DEF Sent, Follows, Base, Phased
    <3>2. excuse[req[r].key] = {}
      BY <1>2, <3>1, ExcusesStay
    <3>3. QED
      BY <1>2, <2>1, <3>1, <3>2 DEF Once, Single
  <2>2. CASE ~Forwarded(r)
    <3>1. PICK p \in Pods, k \in Keys : Forward(r, p, k)
      BY <1>2, <2>2, SentStep DEF Sent, FirstSent
    <3>2. req'[r].key = k
      BY <3>1, ForwardSent
    <3>3. QED
      BY <1>1, <1>2, <3>1, <3>2
  <2>3. CASE ~Forwarded(q)
    <3>1. PICK p \in Pods, k \in Keys : Forward(q, p, k)
      BY <1>2, <2>3, SentStep DEF Sent, FirstSent
    <3>2. req'[q].key = k
      BY <3>1, ForwardSent
    <3>3. QED
      BY <1>1, <1>2, <3>1, <3>2
  <2>4. QED
    BY <2>1, <2>2, <2>3
<1>3. QED
  BY <1>2 DEF Single

LEMMA LedgerOnce ==
  ASSUME Base, Once, [Next]_vars
  PROVE  ChargedFor' /\ ChargedOnce'
<1>1. CASE ledger' = ledger
  <2>1. ChargedFor'
    <3>1. ASSUME NEW i \in DOMAIN ledger
          PROVE  \E r \in Requests : req'[r].wire = "charged" /\ req'[r].key = ledger[i]
      <4>1. PICK r \in Requests : req[r].wire = "charged" /\ req[r].key = ledger[i]
        BY DEF Once, ChargedFor
      <4>2. req'[r].wire = "charged" /\ req'[r].key = ledger[i]
        BY <4>1, SentStep DEF Sent, Follows, Forwarded
      <4>3. QED
        BY <4>2
    <3>2. QED
      BY <1>1, <3>1 DEF ChargedFor
  <2>2. ChargedOnce'
    <3>1. \A i \in DOMAIN ledger : ledger[i] \in Keys
      BY DEF Base, Books
    <3>2. \A i \in DOMAIN ledger : excuse'[ledger[i]] = {} => excuse[ledger[i]] = {}
      BY <3>1, ExcusesStay
    <3>3. QED
      BY <1>1, <3>2 DEF Once, ChargedOnce
  <2>3. QED
    BY <2>1, <2>2
<1>2. ASSUME NEW r \in Requests, Charge(r)
      PROVE  ChargedFor' /\ ChargedOnce'
  <2>1. PICK n \in Nat : n = Len(ledger) /\ DOMAIN ledger = 1 .. n
    BY DEF Base, Books
  <2>2. req[r].wire = "sent" /\ req'[r].wire = "charged" /\ req'[r].key = req[r].key
    <3>1. req'[r] = [phase |-> req[r].phase, pod |-> req[r].pod, key |-> req[r].key,
                     wire |-> "charged",
                     txn |-> IF Waiting(r) THEN Len(ledger) + 1 ELSE req[r].txn,
                     reply |-> req[r].reply]
      BY <1>2, <2>1, ChargeReq DEF Base
    <3>2. QED
      BY <1>2, <3>1 DEF Charge
  <2>3. Forwarded(r) /\ req[r].key \in Keys
    BY <2>2 DEF Forwarded, Base, Phased
  <2>4. /\ DOMAIN ledger' = 1 .. n + 1 /\ ledger'[n + 1] = req[r].key
        /\ \A i \in 1 .. n : ledger'[i] = ledger[i] /\ ledger[i] \in Keys
    <3>1. ledger \in Seq(Keys) /\ ledger' = Append(ledger, req[r].key)
      BY <1>2 DEF Base, Books, Charge
    <3>2. QED
      BY <2>1, <2>3, <3>1
  <2>5. ASSUME NEW i \in 1 .. n
        PROVE  \E q \in Requests : req'[q].wire = "charged" /\ req'[q].key = ledger[i]
    <3>1. PICK q \in Requests : req[q].wire = "charged" /\ req[q].key = ledger[i]
      BY <2>1 DEF Once, ChargedFor
    <3>2. req'[q].wire = "charged" /\ req'[q].key = ledger[i]
      BY <3>1, SentStep DEF Sent, Follows, Forwarded
    <3>3. QED
      BY <3>2
  <2>6. ASSUME NEW i \in 1 .. n, ledger[i] = req[r].key, excuse'[req[r].key] = {}
        PROVE  FALSE
    <3>1. PICK q \in Requests : req[q].wire = "charged" /\ req[q].key = ledger[i]
      BY <2>1 DEF Once, ChargedFor
    <3>2. Forwarded(q) /\ excuse[req[r].key] = {}
      BY <2>3, <2>6, <3>1, ExcusesStay DEF Forwarded
    <3>3. q = r
      BY <2>3, <2>6, <3>1, <3>2 DEF Once, Single
    <3>4. QED
      BY <2>2, <3>1, <3>3
  <2>7. ChargedFor'
    <3>1. ASSUME NEW i \in 1 .. n + 1
          PROVE  \E q \in Requests : req'[q].wire = "charged" /\ req'[q].key = ledger'[i]
      <4>1. i \in 1 .. n \/ i = n + 1
        OBVIOUS
      <4>2. QED
        BY <2>2, <2>4, <2>5, <4>1
    <3>2. QED
      BY <2>4, <3>1 DEF ChargedFor
  <2>8. ChargedOnce'
    <3>1. ASSUME NEW i \in 1 .. n + 1, NEW j \in 1 .. n + 1,
                 ledger'[i] = ledger'[j], excuse'[ledger'[i]] = {}
          PROVE  i = j
      <4>1. CASE i \in 1 .. n /\ j \in 1 .. n
        <5>1. ledger[i] = ledger[j] /\ excuse[ledger[i]] = {}
          BY <2>4, <3>1, <4>1, ExcusesStay
        <5>2. QED
          BY <2>1, <4>1, <5>1 DEF Once, ChargedOnce
      <4>2. CASE i \in 1 .. n /\ j = n + 1
        BY <2>4, <2>6, <3>1, <4>2
      <4>3. CASE i = n + 1 /\ j \in 1 .. n
        BY <2>4, <2>6, <3>1, <4>3
      <4>4. CASE i = n + 1 /\ j = n + 1
        BY <4>4
      <4>5. i \in 1 .. n \/ i = n + 1
        OBVIOUS
      <4>6. j \in 1 .. n \/ j = n + 1
        OBVIOUS
      <4>7. QED
        BY <4>1, <4>2, <4>3, <4>4, <4>5, <4>6
    <3>2. QED
      BY <2>4, <3>1 DEF ChargedOnce
  <2>9. QED
    BY <2>7, <2>8
<1>3. QED
  BY <1>1, <1>2, LedgerStep

LEMMA OnceStep == Base /\ Once /\ [Next]_vars => Once'
  BY KeptStep, SingleStep, LedgerOnce DEF Once

(* Two charges of a key are two places in the ledger. *)
LEMMA OneCharge ==
  ASSUME Base, Once, NEW k \in Keys, excuse[k] = {}
  PROVE  Charges(k) \in {0, 1}
<1> DEFINE at == {i \in DOMAIN ledger : ledger[i] = k}
<1>1. CASE at = {}
  BY <1>1, FS_EmptySet DEF Charges, ChargedTo
<1>2. ASSUME NEW i \in at PROVE Charges(k) = 1
  <2>1. at = {i}
    BY <1>2 DEF Once, ChargedOnce
  <2>2. Cardinality(at) = 1
    BY <2>1, FS_Singleton
  <2>3. QED
    BY <2>2 DEF Charges, ChargedTo
<1>3. QED
  BY <1>1, <1>2

(* The first request makes the invariant true. *)
LEMMA OnceInit == Init => Once
<1> SUFFICES ASSUME Init PROVE Once
  OBVIOUS
<1>1. \A r \in Requests : ~Forwarded(r)
  BY DEF Init, NewRequest, Forwarded
<1>2. ledger = << >>
  BY DEF Init
<1>3. QED
  BY <1>1, <1>2 DEF Once, Single, Kept, ChargedFor, ChargedOnce

(* A key is charged twice only after a concurrent duplicate, an attempt without
   an answer, an eviction, a restart or a retry at another replica: for any
   number of replicas, requests and entries there is no other way past the
   cache. *)
THEOREM DoubleChargesAreExplained == Spec => []DoubleChargeHasACause
<1>1. Base /\ Once => DoubleChargeHasACause
  BY OneCharge DEF DoubleChargeHasACause
<1>2. QED
  BY <1>1, OnceInit, OnceStep, BaseInvariant, PTL DEF Spec

-----------------------------------------------------------------------------
(* Charged exactly once *)

\* What it takes to keep the README's promise: one replica that is not stopped
\* and whose cache has room for every key, clients that wait for an answer
\* before they retry, and gateway calls that all end with one.
Undisturbed ==
  /\ OneAtATime /\ ~CallsFail /\ ~PodsRestart
  /\ \A p, q \in Pods : p = q
  /\ IsFiniteSet(Keys) /\ Cardinality(Keys) <= MaxEntries

\* A replica that was never stopped, and no key with an excuse.
Unexcused == (\A p \in Pods : pod[p] = "up") /\ (\A k \in Keys : excuse[k] = {})

(* A sequence with one entry for a key is no longer than the keys are many. *)
LEMMA ShortEnough ==
  ASSUME IsFiniteSet(Keys), Cardinality(Keys) <= MaxEntries,
         NEW s \in Seq(Entry), OneEach(s)
  PROVE  Len(s) <= MaxEntries
<1>1. PICK n \in Nat : n = Len(s) /\ DOMAIN s = 1 .. n
  OBVIOUS
<1>2. IsFiniteSet(1 .. n) /\ Cardinality(1 .. n) = n
  BY FS_Interval
<1>3. PICK f : f = [i \in 1 .. n |-> s[i].key]
  OBVIOUS
<1>4. f \in [1 .. n -> Keys] /\ \A i \in 1 .. n : f[i] = s[i].key
  <2>1. \A i \in 1 .. n : s[i] \in Entry
    BY <1>1
  <2>2. \A i \in 1 .. n : s[i].key \in Keys
    BY <2>1 DEF Entry
  <2>3. QED
    BY <1>3, <2>2
<1>5. \A i, j \in 1 .. n : f[i] = f[j] => i = j
  BY <1>1, <1>4 DEF OneEach
<1>6. ~(Cardinality(Keys) < n)
  BY <1>2, <1>4, <1>5, FS_PigeonHole
<1>7. Cardinality(Keys) \in Nat
  BY FS_CardinalityType
<1>8. QED
  BY <1>1, <1>6, <1>7

(* Then storing an answer evicts no key. *)
LEMMA NothingEvicted ==
  ASSUME IsFiniteSet(Keys), Cardinality(Keys) <= MaxEntries,
         NEW p \in Pods, IsCache(cache[p]), NEW e \in Entry
  PROVE  KeysOf(cache[p]) \subseteq KeysOf(Stored(p, e))
<1>1. PICK s : s = cache[p]
  OBVIOUS
<1>2. PICK t : t = Assigned(s, e)
  OBVIOUS
<1>3. s \in Seq(Entry)
  BY <1>1 DEF IsCache
<1>4. t \in Seq(Entry) /\ OneEach(t)
  BY <1>1, <1>2, AssignedCache
<1>5. Len(t) <= MaxEntries
  BY <1>4, ShortEnough
<1>6. Stored(p, e) = t
  BY <1>1, <1>2, <1>4, <1>5 DEF Stored, Evicted
<1>7. \A i \in DOMAIN s : i \in DOMAIN t /\ t[i].key = s[i].key
  <2>1. CASE \E i \in DOMAIN s : s[i].key = e.key
    <3>1. t = [i \in DOMAIN s |-> IF s[i].key = e.key THEN e ELSE s[i]]
      BY <1>2, <2>1, Zenon DEF Assigned
    <3>2. QED
      BY <3>1
  <2>2. CASE ~\E i \in DOMAIN s : s[i].key = e.key
    <3>1. t = Append(s, e)
      BY <1>2, <2>2, Zenon DEF Assigned
    <3>2. QED
      BY <1>3, <3>1
  <2>3. QED
    BY <2>1, <2>2
<1>8. QED
  BY <1>1, <1>6, <1>7 DEF KeysOf

(* A forwarded request finds nobody waiting on its key, here or elsewhere. *)
LEMMA ForwardUnexcused ==
  ASSUME Undisturbed, Base, Unexcused,
         NEW r \in Requests, NEW p \in Pods, NEW k \in Keys, Forward(r, p, k)
  PROVE  Unexcused'
<1>1. ~\E q \in Requests : Waiting(q) /\ req[q].key = k
  BY DEF Undisturbed, Forward, MaySend
<1>2. \A q \in Requests : req[q].pod = p
  BY DEF Undisturbed, Base, Requested, RequestSet
<1>3. WhyNotCached(p, k) = {}
  BY <1>1, <1>2 DEF WhyNotCached
<1>4. excuse' = [excuse EXCEPT ![k] = @ \cup WhyNotCached(p, k)] /\ pod' = pod
  BY DEF Forward
<1>5. QED
  BY <1>3, <1>4 DEF Unexcused, Base, Books

(* An answer is stored and all others are kept. *)
LEMMA CompleteUnexcused ==
  ASSUME Undisturbed, Base, Unexcused, NEW r \in Requests, Complete(r)
  PROVE  Unexcused'
<1>1. PICK p \in Pods : p = req[r].pod
  BY WaitingEntry DEF Complete
<1>2. PICK e \in Entry : e = [key |-> req[r].key, txn |-> TransactionId(r)]
  BY WaitingEntry DEF Complete
<1>3. PICK t : t = Stored(p, e)
  OBVIOUS
<1>4. KeysOf(cache[p]) \subseteq KeysOf(t)
  BY <1>3, NothingEvicted DEF Undisturbed, Base, Caches
<1>5. {c.key : c \in Entries(p)} \ {t[i].key : i \in DOMAIN t} = {}
  BY <1>4 DEF KeysOf, Entries
<1>6. Excused({c.key : c \in Entries(p)} \ {t[i].key : i \in DOMAIN t}, "evicted") /\ pod' = pod
  BY <1>1, <1>2, <1>3 DEF Complete
<1>7. Excused({}, "evicted")
  BY <1>5, <1>6
<1>8. QED
  BY <1>6, <1>7 DEF Excused, Unexcused

(* No other step is possible or disturbs anything. *)
LEMMA UnexcusedStep == Undisturbed /\ Base /\ Unexcused /\ [Next]_vars => Unexcused'
<1> SUFFICES ASSUME Undisturbed, Base, Unexcused, [Next]_vars PROVE Unexcused'
  OBVIOUS
<1>1. ASSUME NEW r \in Requests, NEW p \in Pods, NEW k \in Keys, Refuse(r, p, k) \/ Replay(r, p, k)
      PROVE  Unexcused'
  BY <1>1 DEF Refuse, Replay, Unexcused
<1>2. ASSUME NEW r \in Requests, Charge(r) \/ RefuseAtGateway(r) PROVE Unexcused'
  BY <1>2 DEF Charge, RefuseAtGateway, Unexcused
<1>3. ASSUME NEW r \in Requests, Fail(r) PROVE FALSE
  BY <1>3 DEF Fail, Undisturbed
<1>4. ASSUME NEW p \in Pods, CredentialsChange(p) PROVE Unexcused'
  BY <1>4 DEF CredentialsChange, Unexcused
<1>5. ASSUME NEW p \in Pods, Drain(p) \/ Deadline(p) \/ Shutdown(p) \/ Kill(p) \/ Restart(p)
      PROVE  FALSE
  BY <1>5 DEF Drain, Deadline, Shutdown, Kill, Restart, Undisturbed, Unexcused
<1>6. CASE UNCHANGED vars
  BY <1>6 DEF vars, Unexcused
<1>7. QED
  BY <1>1, <1>2, <1>3, <1>4, <1>5, <1>6, ForwardUnexcused, CompleteUnexcused DEF Next

(* "If a client sends the same payment request twice, the system must process
   it exactly once" holds for one replica that is not stopped, whose cache has
   room for every key, under clients that wait for an answer and a gateway that
   always gives one: the cache is then enough, for any number of requests. *)
THEOREM ExactlyOnceIfUndisturbed ==
  ASSUME Undisturbed
  PROVE  Spec => []ChargedAtMostOnce
<1>1. Init => Unexcused
  BY DEF Init, Unexcused
<1>2. Base /\ Unexcused /\ [Next]_vars => Unexcused'
  BY UnexcusedStep
<1>3. Base /\ Once /\ Unexcused => ChargedAtMostOnce
  <2> SUFFICES ASSUME Base, Once, Unexcused, NEW k \in Keys PROVE Charges(k) <= 1
    BY DEF ChargedAtMostOnce
  <2>1. Charges(k) \in {0, 1}
    BY OneCharge DEF Unexcused
  <2>2. QED
    BY <2>1
<1>4. QED
  BY <1>1, <1>2, <1>3, OnceInit, OnceStep, BaseInvariant, PTL DEF Spec

-----------------------------------------------------------------------------
(* One outcome: the endpoint as a PaymentContract *)

\* The one request that brought an outcome from the gateway.
Source(k, t) ==
  \E q \in Requests : Forwarded(q) /\ Answered(q) /\ req[q].key = k /\ req[q].txn = t

\* While nothing excuses its key, an answer or a cached one goes back to such a
\* request: replays, moves within the cache and evictions lose no source.
Sources ==
  /\ \A r \in Requests :
       Answered(r) /\ excuse[req[r].key] = {} => Source(req[r].key, req[r].txn)
  /\ \A p \in Pods : \A i \in DOMAIN cache[p] :
       excuse[cache[p][i].key] = {} => Source(cache[p][i].key, cache[p][i].txn)

LEMMA SourceStays ==
  ASSUME Base, Orderly, [Next]_vars, NEW k, NEW t, Source(k, t)
  PROVE  Source(k, t)'
<1>1. PICK q \in Requests : Forwarded(q) /\ Answered(q) /\ req[q].key = k /\ req[q].txn = t
  BY DEF Source
<1>2. req'[q] = req[q]
  BY <1>1, AnsweredStays
<1>3. QED
  BY <1>1, <1>2 DEF Source, Forwarded, Answered

(* A request the gateway has just answered for is the source of its outcome. *)
LEMMA CompleteSource ==
  ASSUME Base, NEW r \in Requests, Complete(r), NEW k, NEW t, k = req[r].key, t = TransactionId(r)
  PROVE  Source(k, t)'
<1>1. /\ req[r].wire \in {"charged", "refused"}
      /\ req'[r] = [phase |-> "done", pod |-> req[r].pod, key |-> req[r].key,
                    wire |-> req[r].wire, txn |-> TransactionId(r), reply |-> "answered"]
  BY CompleteAnswers
<1>2. req'[r].wire # "none" /\ req'[r].reply = "answered" /\ req'[r].key = k /\ req'[r].txn = t
  BY <1>1
<1>3. QED
  BY <1>2 DEF Source, Forwarded, Answered

(* What a cache holds it held before, or is what a handler has just stored. *)
LEMMA CachedBefore ==
  ASSUME Base, [Next]_vars, NEW p \in Pods, NEW i \in DOMAIN cache'[p]
  PROVE  \/ \E j \in DOMAIN cache[p] : cache'[p][i] = cache[p][j]
         \/ \E r \in Requests : /\ Complete(r)
                                /\ cache'[p][i].key = req[r].key /\ cache'[p][i].txn = TransactionId(r)
<1>1. CASE cache'[p] = cache[p]
  BY <1>1
<1>2. ASSUME NEW r \in Requests, NEW o \in Pods, NEW k \in Keys, Replay(r, o, k)
      PROVE  \E j \in DOMAIN cache[p] : cache'[p][i] = cache[p][j]
  <2>1. Reordered(Touched(o, k), cache[o]) /\ cache' = [cache EXCEPT ![o] = Touched(o, k)]
    BY <1>2, TouchedCache DEF Base, Caches, Replay
  <2>2. CASE p = o
    <3>1. cache'[p] = Touched(o, k)
      BY <2>1, <2>2 DEF Base, Caches
    <3>2. QED
      BY <2>1, <2>2, <3>1 DEF Reordered
  <2>3. CASE p # o
    BY <2>1, <2>3 DEF Base, Caches
  <2>4. QED
    BY <2>2, <2>3
<1>3. ASSUME NEW r \in Requests, Complete(r)
      PROVE  \/ \E j \in DOMAIN cache[p] : cache'[p][i] = cache[p][j]
             \/ cache'[p][i].key = req[r].key /\ cache'[p][i].txn = TransactionId(r)
  <2>1. PICK o \in Pods, k \in Keys, t \in Txns, e \in Entry :
          o = req[r].pod /\ k = req[r].key /\ t = TransactionId(r) /\ e = [key |-> k, txn |-> t]
    BY <1>3, WaitingEntry DEF Complete
  <2>2. cache' = [cache EXCEPT ![o] = Stored(o, e)]
    BY <1>3, <2>1, Zenon DEF Complete
  <2>3. CASE p = o
    <3>1. cache'[p] = Stored(o, e)
      BY <2>2, <2>3 DEF Base, Caches
    <3>2. Within(cache'[p], cache[p], e)
      BY <2>3, <3>1, StoredCache DEF Base, Caches
    <3>3. QED
      BY <2>1, <3>2 DEF Within
  <2>4. CASE p # o
    BY <2>2, <2>4 DEF Base, Caches
  <2>5. QED
    BY <2>3, <2>4
<1>4. ASSUME NEW o \in Pods, Gone(o)
      PROVE  \E j \in DOMAIN cache[p] : cache'[p][i] = cache[p][j]
  <2>1. cache' = [cache EXCEPT ![o] = << >>]
    BY <1>4 DEF Gone
  <2>2. p # o
    BY <2>1 DEF Base, Caches
  <2>3. QED
    BY <2>1, <2>2 DEF Base, Caches
<1>5. ASSUME NEW r \in Requests,
             \/ Fail(r) \/ Charge(r) \/ RefuseAtGateway(r)
             \/ \E o \in Pods, c \in Keys : Refuse(r, o, c) \/ Forward(r, o, c)
      PROVE  cache' = cache
  BY <1>5 DEF Refuse, Forward, Fail, Charge, RefuseAtGateway
<1>6. CASE cache' = cache
  BY <1>6
<1>7. QED
  BY <1>2, <1>3, <1>4, <1>5, <1>6, Steps

LEMMA SourcesStep ==
  ASSUME Base, Orderly, Sources, [Next]_vars
  PROVE  Sources'
<1>1. ASSUME NEW r \in Requests, Answered(r)', NEW k \in Keys, NEW t,
             k = req'[r].key, t = req'[r].txn, excuse'[k] = {}
      PROVE  Source(k, t)'
  <2>1. CASE Answered(r)
    <3>1. req'[r] = req[r]
      BY <2>1, AnsweredStays
    <3>2. Source(k, t)
      BY <1>1, <2>1, <3>1, ExcusesStay DEF Sources
    <3>3. QED
      BY <3>2, SourceStays
  <2>2. CASE Complete(r)
    <3>1. req'[r] = [phase |-> "done", pod |-> req[r].pod, key |-> req[r].key,
                     wire |-> req[r].wire, txn |-> TransactionId(r), reply |-> "answered"]
      BY <2>2, CompleteAnswers
    <3>2. k = req[r].key /\ t = TransactionId(r)
      BY <1>1, <3>1
    <3>3. QED
      BY <2>2, <3>2, CompleteSource
  <2>3. ASSUME NEW p \in Pods, NEW c \in Keys, Replay(r, p, c)
        PROVE  Source(k, t)'
    <3>1. PICK i \in DOMAIN cache[p] : cache[p][i].key = c /\ ReplayedAs(r, p, c, i)
      BY <2>3, ReplayAnswers, Zenon
    <3>2. k = c /\ t = cache[p][i].txn
      BY <1>1, <3>1 DEF ReplayedAs
    <3>3. excuse[k] = {}
      BY <1>1, ExcusesStay
    <3>4. Source(k, t)
      BY <3>1, <3>2, <3>3 DEF Sources
    <3>5. QED
      BY <3>4, SourceStays
  <2>4. QED
    BY <1>1, <2>1, <2>2, <2>3, NewAnswer
<1>2. ASSUME NEW p \in Pods, NEW i \in DOMAIN cache'[p], NEW k, NEW t,
             k = cache'[p][i].key, t = cache'[p][i].txn, excuse'[k] = {}
      PROVE  Source(k, t)'
  <2>1. ASSUME NEW j \in DOMAIN cache[p], cache'[p][i] = cache[p][j]
        PROVE  Source(k, t)'
    <3>1. cache[p][j] \in Entry
      <4>1. cache[p] \in Seq(Entry)
        BY DEF Base, Caches
      <4>2. QED
        BY <4>1
    <3>2. k \in Keys /\ k = cache[p][j].key /\ t = cache[p][j].txn
      BY <1>2, <2>1, <3>1 DEF Entry
    <3>3. excuse[k] = {}
      BY <1>2, <3>2, ExcusesStay
    <3>4. Source(k, t)
      BY <3>2, <3>3 DEF Sources
    <3>5. QED
      BY <3>4, SourceStays
  <2>2. ASSUME NEW r \in Requests, Complete(r), cache'[p][i].key = req[r].key,
               cache'[p][i].txn = TransactionId(r)
        PROVE  Source(k, t)'
    BY <1>2, <2>2, CompleteSource
  <2>3. QED
    BY <2>1, <2>2, CachedBefore
<1>3. ASSUME NEW r \in Requests, Answered(r)' PROVE req'[r].key \in Keys
  BY <1>3, OrderlyStep DEF Orderly
<1>4. QED
  BY <1>1, <1>2, <1>3 DEF Sources, Source


\* What the refinement needs: the double-charge invariant makes the source of an
\* outcome the only request that was ever sent for its key.
Outcomes == Base /\ Truth /\ Once /\ Orderly /\ Sources

LEMMA OutcomesAlways == Spec => []Outcomes
<1>1. Init => Once /\ Truth /\ Orderly /\ Sources
  <2> SUFFICES ASSUME Init PROVE Once /\ Truth /\ Orderly /\ Sources
    OBVIOUS
  <2>1. Once /\ Truth /\ Orderly
    BY OnceInit, TruthInit
  <2>2. \A r \in Requests : req[r].reply = "none"
    BY DEF Init, NewRequest
  <2>3. \A p \in Pods : cache[p] = << >>
    BY DEF Init
  <2>4. QED
    BY <2>1, <2>2, <2>3 DEF Sources, Answered
<1>2. QED
  BY <1>1, BaseInvariant, TruthStep, OnceStep, OrderlyStep, SourcesStep, PTL DEF Spec, Outcomes

\* While nothing excuses a key, whatever was charged for it or answered to it
\* comes from one request.
LEMMA OneRequest ==
  ASSUME Outcomes, NEW k \in Keys, excuse[k] = {}, NEW r \in Requests, Forwarded(r), req[r].key = k
  PROVE  /\ ChargedTo(k) # {} => req[r].wire = "charged"
         /\ \A t \in AnswersTo(k) : Answered(r) /\ req[r].txn = t
<1>1. ASSUME NEW q \in Requests, Forwarded(q), req[q].key = k PROVE q = r
  BY <1>1 DEF Outcomes, Once, Single
<1>2. ASSUME NEW i \in ChargedTo(k) PROVE req[r].wire = "charged"
  <2>1. PICK q \in Requests : req[q].wire = "charged" /\ req[q].key = ledger[i]
    BY <1>2 DEF Outcomes, Once, ChargedFor, ChargedTo
  <2>2. req[q].key = k /\ Forwarded(q)
    BY <1>2, <2>1 DEF ChargedTo, Forwarded
  <2>3. QED
    BY <1>1, <2>1, <2>2
<1>3. ASSUME NEW t \in AnswersTo(k) PROVE Answered(r) /\ req[r].txn = t
  <2>1. PICK q \in Requests : Answered(q) /\ req[q].key = k /\ req[q].txn = t
    BY <1>3 DEF AnswersTo
  <2>2. Source(k, t)
    BY <2>1 DEF Outcomes, Sources
  <2>3. PICK s \in Requests : Forwarded(s) /\ Answered(s) /\ req[s].key = k /\ req[s].txn = t
    BY <2>2 DEF Source
  <2>4. QED
    BY <1>1, <2>3
<1>4. QED
  BY <1>2, <1>3

(* The ids in the answers stand for what Truth says. *)
LEMMA AnswersNamed ==
  ASSUME Outcomes, NEW j, NEW t \in AnswersTo(j)
  PROVE  Named(ledger, req, t, j)
<1>1. PICK q \in Requests : Answered(q) /\ req[q].key = j /\ req[q].txn = t
  BY DEF AnswersTo
<1>2. QED
  BY <1>1 DEF Outcomes, Truth, Due, Answered

(* What an id stands for is a transaction of its key or an id made up for it. *)
LEMMA NamedInContract ==
  ASSUME Outcomes, NEW k \in Keys, NEW t, Named(ledger, req, t, k)
  PROVE  /\ t \in ChargedTo(k) \/ \A j \in Keys : t \notin ChargedTo(j) /\ (j # k => t \notin AnswersTo(j))
         /\ excuse[k] = {} /\ t \notin ChargedTo(k) => ChargedTo(k) = {}
<1>1. CASE t \in ChargedTo(k)
  BY <1>1
<1>2. CASE t \notin ChargedTo(k)
  <2>1. t \in Requests /\ req[t].wire = "refused" /\ req[t].key = k
    BY <1>2 DEF Named, ChargedTo
  <2>2. t \notin DOMAIN ledger
    <3>1. PICK n \in Nat : DOMAIN ledger = 1 .. n
      BY DEF Outcomes, Base, Books
    <3>2. t \notin Nat
      BY <2>1, RequestsAssumption
    <3>3. QED
      BY <3>1, <3>2
  <2>3. ASSUME NEW j \in Keys, t \in AnswersTo(j) PROVE j = k
    <3>1. Named(ledger, req, t, j)
      BY <2>3, AnswersNamed
    <3>2. QED
      BY <2>1, <2>2, <3>1 DEF Named
  <2>4. excuse[k] = {} => ChargedTo(k) = {}
    BY <2>1, OneRequest DEF Forwarded
  <2>5. QED
    BY <2>2, <2>3, <2>4 DEF ChargedTo
<1>3. QED
  BY <1>1, <1>2

(* What a step may do to the outcomes of the keys. *)
AnswersSame == \A k \in Keys : AnswersTo(k)' = AnswersTo(k)

LEMMA NoNewAnswer ==
  ASSUME Outcomes, [Next]_vars, \A q \in Requests : Answered(q)' => Answered(q)
  PROVE  AnswersSame
<1>1. ASSUME NEW q \in Requests, Answered(q) PROVE req'[q] = req[q] /\ Answered(q)'
  BY <1>1, AnsweredStays DEF Outcomes, Answered
<1>2. ASSUME NEW k \in Keys, NEW t PROVE t \in AnswersTo(k)' <=> t \in AnswersTo(k)
  BY <1>1 DEF AnswersTo
<1>3. QED
  BY <1>2 DEF AnswersSame

\* A request that is answered adds its transaction to the answers to its key.
LEMMA OneNewAnswer ==
  ASSUME Outcomes, [Next]_vars, NEW r \in Requests, Others(r), ~Answered(r),
         NEW k \in Keys, NEW t, req'[r].reply = "answered", req'[r].key = k, req'[r].txn = t
  PROVE  \A j \in Keys : AnswersTo(j)' = IF j = k THEN AnswersTo(j) \cup {t} ELSE AnswersTo(j)
<1>1. \A q \in Requests : q # r => req'[q] = req[q] /\ (Answered(q)' <=> Answered(q))
  BY DEF Others, Answered
<1>2. Answered(r)'
  BY DEF Answered
<1>3. ASSUME NEW j \in Keys, NEW u
      PROVE  u \in AnswersTo(j)' <=> u \in AnswersTo(j) \/ (j = k /\ u = t)
  BY <1>1, <1>2 DEF AnswersTo
<1>4. QED
  BY <1>3

\* An excuse given is not taken back, so that nothing waived is promised again.
LEMMA WaivedGrows ==
  ASSUME Base, [Next]_vars
  PROVE  {k \in Keys : excuse[k] # {}} \subseteq {k \in Keys : excuse'[k] # {}}
  BY ExcusesStay

LEMMA ChargedSame ==
  ASSUME ledger' = ledger
  PROVE  \A k \in Keys : ChargedTo(k)' = ChargedTo(k)
  BY DEF ChargedTo

(* A step that makes no transaction and gives no answer only waives. *)
LEMMA QuietContract ==
  ASSUME Outcomes, [Next]_vars, ledger' = ledger, AnswersSame
  PROVE  Contract!Waive
<1>1. {k \in Keys : excuse[k] # {}} \subseteq {k \in Keys : excuse'[k] # {}}
  BY WaivedGrows DEF Outcomes
<1>2. [k \in Keys |-> ChargedTo(k)'] = [k \in Keys |-> ChargedTo(k)]
  BY ChargedSame
<1>3. [k \in Keys |-> AnswersTo(k)'] = [k \in Keys |-> AnswersTo(k)]
  BY DEF AnswersSame
<1>4. QED
  BY <1>1, <1>2, <1>3 DEF Contract!Waive

(* A charge for a key with a promise is the first, and comes before any answer. *)
LEMMA ChargeContract ==
  ASSUME Outcomes, [Next]_vars, NEW r \in Requests, Charge(r)
  PROVE  \E k \in Keys : Contract!Charge(k)
<1>1. PICK n \in Nat : n = Len(ledger) /\ DOMAIN ledger = 1 .. n
  BY DEF Outcomes, Base, Books
<1>2. req[r].wire = "sent"
  BY DEF Charge
<1>3. PICK k \in Keys : k = req[r].key /\ Forwarded(r)
  BY <1>2 DEF Outcomes, Base, Phased, Forwarded
<1>4. ledger \in Seq(Keys) /\ ledger' = Append(ledger, k)
  BY <1>3 DEF Outcomes, Base, Books, Charge
<1>5. \A j \in Keys :
        /\ ChargedTo(j)' = IF j = k THEN ChargedTo(j) \cup {n + 1} ELSE ChargedTo(j)
        /\ n + 1 \notin ChargedTo(j)
  <2>1. DOMAIN ledger' = 1 .. n + 1 /\ ledger'[n + 1] = k
    BY <1>1, <1>4
  <2>2. \A i \in 1 .. n : ledger'[i] = ledger[i]
    BY <1>1, <1>4
  <2>3. ASSUME NEW j \in Keys, NEW i
        PROVE  i \in ChargedTo(j)' <=> i \in ChargedTo(j) \/ (j = k /\ i = n + 1)
    BY <1>1, <2>1, <2>2 DEF ChargedTo
  <2>4. ASSUME NEW j \in Keys PROVE n + 1 \notin ChargedTo(j)
    BY <1>1 DEF ChargedTo
  <2>5. QED
    BY <2>3, <2>4
<1>6. AnswersSame
  <2>1. ~Answered(r) /\ Others(r) /\ req'[r].reply = req[r].reply
    <3>1. Others(r) /\ req'[r] = [phase |-> req[r].phase, pod |-> req[r].pod, key |-> req[r].key,
                                  wire |-> "charged",
                                  txn |-> IF Waiting(r) THEN Len(ledger) + 1 ELSE req[r].txn,
                                  reply |-> req[r].reply]
      BY <1>1, ChargeReq DEF Outcomes, Base
    <3>2. ~Answered(r)
      BY <1>2 DEF Outcomes, Orderly
    <3>3. QED
      BY <3>1, <3>2
  <2>2. QED
    BY <2>1, NoNewAnswer DEF Others, Answered
<1>7. excuse[k] = {} => ChargedTo(k) = {} /\ AnswersTo(k) = {}
  <2>1. ~Answered(r) /\ req[r].wire # "charged"
    BY <1>2 DEF Outcomes, Orderly
  <2>2. QED
    BY <1>3, <2>1, OneRequest
<1>8. [j \in Keys |-> ChargedTo(j)'] =
        [[j \in Keys |-> ChargedTo(j)] EXCEPT ![k] = @ \cup {n + 1}]
  BY <1>5
<1>9. [j \in Keys |-> AnswersTo(j)'] = [j \in Keys |-> AnswersTo(j)]
  BY <1>6 DEF AnswersSame
<1>10. excuse' = excuse
  BY DEF Charge
<1>11. ASSUME NEW j \in Keys PROVE n + 1 \notin AnswersTo(j)
  <2>1. ~Named(ledger, req, n + 1, j)
    BY <1>1, RequestsAssumption DEF Named
  <2>2. QED
    BY <2>1, AnswersNamed
<1>12. Contract!Charge(k)
  BY <1>5, <1>7, <1>8, <1>9, <1>10, <1>11 DEF Contract!Charge
<1>13. QED
  BY <1>12

(* An answer is what was said before, and denies no transaction. *)
LEMMA AnswerContract ==
  ASSUME Outcomes, [Next]_vars, NEW r \in Requests, Others(r), ~Answered(r), ledger' = ledger,
         NEW k \in Keys, NEW t, req'[r].reply = "answered", req'[r].key = k, req'[r].txn = t,
         Named(ledger, req, t, k), excuse[k] = {} => AnswersTo(k) \subseteq {t}
  PROVE  Contract!Answer(k)
<1>1. {j \in Keys : excuse[j] # {}} \subseteq {j \in Keys : excuse'[j] # {}}
  BY WaivedGrows DEF Outcomes
<1>2. [j \in Keys |-> ChargedTo(j)'] = [j \in Keys |-> ChargedTo(j)]
  BY ChargedSame
<1>3. \A j \in Keys : AnswersTo(j)' = IF j = k THEN AnswersTo(j) \cup {t} ELSE AnswersTo(j)
  BY OneNewAnswer
<1>4. [j \in Keys |-> AnswersTo(j)'] = [[j \in Keys |-> AnswersTo(j)] EXCEPT ![k] = @ \cup {t}]
  BY <1>3
<1>5. t \in AnswersTo(k)'
  BY <1>3
<1>6. t \in ChargedTo(k) \/ \A j \in Keys : t \notin ChargedTo(j) /\ (j # k => t \notin AnswersTo(j))
  BY NamedInContract
<1>7. excuse[k] = {} /\ t \notin ChargedTo(k) => ChargedTo(k) = {}
  BY NamedInContract
<1>8. QED
  BY <1>1, <1>2, <1>4, <1>5, <1>6, <1>7 DEF Contract!Answer, Contract!MadeUp

LEMMA CompleteContract ==
  ASSUME Outcomes, [Next]_vars, NEW r \in Requests, Complete(r)
  PROVE  \E k \in Keys : Contract!Answer(k)
<1>1. /\ Others(r) /\ Waiting(r) /\ req[r].key \in Keys
      /\ req[r].wire \in {"charged", "refused"}
      /\ req'[r] = [phase |-> "done", pod |-> req[r].pod, key |-> req[r].key,
                    wire |-> req[r].wire, txn |-> TransactionId(r), reply |-> "answered"]
  BY CompleteAnswers DEF Outcomes
<1>2. PICK k \in Keys : k = req[r].key
  BY <1>1
<1>3. PICK t : t = TransactionId(r)
  OBVIOUS
<1>4. req'[r].reply = "answered" /\ req'[r].key = k /\ req'[r].txn = t
  BY <1>1, <1>2, <1>3
<1>5. ~Answered(r) /\ Forwarded(r)
  BY <1>1 DEF Outcomes, Orderly, Waiting, Answered, Forwarded
<1>6. Named(ledger, req, t, k)
  BY <1>1, <1>2, <1>3, AnswerNamed DEF Outcomes
<1>7. excuse[k] = {} => AnswersTo(k) = {}
  BY <1>2, <1>3, <1>5, OneRequest
<1>8. ledger' = ledger
  BY Zenon DEF Complete
<1>9. Contract!Answer(k)
  BY <1>1, <1>4, <1>5, <1>6, <1>7, <1>8, AnswerContract
<1>10. QED
  BY <1>9

LEMMA ReplayContract ==
  ASSUME Outcomes, [Next]_vars, NEW r \in Requests, NEW p \in Pods, NEW k \in Keys, Replay(r, p, k)
  PROVE  Contract!Answer(k)
<1>1. Others(r)
  BY ReplayAnswers DEF Outcomes
<1>2. PICK i \in DOMAIN cache[p] : cache[p][i].key = k /\ ReplayedAs(r, p, k, i)
  BY ReplayAnswers, Zenon DEF Outcomes
<1>3. PICK t : t = cache[p][i].txn
  OBVIOUS
<1>4. req'[r].reply = "answered" /\ req'[r].key = k /\ req'[r].txn = t
  BY <1>2, <1>3 DEF ReplayedAs
<1>5. ~Answered(r)
  BY DEF Replay, MaySend, Outcomes, Orderly, Answered
<1>6. Named(ledger, req, t, k)
  BY <1>2, <1>3 DEF Outcomes, Truth
<1>7. excuse[k] = {} => AnswersTo(k) \subseteq {t}
  <2> SUFFICES ASSUME excuse[k] = {} PROVE AnswersTo(k) \subseteq {t}
    OBVIOUS
  <2>1. Source(k, t)
    BY <1>2, <1>3 DEF Outcomes, Sources
  <2>2. PICK s \in Requests : Forwarded(s) /\ Answered(s) /\ req[s].key = k /\ req[s].txn = t
    BY <2>1 DEF Source
  <2>3. QED
    BY <2>2, OneRequest
<1>8. ledger' = ledger
  BY DEF Replay
<1>9. QED
  BY <1>1, <1>4, <1>5, <1>6, <1>7, <1>8, AnswerContract

LEMMA ContractStep ==
  ASSUME Outcomes, [Next]_vars
  PROVE  Contract!Next
<1>1. ASSUME NEW r \in Requests, Charge(r) PROVE Contract!Next
  BY <1>1, ChargeContract DEF Contract!Next
<1>2. ASSUME NEW r \in Requests, Complete(r) PROVE Contract!Next
  BY <1>2, CompleteContract DEF Contract!Next
<1>3. ASSUME NEW r \in Requests, NEW p \in Pods, NEW k \in Keys, Replay(r, p, k) PROVE Contract!Next
  BY <1>3, ReplayContract DEF Contract!Next
<1>4. CASE /\ \A r \in Requests : ~Charge(r) /\ ~Complete(r)
           /\ \A r \in Requests, p \in Pods, k \in Keys : ~Replay(r, p, k)
  <2>1. ledger' = ledger
    BY <1>4, LedgerStep DEF Outcomes
  <2>2. AnswersSame
    BY <1>4, NewAnswer, NoNewAnswer DEF Outcomes
  <2>3. QED
    BY <2>1, <2>2, QuietContract DEF Contract!Next
<1>5. QED
  BY <1>1, <1>2, <1>3, <1>4

(* The endpoint implements the contract: for a key nothing excuses, each of its
   steps makes at most the one transaction, before any answer, or repeats the
   one answer; for the others nothing is promised. *)
THEOREM ImplementsContract == Spec => ContractSpec
<1>1. Init => Contract!Init
  <2> SUFFICES ASSUME Init PROVE Contract!Init
    OBVIOUS
  <2>1. ASSUME NEW k \in Keys PROVE ChargedTo(k) = {} /\ AnswersTo(k) = {} /\ excuse[k] = {}
    <3>1. \A r \in Requests : ~Answered(r)
      BY DEF Init, NewRequest, Answered
    <3>2. ledger = << >> /\ excuse[k] = {}
      BY DEF Init
    <3>3. QED
      BY <3>1, <3>2 DEF ChargedTo, AnswersTo
  <2>2. QED
    BY <2>1 DEF Contract!Init
<1>2. QED
  BY <1>1, ContractStep, OutcomesAlways, PTL DEF Spec, ContractSpec, Contract!Spec

(* What the contract is worth: for a key with a promise, all that was charged
   and all that was answered is one outcome. *)
THEOREM ContractHasOneOutcome == ContractSpec => []Contract!OneOutcome
<1>1. Contract!Init => Contract!OneOutcome
  BY DEF Contract!Init, Contract!OneOutcome
<1>2. Contract!OneOutcome /\ [Contract!Next]_(Contract!vars) => Contract!OneOutcome'
  <2> SUFFICES ASSUME Contract!OneOutcome, [Contract!Next]_(Contract!vars)
               PROVE  Contract!OneOutcome'
    OBVIOUS
  <2>1. CASE Contract!Waive \/ UNCHANGED Contract!vars
    <3>1. /\ [j \in Keys |-> ChargedTo(j)'] = [j \in Keys |-> ChargedTo(j)]
          /\ [j \in Keys |-> AnswersTo(j)'] = [j \in Keys |-> AnswersTo(j)]
          /\ {j \in Keys : excuse[j] # {}} \subseteq {j \in Keys : excuse'[j] # {}}
      BY <2>1 DEF Contract!Waive, Contract!vars
    <3>2. ASSUME NEW j \in Keys
          PROVE  ChargedTo(j)' = ChargedTo(j) /\ AnswersTo(j)' = AnswersTo(j)
      <4>1. /\ [i \in Keys |-> ChargedTo(i)'][j] = [i \in Keys |-> ChargedTo(i)][j]
            /\ [i \in Keys |-> AnswersTo(i)'][j] = [i \in Keys |-> AnswersTo(i)][j]
        BY <3>1
      <4>2. QED
        BY <4>1
    <3>3. QED
      BY <3>1, <3>2 DEF Contract!OneOutcome
  <2>2. ASSUME NEW k \in Keys, Contract!Charge(k) PROVE Contract!OneOutcome'
    <3>1. PICK t :
            [j \in Keys |-> ChargedTo(j)'] = [[j \in Keys |-> ChargedTo(j)] EXCEPT ![k] = @ \cup {t}]
      BY <2>2 DEF Contract!Charge
    <3>2. /\ [j \in Keys |-> AnswersTo(j)'] = [j \in Keys |-> AnswersTo(j)]
          /\ {j \in Keys : excuse'[j] # {}} = {j \in Keys : excuse[j] # {}}
          /\ excuse[k] = {} => ChargedTo(k) = {} /\ AnswersTo(k) = {}
      BY <2>2 DEF Contract!Charge
    <3>3. ASSUME NEW j \in Keys, excuse'[j] = {}
          PROVE  /\ excuse[j] = {} /\ AnswersTo(j)' = AnswersTo(j)
                 /\ ChargedTo(j)' = IF j = k THEN ChargedTo(j) \cup {t} ELSE ChargedTo(j)
      <4>1. [i \in Keys |-> AnswersTo(i)'][j] = [i \in Keys |-> AnswersTo(i)][j]
        BY <3>2
      <4>2. [i \in Keys |-> ChargedTo(i)'][j] =
              [[i \in Keys |-> ChargedTo(i)] EXCEPT ![k] = @ \cup {t}][j]
        BY <3>1
      <4>3. QED
        BY <3>2, <3>3, <4>1, <4>2
    <3>4. ASSUME NEW j \in Keys, excuse'[j] = {}
          PROVE  \A a, b \in (ChargedTo(j) \cup AnswersTo(j))' : a = b
      <4>1. CASE j = k
        BY <3>2, <3>3, <3>4, <4>1
      <4>2. CASE j # k
        BY <3>3, <3>4, <4>2 DEF Contract!OneOutcome
      <4>3. QED
        BY <4>1, <4>2
    <3>5. QED
      BY <3>4 DEF Contract!OneOutcome
  <2>3. ASSUME NEW k \in Keys, Contract!Answer(k) PROVE Contract!OneOutcome'
    <3>1. PICK a :
            /\ a \in ChargedTo(k) \/ \A j \in Keys : a \notin ChargedTo(j)
            /\ [j \in Keys |-> AnswersTo(j)'] = [[j \in Keys |-> AnswersTo(j)] EXCEPT ![k] = @ \cup {a}]
            /\ excuse[k] = {} => AnswersTo(k) \subseteq {a} /\ (a \notin ChargedTo(k) => ChargedTo(k) = {})
      <4>1. PICK a :
              /\ a \in ChargedTo(k) \/ Contract!MadeUp(a, k)
              /\ [j \in Keys |-> AnswersTo(j)'] = [[j \in Keys |-> AnswersTo(j)] EXCEPT ![k] = @ \cup {a}]
              /\ excuse[k] = {} => AnswersTo(k) \subseteq {a} /\ (Contract!MadeUp(a, k) => ChargedTo(k) = {})
        BY <2>3 DEF Contract!Answer
      <4>2. Contract!MadeUp(a, k) => \A j \in Keys : a \notin ChargedTo(j)
        BY DEF Contract!MadeUp
      <4>3. QED
        BY <4>1, <4>2
    <3>2. /\ [j \in Keys |-> ChargedTo(j)'] = [j \in Keys |-> ChargedTo(j)]
          /\ {j \in Keys : excuse[j] # {}} \subseteq {j \in Keys : excuse'[j] # {}}
      BY <2>3 DEF Contract!Answer
    <3>3. ASSUME NEW j \in Keys, excuse'[j] = {}
          PROVE  /\ excuse[j] = {} /\ ChargedTo(j)' = ChargedTo(j)
                 /\ AnswersTo(j)' = IF j = k THEN AnswersTo(j) \cup {a} ELSE AnswersTo(j)
      <4>1. [i \in Keys |-> ChargedTo(i)'][j] = [i \in Keys |-> ChargedTo(i)][j]
        BY <3>2
      <4>2. [i \in Keys |-> AnswersTo(i)'][j] =
              [[i \in Keys |-> AnswersTo(i)] EXCEPT ![k] = @ \cup {a}][j]
        BY <3>1
      <4>3. QED
        BY <3>2, <3>3, <4>1, <4>2
    <3>4. ASSUME NEW j \in Keys, excuse'[j] = {}, NEW b \in (ChargedTo(j) \cup AnswersTo(j))',
                 NEW d \in (ChargedTo(j) \cup AnswersTo(j))'
          PROVE  b = d
      <4>1. \A e, f \in ChargedTo(j) \cup AnswersTo(j) : e = f
        BY <3>3, <3>4 DEF Contract!OneOutcome
      <4>2. QED
        BY <3>1, <3>3, <3>4, <4>1
    <3>5. QED
      BY <3>4 DEF Contract!OneOutcome
  <2>4. QED
    BY <2>1, <2>2, <2>3 DEF Contract!Next
<1>3. QED
  BY <1>1, <1>2, PTL DEF ContractSpec, Contract!Spec
=============================================================================
