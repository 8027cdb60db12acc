--------------------------- MODULE PaymentService ---------------------------
(***************************************************************************)
(* The payment endpoint of the connector (app/main.py): the authorize      *)
(* handlers of every replica, their idempotency caches and in-flight       *)
(* counters, the graceful shutdown, and the gateway that charges for each  *)
(* request it processes (services/vaultgateway-mock keeps no record of     *)
(* idempotency keys).                                                      *)
(*                                                                         *)
(* A handler gives up the event loop only while it awaits the gateway      *)
(* client, so it is two actions: up to the await, and after it.  What the  *)
(* client does in between is GatewayClient's.                              *)
(***************************************************************************)
EXTENDS Integers, Sequences, FiniteSets

CONSTANTS Pods,          \* the replicas of the deployment
          Keys,          \* idempotency keys
          Requests,      \* bound: the HTTP requests clients ever send
          MaxEntries,    \* IDEMPOTENCY_CACHE_MAX_SIZE
          OneAtATime,    \* do clients wait for an answer before they retry?
          CallsFail,     \* may a gateway call end without an answer?
          PodsRestart    \* may a replica stop?

ASSUME PodsAssumption == Pods # {}
ASSUME MaxEntriesAssumption == MaxEntries \in Nat \ {0}
ASSUME ClientAssumption ==
  OneAtATime \in BOOLEAN /\ CallsFail \in BOOLEAN /\ PodsRestart \in BOOLEAN
ASSUME RequestsAssumption == IsFiniteSet(Requests) /\ Requests \cap Nat = {}

VARIABLES
  pod,        \* "up", "draining", "overdue" (deadline of the drain over), "down"
  usable,     \* has_valid_credentials, per pod
  cache,      \* _idempotency_cache, per pod: [key, txn], least recently used first
  inFlight,   \* _in_flight, per pod
  req,        \* the requests
  ledger,     \* transactions of the gateway, in order: the key each one charged
  excuse      \* ghost: what happened to a key that its replies do not show

vars == <<pod, usable, cache, inFlight, req, ledger, excuse>>

NoKey == "unset"
NoTxn == 0   \* no transaction_id yet, or none any more

\* transaction_ids: those of the gateway are places in its ledger; the uuid that
\* the handler of a request makes up goes by the name of that request.
Txns == Nat \cup Requests
Excuses == {"concurrent", "unanswered", "evicted", "restart", "elsewhere"}

NewRequest ==
  [phase |-> "new", pod |-> CHOOSE p \in Pods : TRUE, key |-> NoKey,
   wire |-> "none", txn |-> NoTxn, reply |-> "none"]

Init ==
  /\ pod = [p \in Pods |-> "up"]
  /\ usable \in [Pods -> BOOLEAN]
  /\ cache = [p \in Pods |-> << >>]
  /\ inFlight = [p \in Pods |-> 0]
  /\ req = [r \in Requests |-> NewRequest]
  /\ ledger = << >>
  /\ excuse = [k \in Keys |-> {}]

-----------------------------------------------------------------------------
(* The idempotency cache: an OrderedDict used as an LRU *)

Entries(p) == {cache[p][i] : i \in DOMAIN cache[p]}
\* A mistake in Hits: any entry will do.
HitsAny(p, k) == Entries(p)

Hits(p, k) == {e \in Entries(p) : e.key = k}
Cached(p, k) == Hits(p, k) # {}
EntryOf(p, k) == CHOOSE e \in Hits(p, k) : TRUE

\* move_to_end: a hit makes the entry the most recent one.
Touched(p, k) ==
  LET s == cache[p]
      at == CHOOSE i \in DOMAIN s : s[i] = EntryOf(p, k)
  IN  [i \in DOMAIN s |-> IF i < at THEN s[i] ELSE IF i < Len(s) THEN s[i + 1] ELSE s[at]]

\* Assignment to a key the dict holds keeps its place.
Assigned(s, e) ==
  IF \E i \in DOMAIN s : s[i].key = e.key
  THEN [i \in DOMAIN s |-> IF s[i].key = e.key THEN e ELSE s[i]]
  ELSE Append(s, e)

\* A mistake in Evicted: one entry too many is kept.
EvictedLate(s) ==
  IF Len(s) > MaxEntries + 1 THEN SubSeq(s, Len(s) - MaxEntries, Len(s)) ELSE s

Evicted(s) ==
  IF Len(s) > MaxEntries THEN SubSeq(s, Len(s) - MaxEntries + 1, Len(s)) ELSE s

\* Mistakes in Stored: a full cache takes no new entry; errors are not stored.
StoredIfRoom(p, e) ==
  IF Len(cache[p]) < MaxEntries THEN Assigned(cache[p], e) ELSE cache[p]
StoredIfCharged(p, e) ==
  IF e.txn \in Nat THEN Evicted(Assigned(cache[p], e)) ELSE cache[p]

Stored(p, e) == Evicted(Assigned(cache[p], e))

-----------------------------------------------------------------------------
(* The authorize handler *)

Waiting(r) == req[r].phase = "waiting"
Forwarded(r) == req[r].wire # "none"

Excused(ks, why) ==
  excuse' = [k \in Keys |-> IF k \in ks THEN excuse[k] \cup {why} ELSE excuse[k]]

Reply(r, p, k, txn, reply) ==
  req' = [req EXCEPT ![r].phase = "done", ![r].pod = p, ![r].key = k,
                     ![r].txn = txn, ![r].reply = reply]

\* A client that waits for its answers sends nothing for a key it is waiting on.
MaySend(r, p, k) ==
  /\ req[r].phase = "new"
  /\ pod[p] = "up"
  /\ OneAtATime => ~\E q \in Requests : Waiting(q) /\ req[q].key = k

\* _validate_api_key raises, or no credential is valid: _in_flight goes up and
\* down again without an await, and nothing is left but the reply.
Refuse(r, p, k) ==
  /\ MaySend(r, p, k)
  /\ \/ Reply(r, req[r].pod, NoKey, NoTxn, "denied")
     \/ ~usable[p] /\ Reply(r, req[r].pod, NoKey, NoTxn, "unavailable")
  /\ UNCHANGED <<pod, usable, cache, inFlight, ledger, excuse>>

\* The key is in the cache of this pod: its answer is sent again.
Replay(r, p, k) ==
  /\ MaySend(r, p, k)
  /\ usable[p]
  /\ Cached(p, k)
  /\ cache' = [cache EXCEPT ![p] = Touched(p, k)]
  /\ Reply(r, p, k, EntryOf(p, k).txn, "answered")
  /\ UNCHANGED <<pod, usable, inFlight, ledger, excuse>>

WhyNotCached(p, k) ==
  (IF \E q \in Requests : Waiting(q) /\ req[q].key = k THEN {"concurrent"} ELSE {})
  \cup
  (IF \E q \in Requests : Forwarded(q) /\ req[q].key = k /\ req[q].pod # p
   THEN {"elsewhere"} ELSE {})

Entered(p) == [inFlight EXCEPT ![p] = @ + 1]
\* A mistake in Left: the handler returns without giving its count back.
LeftUncounted(p) == inFlight

Left(p) == [inFlight EXCEPT ![p] = @ - 1]

\* Not in the cache: the request goes to the gateway and the handler waits.
Forward(r, p, k) ==
  /\ MaySend(r, p, k)
  /\ usable[p]
  /\ ~Cached(p, k)
  /\ inFlight' = Entered(p)
  /\ req' = [req EXCEPT ![r].phase = "waiting", ![r].pod = p, ![r].key = k,
                        ![r].wire = "sent"]
  /\ excuse' = [excuse EXCEPT ![k] = @ \cup WhyNotCached(p, k)]
  /\ UNCHANGED <<pod, usable, cache, ledger>>

\* A 4xx answer has neither "status" nor "transaction_id": the answer is an ERROR,
\* with an id that the handler makes up.
TransactionId(r) == IF req[r].wire = "charged" THEN req[r].txn ELSE r

\* The gateway answered: the response is built, stored and returned, an ERROR too.
Complete(r) ==
  LET p == req[r].pod
      k == req[r].key
      stored == Stored(p, [key |-> k, txn |-> TransactionId(r)])
  IN  /\ Waiting(r)
      /\ req[r].wire \in {"charged", "refused"}
      /\ cache' = [cache EXCEPT ![p] = stored]
      /\ inFlight' = Left(p)
      /\ Reply(r, p, k, TransactionId(r), "answered")
      /\ Excused({e.key : e \in Entries(p)} \ {stored[i].key : i \in DOMAIN stored}, "evicted")
      /\ UNCHANGED <<pod, usable, ledger>>

\* GatewayUnavailableError, GatewayAuthError or a body that is not JSON: nothing
\* is stored, whatever the gateway did or will still do with the request.
Fail(r) ==
  /\ CallsFail
  /\ Waiting(r)
  /\ inFlight' = Left(req[r].pod)
  /\ Reply(r, req[r].pod, req[r].key, NoTxn, "unavailable")
  /\ Excused({req[r].key}, "unanswered")
  /\ UNCHANGED <<pod, usable, cache, ledger>>

-----------------------------------------------------------------------------
(* The gateway *)

\* It authorizes every request it can authenticate, seen before or not, also
\* when nobody waits for the answer any more.
Charge(r) ==
  /\ req[r].wire = "sent"
  /\ ledger' = Append(ledger, req[r].key)
  /\ req' = [req EXCEPT ![r].wire = "charged",
                        ![r].txn = IF Waiting(r) THEN Len(ledger) + 1 ELSE @]
  /\ UNCHANGED <<pod, usable, cache, inFlight, excuse>>

\* A 4xx status other than 401 and 403: the gateway makes no transaction, and no
\* transaction_id.
RefuseAtGateway(r) ==
  /\ req[r].wire = "sent"
  /\ req' = [req EXCEPT ![r].wire = "refused"]
  /\ UNCHANGED <<pod, usable, cache, inFlight, ledger, excuse>>

-----------------------------------------------------------------------------
(* The replica: credentials, shutdown, restart *)

CredentialsChange(p) ==
  /\ usable' = [usable EXCEPT ![p] = ~@]
  /\ UNCHANGED <<pod, cache, inFlight, req, ledger, excuse>>

WaitingAt(p) == {r \in Requests : Waiting(r) /\ req[r].pod = p}

\* The process is gone: the cache with it, and the calls it was waiting for.
Gone(p) ==
  /\ pod' = [pod EXCEPT ![p] = "down"]
  /\ cache' = [cache EXCEPT ![p] = << >>]
  /\ inFlight' = [inFlight EXCEPT ![p] = 0]
  /\ req' = [r \in Requests |->
               IF r \in WaitingAt(p)
               THEN [req[r] EXCEPT !.phase = "done", !.reply = "lost", !.txn = NoTxn]
               ELSE req[r]]
  /\ excuse' = [k \in Keys |->
                  excuse[k]
                    \cup (IF Cached(p, k) THEN {"restart"} ELSE {})
                    \cup (IF \E r \in WaitingAt(p) : req[r].key = k
                          THEN {"unanswered"} ELSE {})]
  /\ UNCHANGED <<usable, ledger>>

\* Shutdown begins: no new request is accepted.
Drain(p) ==
  /\ PodsRestart
  /\ pod[p] = "up"
  /\ pod' = [pod EXCEPT ![p] = "draining"]
  /\ UNCHANGED <<usable, cache, inFlight, req, ledger, excuse>>

\* graceful_shutdown_timeout is over.
Deadline(p) ==
  /\ pod[p] = "draining"
  /\ pod' = [pod EXCEPT ![p] = "overdue"]
  /\ UNCHANGED <<usable, cache, inFlight, req, ledger, excuse>>

\* A mistake in DrainOver: the last request is not waited for.
DrainOverEarly(p) == inFlight[p] <= 1 \/ pod[p] = "overdue"

\* The wait of the lifespan ends.
DrainOver(p) == inFlight[p] = 0 \/ pod[p] = "overdue"

Shutdown(p) ==
  /\ pod[p] \in {"draining", "overdue"}
  /\ DrainOver(p)
  /\ Gone(p)

\* Killed: out of memory, a failed liveness probe, the node.  A kill during the
\* drain has the effect of Deadline and Shutdown.
Kill(p) ==
  /\ PodsRestart
  /\ pod[p] = "up"
  /\ Gone(p)

Restart(p) ==
  /\ pod[p] = "down"
  /\ pod' = [pod EXCEPT ![p] = "up"]
  /\ UNCHANGED <<usable, cache, inFlight, req, ledger, excuse>>

Next ==
  \/ \E r \in Requests, p \in Pods, k \in Keys :
       Refuse(r, p, k) \/ Replay(r, p, k) \/ Forward(r, p, k)
  \/ \E r \in Requests : Complete(r) \/ Fail(r) \/ Charge(r) \/ RefuseAtGateway(r)
  \/ \E p \in Pods :
       \/ CredentialsChange(p) \/ Drain(p) \/ Deadline(p)
       \/ Shutdown(p) \/ Kill(p) \/ Restart(p)

Spec == Init /\ [][Next]_vars
-----------------------------------------------------------------------------
(* Properties *)

Entry == [key : Keys, txn : Txns]

RequestSet ==
  [phase : {"new", "waiting", "done"}, pod : Pods, key : Keys \cup {NoKey},
   wire : {"none", "sent", "charged", "refused"}, txn : Txns,
   reply : {"none", "denied", "unavailable", "answered", "lost"}]

\* The type invariant; it includes the bound of the cache and that a key has
\* one entry.
TypeOK ==
  /\ pod \in [Pods -> {"up", "draining", "overdue", "down"}]
  /\ usable \in [Pods -> BOOLEAN]
  /\ cache \in [Pods -> Seq(Entry)]
  /\ \A p \in Pods :
       /\ Len(cache[p]) <= MaxEntries
       /\ \A i, j \in DOMAIN cache[p] : cache[p][i].key = cache[p][j].key => i = j
  /\ inFlight \in [Pods -> Int]
  /\ req \in [Requests -> RequestSet]
  /\ ledger \in Seq(Keys)
  /\ excuse \in [Keys -> SUBSET Excuses]

ChargedTo(k) == {i \in DOMAIN ledger : ledger[i] = k}
Charges(k) == Cardinality(ChargedTo(k))

\* _in_flight counts exactly the handlers that wait for the gateway: every path
\* out of the handler gives its count back.
InFlightIsExact == \A p \in Pods : inFlight[p] = Cardinality(WaitingAt(p))

\* A replica that ends its drain before the deadline drops no request.
GracefulExitDropsNothing ==
  [][\A p \in Pods : pod[p] = "draining" /\ pod'[p] = "down"
       => \A r \in Requests : req'[r].reply = "lost" => req[r].reply = "lost"]_vars

\* What a transaction_id given out for a key stands for: a transaction that the
\* gateway made for that very key, or a request for it that the gateway refused.
StandsFor(t, k) ==
  \/ t \in DOMAIN ledger /\ ledger[t] = k
  \/ t \in Requests /\ req[t].wire = "refused" /\ req[t].key = k

\* Every answer and every cached answer has such an id: no client is told of a
\* payment of another key, and the ids that the gateway has never heard of - every
\* ERROR comes with one - are given out only where it refused and charged nothing.
RepliesAreTrue ==
  /\ \A r \in Requests :
       req[r].reply = "answered" => StandsFor(req[r].txn, req[r].key)
  /\ \A p \in Pods : \A e \in Entries(p) : StandsFor(e.txn, e.key)

\* A key is charged twice only after a concurrent duplicate, an attempt without
\* an answer, an eviction, a restart or a retry at another replica: there is no
\* other way past the cache.
DoubleChargeHasACause ==
  \A k \in Keys : Charges(k) > 1 => excuse[k] # {}

Answered(r) == req[r].reply = "answered"
AnswersTo(k) == {req[r].txn : r \in {q \in Requests : Answered(q) /\ req[q].key = k}}

Contract == INSTANCE PaymentContract WITH
              charged <- [k \in Keys |-> ChargedTo(k)],
              answers <- [k \in Keys |-> AnswersTo(k)],
              waived  <- {k \in Keys : excuse[k] # {}}

\* The endpoint implements the contract of PaymentContract: for a key with no
\* excuse there is at most one charge, no charge after an answer, every answer
\* names the same id, an ERROR too, and it denies no charge, through hits, misses
\* and evictions.
ContractSpec == Contract!Spec

\* "If a client sends the same payment request twice, the system must process
\* it exactly once."
ChargedAtMostOnce == \A k \in Keys : Charges(k) <= 1
=============================================================================
