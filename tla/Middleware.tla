----------------------------- MODULE Middleware -----------------------------
(***************************************************************************)
(* What every request passes before it reaches an endpoint                 *)
(* (app/middleware.py): the request id, the audit record, and the rate     *)
(* limiter with one token bucket per client in a bounded LRU.              *)
(*                                                                         *)
(* Time is counted in ticks of 1 / RATE_LIMIT_REQUESTS_PER_SECOND, so that *)
(* a bucket gets one token back per tick.  A bucket measures time with the *)
(* wall clock, which an administrator or NTP may set back or ahead.        *)
(***************************************************************************)
EXTENDS Integers, Sequences

CONSTANTS
  Clients,
  Requests,      \* slots for the requests being handled at one time
  Capacity,      \* RATE_LIMIT_REQUESTS_PER_SECOND: the tokens of a full bucket
  MaxEntries,    \* MAX_RATE_LIMIT_ENTRIES
  MaxBack,       \* bound on the ticks by which the clock is set back, in all,
  MaxAhead,      \* by which it is set ahead, in all,
  MaxEvictions   \* and on the evictions a client lives through

ASSUME CapacityAssumption == Capacity \in Nat \ {0}
ASSUME MaxEntriesAssumption == MaxEntries \in Nat \ {0}
ASSUME BudgetAssumption == MaxBack \in Nat /\ MaxAhead \in Nat /\ MaxEvictions \in Nat

VARIABLES
  lru,       \* the clients that have a bucket, the one used longest ago first
  balance,   \* _tokens plus the time since _last_refill, not yet capped; what a
             \* client without a bucket would get, a full one
  request,   \* the requests being handled, and the last one in each slot
  excess,    \* ghost: what a client was let through above one request per tick
  evicted,   \* ghost: how often its bucket was evicted
  back,      \* ghost: ticks the clock was set back
  ahead      \* ghost: ticks the clock was set ahead

vars == <<lru, balance, request, excess, evicted, back, ahead>>

Paths == {"api", "health"}
Replies == {"success", "failure", "raised"}

Idle == [stage |-> "idle", path |-> "api", reply |-> "none", audit |-> "none", tagged |-> FALSE]

Init ==
  /\ lru = << >>
  /\ balance = [c \in Clients |-> Capacity]
  /\ request = [r \in Requests |-> Idle]
  /\ excess = [c \in Clients |-> 0]
  /\ evicted = [c \in Clients |-> 0]
  /\ back = 0
  /\ ahead = 0

-----------------------------------------------------------------------------
(* The stack of middlewares *)

\* A mistake in Added: the order one would write them in, the outermost first.
AddedOutermostFirst == <<"RequestID", "Audit", "RateLimit">>

\* In the order of the add_middleware calls.  Each call wraps what is there.
Added == <<"RateLimit", "Audit", "RequestID">>

Position(layer) == CHOOSE i \in 1 .. Len(Added) : Added[i] = layer

Wraps(outer, inner) == Position(outer) > Position(inner)

\* The middlewares a reply goes through on its way out: those around the rate
\* limiter if that is where it was made, all of them if an endpoint made it.
WayOut(refused) ==
  {l \in {"RateLimit", "Audit", "RequestID"} : refused => Wraps(l, "RateLimit")}

\* An exception goes through every call_next: no header, no audit record.
Replied(p, reply, refused) ==
  [stage  |-> "done",
   path   |-> p,
   reply  |-> reply,
   audit  |-> IF p = "api" /\ reply # "raised" /\ "Audit" \in WayOut(refused)
              THEN reply ELSE "none",
   tagged |-> reply # "raised" /\ "RequestID" \in WayOut(refused)]

-----------------------------------------------------------------------------
(* The buckets *)

Held == {lru[i] : i \in 1 .. Len(lru)}

\* A mistake in Trimmed: one bucket too many.
TrimmedLate(s) ==
  IF Len(s) <= MaxEntries + 1 THEN s ELSE SubSeq(s, Len(s) - MaxEntries, Len(s))

Trimmed(s) ==
  IF Len(s) <= MaxEntries THEN s ELSE SubSeq(s, Len(s) - MaxEntries + 1, Len(s))

\* move_to_end of a client that has a bucket.
Moved(c) ==
  LET at == CHOOSE i \in 1 .. Len(lru) : lru[i] = c
  IN  [i \in 1 .. Len(lru) |->
         IF i < at THEN lru[i] ELSE IF i < Len(lru) THEN lru[i + 1] ELSE c]

\* _get_bucket: the client's bucket becomes the newest; popitem(last=False)
\* makes room for one that is added.
Used(c) == IF c \in Held THEN Moved(c) ELSE Trimmed(Append(lru, c))

\* A mistake in Refilled: a bucket that is not capped.
RefilledUncapped(c) == balance[c]

Refilled(c) == IF balance[c] < Capacity THEN balance[c] ELSE Capacity

\* A mistake in Spent: a refused request costs a token as well.
SpentAlways(c) == Refilled(c) - 1

\* consume: what is left in the bucket.
Spent(c) == IF Refilled(c) >= 1 THEN Refilled(c) - 1 ELSE Refilled(c)

\* Bound: no bucket of a client that was evicted MaxEvictions times is evicted.
EvictionBudget == \A x \in Held : evicted[x] = MaxEvictions => x \in Held'

\* The rate limiter gets the client's bucket and takes a token, if there is one.
TakeToken(c) ==
  /\ lru' = Used(c)
  /\ EvictionBudget
  /\ balance' = [x \in Clients |->
       IF x = c THEN Spent(c) ELSE IF x \in Held' THEN balance[x] ELSE Capacity]
  /\ evicted' = [x \in Clients |->
       IF x \in Held /\ x \notin Held' THEN evicted[x] + 1 ELSE evicted[x]]
  /\ UNCHANGED <<back, ahead>>

Admit(r, c, p) ==
  /\ request[r].stage # "inside"
  /\ Refilled(c) >= 1
  /\ TakeToken(c)
  /\ excess' = [excess EXCEPT ![c] = @ + 1]
  /\ request' = [request EXCEPT ![r] = [Idle EXCEPT !.stage = "inside", !.path = p]]

\* 429, also for a probe.
Refuse(r, c, p) ==
  /\ request[r].stage # "inside"
  /\ Refilled(c) < 1
  /\ TakeToken(c)
  /\ request' = [request EXCEPT ![r] = Replied(p, "failure", TRUE)]
  /\ UNCHANGED excess

\* The endpoint answers, or raises what nothing catches (a gateway answer that
\* is not JSON, for one).
Answer(r) ==
  /\ request[r].stage = "inside"
  /\ \E reply \in Replies :
       request' = [request EXCEPT ![r] = Replied(request[r].path, reply, FALSE)]
  /\ UNCHANGED <<lru, balance, excess, evicted, back, ahead>>

-----------------------------------------------------------------------------
(* Time *)

\* Above this a balance need not be told from a larger one: the clock cannot be
\* set back far enough to make a difference.
Saturated(b) == IF b < Capacity + MaxBack THEN b ELSE Capacity + MaxBack

Elapse(d) ==
  balance' = [c \in Clients |-> IF c \in Held THEN Saturated(balance[c] + d) ELSE balance[c]]

Tick ==
  /\ Elapse(1)
  /\ excess' = [c \in Clients |-> IF excess[c] > 0 THEN excess[c] - 1 ELSE 0]
  /\ UNCHANGED <<lru, request, evicted, back, ahead>>

SetBack ==
  /\ \E d \in 1 .. MaxBack - back : Elapse(-d) /\ back' = back + d
  /\ UNCHANGED <<lru, request, excess, evicted, ahead>>

SetAhead ==
  /\ \E d \in 1 .. MaxAhead - ahead : Elapse(d) /\ ahead' = ahead + d
  /\ UNCHANGED <<lru, request, excess, evicted, back>>

Next ==
  \/ \E r \in Requests : \/ \E c \in Clients, p \in Paths : Admit(r, c, p) \/ Refuse(r, c, p)
                         \/ Answer(r)
  \/ Tick \/ SetBack \/ SetAhead

Spec == Init /\ [][Next]_vars
-----------------------------------------------------------------------------
(* Properties *)

\* The type invariant; it includes the bound on the number of buckets.
TypeOK ==
  /\ lru \in Seq(Clients) /\ Len(lru) <= MaxEntries
  /\ balance \in [Clients -> Int]
  /\ request \in [Requests -> [stage : {"idle", "inside", "done"}, path : Paths,
                               reply : Replies \cup {"none"},
                               audit : Replies \cup {"none"}, tagged : BOOLEAN]]
  /\ excess \in [Clients -> Nat]
  /\ evicted \in [Clients -> Nat]
  /\ back \in 0 .. MaxBack
  /\ ahead \in 0 .. MaxAhead

\* In any stretch of w ticks a client gets at most w requests plus one full
\* bucket through, and one more bucket for each time its bucket was evicted,
\* whatever the other clients send; a clock set ahead adds no more than the
\* step.  (excess is the largest, over all stretches up to now, of the requests
\* let through minus the ticks.)
AdmissionBound ==
  \A c \in Clients : excess[c] <= Capacity * (1 + evicted[c]) + ahead

\* A client that would be refused has used up its bucket: it is at most `back`,
\* the ticks the clock was set back by, short of a burst of Capacity.  So with a
\* clock that only goes ahead nobody is refused below the advertised rate.
RefusalIsDue ==
  \A c \in Clients : Refilled(c) < 1 => excess[c] + back >= Capacity

\* Every reply, a refusal of the rate limiter as well, carries a request id and,
\* from an API path, has one audit record with its outcome.
AnsweredIsAudited ==
  \A r \in Requests :
    request[r].stage = "done" /\ request[r].reply # "raised" =>
      /\ request[r].tagged
      /\ request[r].audit = IF request[r].path = "api" THEN request[r].reply ELSE "none"
=============================================================================
