------------------------- MODULE Middleware_proofs -------------------------
(***************************************************************************)
(* The rate limiter's two bounds, for any number of clients, any capacity  *)
(* and size of the LRU, and any steps of the clock within the budgets; and *)
(* the record that every reply leaves.                                     *)
(***************************************************************************)
EXTENDS Middleware, TLAPS

USE CapacityAssumption, MaxEntriesAssumption, BudgetAssumption

(* What consume leaves in a bucket. *)
LEMMA SpentBounds ==
  ASSUME balance \in [Clients -> Int], NEW c \in Clients
  PROVE  /\ Refilled(c) \in Int /\ Refilled(c) <= Capacity /\ Refilled(c) <= balance[c]
         /\ Spent(c) \in Int
         /\ Refilled(c) >= 1 => Spent(c) = Refilled(c) - 1
         /\ Refilled(c) < 1 => Spent(c) = Refilled(c)
  BY DEF Refilled, Spent

(* The LRU after a use: bounded, and the client just served is in it. *)
LEMMA UsedType ==
  ASSUME NEW c \in Clients, lru \in Seq(Clients), Len(lru) <= MaxEntries
  PROVE  /\ Used(c) \in Seq(Clients) /\ Len(Used(c)) <= MaxEntries
         /\ \E i \in 1 .. Len(Used(c)) : Used(c)[i] = c
<1>1. PICK n \in Nat : n = Len(lru)
  OBVIOUS
<1>2. CASE c \in Held
  <2> DEFINE at == CHOOSE i \in 1 .. Len(lru) : lru[i] = c
  <2>1. at \in 1 .. n /\ n \in Nat \ {0}
    BY <1>1, <1>2 DEF Held
  <2>2. Used(c) = [i \in 1 .. n |-> IF i < at THEN lru[i] ELSE IF i < n THEN lru[i + 1] ELSE c]
    BY <1>1, <1>2 DEF Used, Moved
  <2>3. \A i \in 1 .. n : (IF i < at THEN lru[i] ELSE IF i < n THEN lru[i + 1] ELSE c) \in Clients
    BY <1>1, <2>1
  <2>4. Used(c) \in Seq(Clients) /\ Len(Used(c)) = n
    BY <2>2, <2>3
  <2>5. Used(c)[n] = c
    BY <2>1, <2>2
  <2>6. QED
    BY <1>1, <2>1, <2>4, <2>5
<1>3. CASE c \notin Held
  <2> DEFINE s == Append(lru, c)
  <2>1. s \in Seq(Clients) /\ Len(s) = n + 1 /\ s[n + 1] = c
    BY <1>1
  <2>2. Used(c) = Trimmed(s)
    BY <1>3 DEF Used
  <2>3. CASE n + 1 <= MaxEntries
    <3>1. Trimmed(s) = s
      BY <2>1, <2>3 DEF Trimmed
    <3>2. QED
      BY <2>1, <2>2, <2>3, <3>1
  <2>4. CASE ~(n + 1 <= MaxEntries)
    <3> HIDE DEF s
    <3>1. n = MaxEntries
      BY <1>1, <2>4
    <3>2. Trimmed(s) = SubSeq(s, 2, n + 1)
      BY <2>1, <2>4, <3>1 DEF Trimmed
    <3>3. SubSeq(s, 2, n + 1) \in Seq(Clients) /\ Len(SubSeq(s, 2, n + 1)) = n
      BY <2>1, <3>1
    <3>4. SubSeq(s, 2, n + 1)[n] = c
      BY <2>1, <3>1
    <3>5. QED
      BY <2>2, <3>1, <3>2, <3>3, <3>4
  <2>5. QED
    BY <2>3, <2>4
<1>4. QED
  BY <1>2, <1>3
-----------------------------------------------------------------------------
(* Types *)

LEMMA ReplyType ==
  ASSUME NEW p \in Paths, NEW reply \in Replies, NEW refused \in BOOLEAN
  PROVE  Replied(p, reply, refused) \in
           [stage : {"idle", "inside", "done"}, path : Paths, reply : Replies \cup {"none"},
            audit : Replies \cup {"none"}, tagged : BOOLEAN]
  BY DEF Replied, Replies, Paths

LEMMA TakeTokenType ==
  ASSUME TypeOK, NEW c \in Clients, TakeToken(c)
  PROVE  /\ lru' \in Seq(Clients) /\ Len(lru') <= MaxEntries
         /\ c \in Held'
         /\ balance' \in [Clients -> Int]
         /\ evicted' \in [Clients -> Nat]
<1>1. lru' = Used(c)
  BY DEF TakeToken
<1>2. lru' \in Seq(Clients) /\ Len(lru') <= MaxEntries /\ c \in Held'
  BY <1>1, UsedType DEF TypeOK, Held
<1>3. balance' \in [Clients -> Int]
  BY SpentBounds DEF TakeToken, TypeOK
<1>4. evicted' \in [Clients -> Nat]
  BY DEF TakeToken, TypeOK
<1>5. QED
  BY <1>2, <1>3, <1>4

LEMMA ElapseType ==
  ASSUME TypeOK, NEW d \in Int, Elapse(d)
  PROVE  balance' \in [Clients -> Int]
  BY DEF TypeOK, Elapse, Saturated

LEMMA TypeInductive == TypeOK /\ [Next]_vars => TypeOK'
<1> SUFFICES ASSUME TypeOK, [Next]_vars PROVE TypeOK'
  OBVIOUS
<1>1. ASSUME NEW r \in Requests, NEW c \in Clients, NEW p \in Paths, Admit(r, c, p)
      PROVE  TypeOK'
  <2>1. TakeToken(c)
    BY <1>1 DEF Admit
  <2>2. request' \in [Requests -> [stage : {"idle", "inside", "done"}, path : Paths,
                        reply : Replies \cup {"none"}, audit : Replies \cup {"none"},
                        tagged : BOOLEAN]]
    BY <1>1 DEF Admit, TypeOK, Idle
  <2>3. excess' \in [Clients -> Nat]
    BY <1>1 DEF Admit, TypeOK
  <2>4. QED
    BY <2>1, <2>2, <2>3, TakeTokenType DEF TypeOK, TakeToken
<1>2. ASSUME NEW r \in Requests, NEW c \in Clients, NEW p \in Paths, Refuse(r, c, p)
      PROVE  TypeOK'
  <2>1. TakeToken(c)
    BY <1>2 DEF Refuse
  <2>2. request' \in [Requests -> [stage : {"idle", "inside", "done"}, path : Paths,
                        reply : Replies \cup {"none"}, audit : Replies \cup {"none"},
                        tagged : BOOLEAN]]
    <3>1. "failure" \in Replies /\ TRUE \in BOOLEAN
      BY DEF Replies
    <3>2. QED
      BY <1>2, <3>1, ReplyType DEF Refuse, TypeOK
  <2>3. QED
    BY <1>2, <2>1, <2>2, TakeTokenType DEF Refuse, TypeOK, TakeToken
<1>3. ASSUME NEW r \in Requests, Answer(r)
      PROVE  TypeOK'
  <2>1. PICK reply \in Replies :
          request' = [request EXCEPT ![r] = Replied(request[r].path, reply, FALSE)]
    BY <1>3 DEF Answer
  <2>2. request[r].path \in Paths /\ FALSE \in BOOLEAN
    BY DEF TypeOK
  <2>3. QED
    BY <1>3, <2>1, <2>2, ReplyType DEF Answer, TypeOK
<1>4. CASE Tick
  <2>1. balance' \in [Clients -> Int]
    BY <1>4, ElapseType DEF Tick
  <2>2. excess' \in [Clients -> Nat]
    BY <1>4 DEF Tick, TypeOK
  <2>3. QED
    BY <1>4, <2>1, <2>2 DEF Tick, TypeOK
<1>5. CASE SetBack
  <2>1. PICK d \in 1 .. MaxBack - back : Elapse(-d) /\ back' = back + d
    BY <1>5 DEF SetBack
  <2>2. -d \in Int /\ back' \in 0 .. MaxBack
    BY <2>1 DEF TypeOK
  <2>3. balance' \in [Clients -> Int]
    BY <2>1, <2>2, ElapseType
  <2>4. QED
    BY <1>5, <2>2, <2>3 DEF SetBack, TypeOK
<1>6. CASE SetAhead
  <2>1. PICK d \in 1 .. MaxAhead - ahead : Elapse(d) /\ ahead' = ahead + d
    BY <1>6 DEF SetAhead
  <2>2. d \in Int /\ ahead' \in 0 .. MaxAhead
    BY <2>1 DEF TypeOK
  <2>3. balance' \in [Clients -> Int]
    BY <2>1, <2>2, ElapseType
  <2>4. QED
    BY <1>6, <2>2, <2>3 DEF SetAhead, TypeOK
<1>7. CASE UNCHANGED vars
  BY <1>7 DEF vars, TypeOK
<1>8. QED
  BY <1>1, <1>2, <1>3, <1>4, <1>5, <1>6, <1>7 DEF Next

(* Type correctness, with the bound on the number of buckets, for every number *)
(* of clients and requests.                                                    *)
THEOREM TypeCorrect == Spec => []TypeOK
<1>1. Init => TypeOK
  <2>1. Idle \in [stage : {"idle", "inside", "done"}, path : Paths,
                  reply : Replies \cup {"none"}, audit : Replies \cup {"none"},
                  tagged : BOOLEAN]
    BY DEF Idle, Paths
  <2>2. << >> \in Seq(Clients) /\ Len(<< >>) = 0
    OBVIOUS
  <2>3. QED
    BY <2>1, <2>2 DEF Init, TypeOK
<1>2. QED
  BY <1>1, TypeInductive, PTL DEF Spec
-----------------------------------------------------------------------------
(* The meter and the buckets agree *)

\* What the client could send this instant.
Allowance(c) == IF Refilled(c) < 0 THEN 0 ELSE Refilled(c)

\* What was let through above the rate and what would still be let through add
\* up to the buckets the client was given and the steps of the clock, and fall
\* short of one bucket by no more than the clock was set back.
MeterInv ==
  \A c \in Clients :
    /\ c \notin Held => balance[c] = Capacity
    /\ excess[c] + Allowance(c) <= Capacity * (1 + evicted[c]) + ahead
    /\ excess[c] + Refilled(c) + back >= Capacity

\* A use by client c: n is 1 if a token was taken and 0 otherwise.
LEMMA MeterUse ==
  ASSUME TypeOK, MeterInv, NEW c \in Clients, TakeToken(c), NEW n \in {0, 1},
         Spent(c) = Refilled(c) - n, n = 1 => Refilled(c) >= 1,
         excess' = [excess EXCEPT ![c] = @ + n]
  PROVE  MeterInv'
<1> SUFFICES ASSUME NEW x \in Clients
             PROVE  /\ x \notin Held' => balance'[x] = Capacity
                    /\ excess'[x] + Allowance(x)' <= Capacity * (1 + evicted'[x]) + ahead'
                    /\ excess'[x] + Refilled(x)' + back' >= Capacity
  BY DEF MeterInv
<1>1. c \in Held' /\ back' = back /\ ahead' = ahead
  BY TakeTokenType DEF TakeToken
<1>2. /\ balance'[x] = IF x = c THEN Spent(c) ELSE IF x \in Held' THEN balance[x] ELSE Capacity
      /\ evicted'[x] = IF x \in Held /\ x \notin Held' THEN evicted[x] + 1 ELSE evicted[x]
      /\ excess'[x] = IF x = c THEN excess[x] + n ELSE excess[x]
  BY DEF TakeToken, TypeOK
<1>3. /\ balance[x] \in Int /\ balance[c] \in Int /\ evicted[x] \in Nat /\ excess[x] \in Nat
      /\ back \in Int /\ ahead \in Int
  BY DEF TypeOK
<1>4. /\ x \notin Held => balance[x] = Capacity
      /\ excess[x] + Allowance(x) <= Capacity * (1 + evicted[x]) + ahead
      /\ excess[x] + Refilled(x) + back >= Capacity
  BY DEF MeterInv
<1>5. CASE x = c
  <2>1. evicted'[x] = evicted[x] /\ balance'[x] = Refilled(x) - n
    BY <1>1, <1>2, <1>5
  <2>2. Refilled(x)' = Refilled(x) - n
    BY <1>3, <2>1 DEF Refilled
  <2>3. excess'[x] = excess[x] + n /\ n \in {0, 1} /\ (n = 1 => Refilled(x) >= 1)
    BY <1>2, <1>5
  <2>4. Refilled(x) \in Int
    BY <1>3 DEF Refilled
  <2>5. Allowance(x)' = Allowance(x) - n /\ Allowance(x) \in Int
    <3>1. /\ Allowance(x) = IF Refilled(x) < 0 THEN 0 ELSE Refilled(x)
          /\ Allowance(x)' = IF Refilled(x)' < 0 THEN 0 ELSE Refilled(x)'
      BY DEF Allowance
    <3>2. CASE n = 0
      BY <2>2, <2>4, <3>1, <3>2
    <3>3. CASE n = 1
      BY <2>2, <2>3, <2>4, <3>1, <3>3
    <3>4. QED
      BY <3>2, <3>3
  <2>6. n \in Int /\ Capacity * (1 + evicted[x]) \in Int
    BY <1>3
  <2>7. excess'[x] + Allowance(x)' = excess[x] + Allowance(x)
    BY <1>3, <2>3, <2>5, <2>6
  <2>8. excess'[x] + Allowance(x)' <= Capacity * (1 + evicted'[x]) + ahead'
    BY <1>1, <1>4, <2>1, <2>7
  <2>9. excess'[x] + Refilled(x)' = excess[x] + Refilled(x)
    BY <1>3, <2>2, <2>3, <2>4, <2>6
  <2>10. excess'[x] + Refilled(x)' + back' >= Capacity
    BY <1>1, <1>4, <2>9
  <2>11. QED
    BY <1>1, <1>5, <2>8, <2>10
<1>6. CASE x # c /\ (x \in Held' \/ x \notin Held)
  <2>1. evicted'[x] = evicted[x] /\ balance'[x] = balance[x] /\ excess'[x] = excess[x]
    BY <1>2, <1>4, <1>6
  <2>2. Refilled(x)' = Refilled(x) /\ Allowance(x)' = Allowance(x)
    BY <2>1 DEF Refilled, Allowance
  <2>3. QED
    BY <1>1, <1>2, <1>4, <1>6, <2>1, <2>2
<1>7. CASE x # c /\ x \in Held /\ x \notin Held'
  <2>1. evicted'[x] = evicted[x] + 1 /\ balance'[x] = Capacity /\ excess'[x] = excess[x]
    BY <1>2, <1>7
  <2>2. Refilled(x)' = Capacity /\ Allowance(x)' = Capacity
    BY <2>1 DEF Refilled, Allowance
  <2>3. Allowance(x) >= 0 /\ Refilled(x) <= Capacity /\ Refilled(x) \in Int
    BY <1>3 DEF Allowance, Refilled
  <2>4. Capacity * (1 + (evicted[x] + 1)) = Capacity * (1 + evicted[x]) + Capacity
    BY <1>3
  <2>5. Capacity * (1 + evicted[x]) \in Int /\ Allowance(x) \in Int
    BY <1>3, <2>3 DEF Allowance
  <2>6. QED
    BY <1>1, <1>3, <1>4, <2>1, <2>2, <2>3, <2>4, <2>5
<1>8. QED
  BY <1>5, <1>6, <1>7

\* A use of the bucket by a request that is let through, or is not.
LEMMA MeterRequest ==
  ASSUME TypeOK, MeterInv, NEW r \in Requests, NEW c \in Clients, NEW p \in Paths,
         Admit(r, c, p) \/ Refuse(r, c, p)
  PROVE  MeterInv'
<1>1. CASE Admit(r, c, p)
  <2>1. Spent(c) = Refilled(c) - 1 /\ excess' = [excess EXCEPT ![c] = @ + 1]
    BY <1>1, SpentBounds DEF Admit, TypeOK
  <2>2. TakeToken(c) /\ Refilled(c) >= 1
    BY <1>1 DEF Admit
  <2>3. QED
    BY <2>1, <2>2, MeterUse
<1>2. CASE Refuse(r, c, p)
  <2>1. Spent(c) = Refilled(c) - 0
    BY <1>2, SpentBounds DEF Refuse, TypeOK
  <2>2. excess' = [excess EXCEPT ![c] = @ + 0]
    BY <1>2 DEF Refuse, TypeOK
  <2>3. TakeToken(c) /\ 0 \in {0, 1} /\ ~(0 = 1)
    BY <1>2 DEF Refuse
  <2>4. QED
    BY <2>1, <2>2, <2>3, MeterUse
<1>3. QED
  BY <1>1, <1>2

\* The clock moves by d while n ticks pass, n being 0 or 1; b and a are what is
\* added to back and to ahead.
LEMMA MeterElapse ==
  ASSUME TypeOK, MeterInv, NEW d \in Int, Elapse(d), NEW n \in {0, 1}, UNCHANGED <<lru, evicted>>,
         excess' = [c \in Clients |-> IF excess[c] > 0 THEN excess[c] - n ELSE 0],
         NEW b \in Nat, NEW a \in Nat, back' = back + b, ahead' = ahead + a,
         d <= n + a, d + b >= n
  PROVE  MeterInv'
<1> SUFFICES ASSUME NEW c \in Clients
             PROVE  /\ c \notin Held' => balance'[c] = Capacity
                    /\ excess'[c] + Allowance(c)' <= Capacity * (1 + evicted'[c]) + ahead'
                    /\ excess'[c] + Refilled(c)' + back' >= Capacity
  BY DEF MeterInv
<1>1. /\ balance[c] \in Int /\ evicted[c] \in Nat /\ excess[c] \in Nat
      /\ back \in Nat /\ ahead \in Nat /\ evicted'[c] = evicted[c] /\ Held' = Held
  BY DEF TypeOK, Held
<1>2. /\ c \notin Held => balance[c] = Capacity
      /\ excess[c] + Allowance(c) <= Capacity * (1 + evicted[c]) + ahead
      /\ excess[c] + Refilled(c) + back >= Capacity
  BY DEF MeterInv
<1>3. Capacity * (1 + evicted[c]) \in Int /\ Capacity * (1 + evicted[c]) >= Capacity
  BY <1>1
<1>4. excess'[c] = IF excess[c] > 0 THEN excess[c] - n ELSE 0
  OBVIOUS
<1>5. balance'[c] = IF c \in Held THEN Saturated(balance[c] + d) ELSE balance[c]
  BY DEF Elapse
<1>6. CASE c \in Held
  <2>1. balance'[c] = Saturated(balance[c] + d) /\ balance'[c] \in Int
    BY <1>1, <1>5, <1>6 DEF Saturated
  <2>2. /\ Refilled(c) \in Int /\ Refilled(c)' \in Int
        /\ Refilled(c)' <= Capacity
        /\ Refilled(c)' <= Refilled(c) + (IF d > 0 THEN d ELSE 0)
    BY <1>1, <2>1 DEF Refilled, Saturated
  <2>3. Refilled(c)' = Capacity \/ Refilled(c)' >= Refilled(c) + d
    BY <1>1, <2>1 DEF Refilled, Saturated
  <2>4. QED
    <3>1. /\ Allowance(c) = IF Refilled(c) < 0 THEN 0 ELSE Refilled(c)
          /\ Allowance(c)' = IF Refilled(c)' < 0 THEN 0 ELSE Refilled(c)'
      BY DEF Allowance
    <3>2. excess'[c] + Allowance(c)' <= Capacity * (1 + evicted[c]) + (ahead + a)
      BY <1>1, <1>2, <1>3, <1>4, <2>2, <3>1
    <3>3. excess'[c] + Refilled(c)' + (back + b) >= Capacity
      BY <1>1, <1>2, <1>4, <2>2, <2>3
    <3>4. QED
      BY <1>1, <1>6, <3>2, <3>3
<1>7. CASE c \notin Held
  <2>1. balance'[c] = Capacity /\ balance[c] = Capacity
    BY <1>2, <1>5, <1>7
  <2>2. Refilled(c) = Capacity /\ Refilled(c)' = Capacity
    BY <2>1 DEF Refilled
  <2>3. Allowance(c) = Capacity /\ Allowance(c)' = Capacity
    BY <2>2 DEF Allowance
  <2>4. excess'[c] \in Nat /\ excess'[c] <= excess[c]
    BY <1>1, <1>4
  <2>5. QED
    BY <1>1, <1>2, <1>3, <2>1, <2>2, <2>3, <2>4
<1>8. QED
  BY <1>6, <1>7

LEMMA MeterInductive == TypeOK /\ MeterInv /\ [Next]_vars => MeterInv'
<1> SUFFICES ASSUME TypeOK, MeterInv, [Next]_vars PROVE MeterInv'
  OBVIOUS
<1>1. ASSUME NEW r \in Requests, NEW c \in Clients, NEW p \in Paths,
             Admit(r, c, p) \/ Refuse(r, c, p)
      PROVE  MeterInv'
  BY <1>1, MeterRequest
<1>2. ASSUME UNCHANGED <<lru, balance, excess, evicted, back, ahead>>
      PROVE  MeterInv'
  BY <1>2 DEF MeterInv, Held, Refilled, Allowance
<1>3. ASSUME NEW r \in Requests, Answer(r)
      PROVE  MeterInv'
  BY <1>2, <1>3 DEF Answer
<1>4. CASE Tick
  <2>1. excess' = [c \in Clients |-> IF excess[c] > 0 THEN excess[c] - 1 ELSE 0]
    BY <1>4 DEF Tick
  <2>2. Elapse(1) /\ UNCHANGED <<lru, evicted>> /\ back' = back + 0 /\ ahead' = ahead + 0
    BY <1>4 DEF Tick, TypeOK
  <2>3. QED
    BY <2>1, <2>2, MeterElapse
<1>5. excess = [c \in Clients |-> IF excess[c] > 0 THEN excess[c] - 0 ELSE 0]
  BY DEF TypeOK
<1>6. CASE SetBack
  <2>1. PICK d \in 1 .. MaxBack - back : Elapse(-d) /\ back' = back + d
    BY <1>6 DEF SetBack
  <2>2. d \in Nat /\ -d \in Int /\ -d <= 0 + 0 /\ -d + d >= 0
    BY <2>1 DEF TypeOK
  <2>3. UNCHANGED <<lru, evicted>> /\ ahead' = ahead + 0 /\ excess' = excess
    BY <1>6 DEF SetBack, TypeOK
  <2>4. QED
    BY <1>5, <2>1, <2>2, <2>3, MeterElapse
<1>7. CASE SetAhead
  <2>1. PICK d \in 1 .. MaxAhead - ahead : Elapse(d) /\ ahead' = ahead + d
    BY <1>7 DEF SetAhead
  <2>2. d \in Nat /\ d \in Int /\ d <= 0 + d /\ d + 0 >= 0
    BY <2>1 DEF TypeOK
  <2>3. UNCHANGED <<lru, evicted>> /\ back' = back + 0 /\ excess' = excess
    BY <1>7 DEF SetAhead, TypeOK
  <2>4. QED
    BY <1>5, <2>1, <2>2, <2>3, MeterElapse
<1>8. CASE UNCHANGED vars
  BY <1>2, <1>8 DEF vars
<1>9. QED
  BY <1>1, <1>3, <1>4, <1>6, <1>7, <1>8 DEF Next

THEOREM MeterAgrees == Spec => [](TypeOK /\ MeterInv)
<1>1. Init => MeterInv
  <2> SUFFICES ASSUME Init, NEW c \in Clients
               PROVE  /\ balance[c] = Capacity
                      /\ excess[c] + Allowance(c) <= Capacity * (1 + evicted[c]) + ahead
                      /\ excess[c] + Refilled(c) + back >= Capacity
    BY DEF MeterInv
  <2>1. balance[c] = Capacity /\ excess[c] = 0 /\ evicted[c] = 0 /\ back = 0 /\ ahead = 0
    BY DEF Init
  <2>2. Refilled(c) = Capacity
    BY <2>1 DEF Refilled
  <2>3. Allowance(c) = Capacity
    BY <2>2 DEF Allowance
  <2>4. QED
    BY <2>1, <2>2, <2>3
<1>2. QED
  BY <1>1, TypeCorrect, MeterInductive, PTL DEF Spec

(* In any stretch of w ticks a client gets at most w requests and one bucketful *)
(* through, plus one bucketful for each eviction of its bucket, whatever the    *)
(* others do.                                                                   *)
THEOREM AdmissionIsBounded == Spec => []AdmissionBound
<1>1. TypeOK /\ MeterInv => AdmissionBound
  <2> SUFFICES ASSUME TypeOK, MeterInv, NEW c \in Clients
               PROVE  excess[c] <= Capacity * (1 + evicted[c]) + ahead
    BY DEF AdmissionBound
  <2>1. excess[c] + Allowance(c) <= Capacity * (1 + evicted[c]) + ahead
    BY DEF MeterInv
  <2>2. Allowance(c) \in Nat
    BY DEF Allowance, Refilled, TypeOK
  <2>3. excess[c] \in Int /\ ahead \in Int /\ evicted[c] \in Nat
    BY DEF TypeOK
  <2>4. Capacity * (1 + evicted[c]) \in Int
    BY <2>3
  <2>5. QED
    BY <2>1, <2>2, <2>3, <2>4
<1>2. QED
  BY <1>1, MeterAgrees, PTL

(* A client is refused only when it has used up its bucket, but for the ticks *)
(* the clock was set back by.                                                 *)
THEOREM RefusalsAreDue == Spec => []RefusalIsDue
<1>1. TypeOK /\ MeterInv => RefusalIsDue
  <2> SUFFICES ASSUME TypeOK, MeterInv, NEW c \in Clients, Refilled(c) < 1
               PROVE  excess[c] + back >= Capacity
    BY DEF RefusalIsDue
  <2>1. excess[c] + Refilled(c) + back >= Capacity
    BY DEF MeterInv
  <2>2. excess[c] \in Int /\ back \in Int /\ Refilled(c) \in Int
    BY DEF TypeOK, Refilled
  <2>3. QED
    BY <2>1, <2>2
<1>2. QED
  BY <1>1, MeterAgrees, PTL
-----------------------------------------------------------------------------
(* Records *)

(* The audit record and the request id are added around the rate limiter. *)
LEMMA Wrapped ==
  ASSUME NEW refused \in BOOLEAN
  PROVE  "Audit" \in WayOut(refused) /\ "RequestID" \in WayOut(refused)
<1>1. Position("RateLimit") = 1 /\ Position("Audit") = 2 /\ Position("RequestID") = 3
  <2>1. Len(Added) = 3 /\ Added[1] = "RateLimit" /\ Added[2] = "Audit" /\ Added[3] = "RequestID"
    BY DEF Added
  <2>2. 1 .. Len(Added) = {1, 2, 3}
    BY <2>1
  <2>3. ASSUME NEW layer, NEW i \in 1 .. Len(Added), Added[i] = layer,
               \A j \in 1 .. Len(Added) : Added[j] = layer => j = i
        PROVE  Position(layer) = i
    BY <2>3 DEF Position
  <2>4. QED
    BY <2>1, <2>2, <2>3
<1>2. Wraps("Audit", "RateLimit") /\ Wraps("RequestID", "RateLimit")
  BY <1>1 DEF Wraps
<1>3. QED
  BY <1>2 DEF WayOut

\* What AnsweredIsAudited says of one request.
Recorded(q) ==
  q.stage = "done" /\ q.reply # "raised" =>
    q.tagged /\ q.audit = IF q.path = "api" THEN q.reply ELSE "none"

LEMMA RepliedRecorded ==
  ASSUME NEW p \in Paths, NEW reply \in Replies, NEW refused \in BOOLEAN
  PROVE  Recorded(Replied(p, reply, refused))
  BY Wrapped DEF Recorded, Replied

(* Whoever answers, the rate limiter or the endpoint, and whatever the request
   went through, the reply has an id and, on an API path, a record. *)
THEOREM RepliesAreRecorded == Spec => []AnsweredIsAudited
<1> DEFINE AllRecorded == \A r \in Requests : Recorded(request[r])
<1>1. AllRecorded <=> AnsweredIsAudited
  BY DEF Recorded, AnsweredIsAudited
<1>2. Init => AllRecorded
  BY DEF Init, Idle, Recorded
<1>3. TypeOK /\ AllRecorded /\ [Next]_vars => AllRecorded'
  <2> SUFFICES ASSUME TypeOK, AllRecorded, [Next]_vars, NEW q \in Requests
               PROVE  Recorded(request'[q])
    OBVIOUS
  <2>1. ASSUME NEW r \in Requests, NEW c \in Clients, NEW p \in Paths, Admit(r, c, p)
        PROVE  Recorded(request'[q])
    <3>1. q # r => request'[q] = request[q]
      BY <2>1 DEF Admit, TypeOK
    <3>2. q = r => request'[q].stage = "inside"
      BY <2>1 DEF Admit, TypeOK, Idle
    <3>3. QED
      BY <3>1, <3>2 DEF Recorded
  <2>2. ASSUME NEW r \in Requests, NEW c \in Clients, NEW p \in Paths, Refuse(r, c, p)
        PROVE  Recorded(request'[q])
    <3>1. request' = [request EXCEPT ![r] = Replied(p, "failure", TRUE)]
      BY <2>2 DEF Refuse
    <3>2. Recorded(Replied(p, "failure", TRUE))
      BY RepliedRecorded DEF Replies
    <3>3. QED
      BY <3>1, <3>2 DEF TypeOK
  <2>3. ASSUME NEW r \in Requests, Answer(r)
        PROVE  Recorded(request'[q])
    <3>1. PICK reply \in Replies :
            request' = [request EXCEPT ![r] = Replied(request[r].path, reply, FALSE)]
      BY <2>3 DEF Answer
    <3>2. PICK p \in Paths : p = request[r].path
      BY DEF TypeOK
    <3>3. Recorded(Replied(p, reply, FALSE))
      BY RepliedRecorded
    <3>4. QED
      BY <3>1, <3>2, <3>3 DEF TypeOK
  <2>4. CASE Tick \/ SetBack \/ SetAhead \/ UNCHANGED vars
    <3>1. request' = request
      BY <2>4 DEF Tick, SetBack, SetAhead, vars
    <3>2. QED
      BY <3>1
  <2>5. QED
    BY <2>1, <2>2, <2>3, <2>4 DEF Next
<1> HIDE DEF AllRecorded
<1>4. QED
  BY <1>1, <1>2, <1>3, TypeCorrect, PTL DEF Spec
=============================================================================
