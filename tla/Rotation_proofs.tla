-------------------------- MODULE Rotation_proofs ---------------------------
(***************************************************************************)
(* The rotation, for any number of replicas, operators and rotations, any  *)
(* wait and backoff, and the script as it is or repaired: its types, which *)
(* keys the gateway takes while and after it runs, that it takes the ones  *)
(* the replicas serve and the payments under way carry, that a replica's   *)
(* previous credential helps none of them, and that each replica is a      *)
(* PollingReplica.                                                         *)
(***************************************************************************)
EXTENDS RotationPayments, TLAPS

USE RotationAssumption

-----------------------------------------------------------------------------
(* Types *)

(* Sequences of keys stay sequences of keys when more keys are made. *)
LEMMA MoreKeys ==
  ASSUME NEW m \in Nat, NEW n \in Nat, m <= n, NEW s \in Seq(1 .. m)
  PROVE  s \in Seq(1 .. n)
<1>1. 1 .. m \subseteq 1 .. n
  OBVIOUS
<1>2. QED
  BY <1>1

(* The latest key is one that was made. *)
LEMMA LatestKey ==
  ASSUME made \in Nat, history \in Seq(1 .. made), Latest >= 1
  PROVE  Latest \in Nat \ {0} /\ history[Latest] \in 1 .. made
  BY DEF Latest

LEMMA BackoffType ==
  ASSUME NEW d \in 1 .. MaxDelay
  PROVE  Backoff(d) \in 1 .. MaxDelay
  BY DEF Backoff

(* A change of a replica's credential or pause keeps the types. *)
LEMMA AdoptType ==
  ASSUME TypeOK, NEW r \in Replicas, Adopt(r)
  PROVE  held' \in [Replicas -> 0 .. Latest] /\ spare' \in [Replicas -> 0 .. Latest]
<1>1. Latest \in Nat \ {0}
  BY LatestKey DEF TypeOK
<1>2. QED
  BY <1>1 DEF TypeOK, Adopt

LEMMA SleepType ==
  ASSUME TypeOK, NEW r \in Replicas, NEW d \in 1 .. MaxDelay, Sleep(r, d)
  PROVE  delay' \in [Replicas -> 1 .. MaxDelay] /\ wake' \in [Replicas -> 0 .. MaxDelay]
  BY DEF TypeOK, Sleep

(* A patch of the secret by one of the script's two steps. *)
LEMMA PatchType ==
  ASSUME TypeOK, NEW o \in Operators, pc[o] # "idle", NEW place \in Places, place # "idle",
         NEW keys \in SUBSET (0 .. made), keys # {}, Patch(o, keys, place)
  PROVE  TypeOK'
<1>1. /\ vault' = vault /\ history' = history /\ Latest' = Latest /\ made' = made /\ old' = old
      /\ new' = new /\ mock' = mock /\ next' = next /\ secret' = keys
  BY DEF Patch, Latest
<1>2. /\ up' = up /\ held' = held /\ spare' = spare /\ delay' = delay /\ wake' = wake
      /\ lost' = lost /\ overlap' = overlap /\ cut' = cut
  BY DEF Patch, replicas, ghosts
<1>3. /\ pc' \in [Operators -> Places]
      /\ \A p \in Operators : pc'[p] # "idle" => pc[p] # "idle"
  BY DEF Patch, Goto, TypeOK, Places, Ended
<1>4. rollout' \in {"settled", "wanted", "started"}
  BY DEF Patch, TypeOK
<1>5. waited' \in [Operators -> 0 .. WaitTicks]
  BY DEF Patch, TypeOK
<1>6. \A k \in {secret', mock'} : k # {} /\ k \subseteq 0 .. made'
  BY <1>1 DEF TypeOK
<1>7. QED
  BY <1>1, <1>2, <1>3, <1>4, <1>5, <1>6 DEF TypeOK

LEMMA ScriptType ==
  ASSUME TypeOK, NEW o \in Operators, Script(o) \/ Fail(o)
  PROVE  TypeOK'
<1>1. CASE Start(o)
  <2>1. made + 1 \in 1 .. MaxKeys /\ made \in Nat
    BY <1>1 DEF TypeOK, Start
  <2>2. history' \in Seq(1 .. made') /\ Latest' = Latest /\ Latest \in Nat
    BY <1>1, <2>1, MoreKeys DEF TypeOK, Start, Latest
  <2>3. history[Latest] \in 1 .. made
    BY <2>1, LatestKey DEF TypeOK
  <2>4. /\ old' \in [Operators -> 0 .. made'] /\ new' \in [Operators -> 0 .. made']
        /\ \A p \in Operators : pc'[p] # "idle" => old'[p] # 0 /\ new'[p] # 0
    <3>1. 0 .. made \subseteq 0 .. made' /\ history[Latest] \in 0 .. made' /\ made + 1 \in 0 .. made'
      BY <1>1, <2>1, <2>3 DEF Start
    <3>2. old' \in [Operators -> 0 .. made'] /\ new' \in [Operators -> 0 .. made']
      BY <1>1, <3>1 DEF TypeOK, Start
    <3>3. ASSUME NEW p \in Operators, pc'[p] # "idle" PROVE old'[p] # 0 /\ new'[p] # 0
      <4>1. CASE p = o
        BY <1>1, <2>1, <2>3, <4>1 DEF TypeOK, Start
      <4>2. CASE p # o
        <5>1. pc'[p] = pc[p]
          BY <1>1, <4>2 DEF Start, Goto, TypeOK
        <5>2. QED
          BY <1>1, <3>3, <4>2, <5>1 DEF TypeOK, Start
      <4>3. QED
        BY <4>1, <4>2
    <3>4. QED
      BY <3>2, <3>3
  <2>5. pc' \in [Operators -> Places]
    BY <1>1 DEF TypeOK, Start, Goto, Places, Ended
  <2>6. /\ \A keys \in {secret', mock'} : keys # {} /\ keys \subseteq 0 .. made'
        /\ next' \subseteq 0 .. made'
    BY <1>1, <2>1 DEF TypeOK, Start, gateway
  <2>7. lost' \in BOOLEAN /\ overlap' \in BOOLEAN /\ cut' \in BOOLEAN
    BY <1>1, Zenon DEF TypeOK, Start
  <2>8. QED
    BY <1>1, <2>1, <2>2, <2>4, <2>5, <2>6, <2>7 DEF TypeOK, Start, gateway, replicas
<1>2. CASE Fail(o)
  <2>1. cut' \in BOOLEAN
    BY <1>2, Zenon DEF TypeOK, Fail
  <2>2. /\ pc' \in [Operators -> Places] /\ waited' \in [Operators -> 0 .. WaitTicks]
        /\ \A p \in Operators : pc'[p] # "idle" => pc[p] # "idle"
    BY <1>2 DEF TypeOK, Fail, Goto, Places, Ended
  <2>3. /\ UNCHANGED <<vault, history, made, old, new, secret, mock, next, rollout>>
        /\ UNCHANGED <<up, held, spare, delay, wake, lost, overlap>> /\ Latest' = Latest
    BY <1>2 DEF Fail, gateway, replicas, Latest
  <2>4. QED
    BY <2>1, <2>2, <2>3 DEF TypeOK
<1>3. CASE Widen(o)
  <2>1. {old[o], new[o]} \in SUBSET (0 .. made) /\ pc[o] # "idle"
    BY <1>3 DEF TypeOK, Widen
  <2>2. QED
    BY <1>3, <2>1, PatchType DEF Widen, Places
<1>4. CASE Narrow(o)
  <2>1. {new[o]} \in SUBSET (0 .. made) /\ pc[o] # "idle"
    BY <1>4 DEF TypeOK, Narrow
  <2>2. QED
    BY <1>4, <2>1, PatchType DEF Narrow, Places
<1>5. CASE Widened(o) \/ Narrowed(o)
  <2>1. /\ pc' \in [Operators -> Places]
        /\ \A p \in Operators : pc'[p] # "idle" => pc[p] # "idle"
    BY <1>5 DEF TypeOK, Widened, Narrowed, Goto, Places, Ended
  <2>2. /\ UNCHANGED <<vault, history, made, old, new, waited, secret, mock, next, rollout>>
        /\ UNCHANGED <<up, held, spare, delay, wake, lost, overlap, cut>> /\ Latest' = Latest
    BY <1>5 DEF Widened, Narrowed, gateway, replicas, ghosts, Latest
  <2>3. QED
    BY <2>1, <2>2 DEF TypeOK
<1>6. CASE Write(o)
  <2>1. new[o] \in 1 .. made /\ made \in Nat
    BY <1>6 DEF TypeOK, Write
  <2>2. /\ history' \in Seq(1 .. made) /\ Len(history') >= Len(history)
        /\ Len(history) \in Nat /\ Len(history') \in Nat
    <3>1. history \in Seq(1 .. made)
      BY DEF TypeOK
    <3>2. history' = history \/ history' = Append(history, new[o])
      BY <1>6, Zenon DEF Write
    <3>3. QED
      BY <2>1, <3>1, <3>2
  <2>3. Latest' >= Latest /\ Latest' \in Nat /\ Latest \in Nat /\ Latest' >= 1
    <3>1. Len(history) >= 1
      BY DEF TypeOK, Latest
    <3>2. QED
      BY <2>2, <3>1 DEF Latest
  <2>4. held' \in [Replicas -> 0 .. Latest'] /\ spare' \in [Replicas -> 0 .. Latest']
    <3>1. 0 .. Latest \subseteq 0 .. Latest'
      BY <2>3
    <3>2. QED
      BY <1>6, <3>1 DEF TypeOK, Write, replicas
  <2>5. pc' \in [Operators -> Places] /\ \A p \in Operators : pc'[p] # "idle" => pc[p] # "idle"
    BY <1>6 DEF TypeOK, Write, Goto, Places, Ended
  <2>6. lost' \in BOOLEAN
    BY <1>6, Zenon DEF TypeOK, Write
  <2>7. QED
    BY <1>6, <2>2, <2>3, <2>4, <2>5, <2>6 DEF TypeOK, Write, gateway, replicas
<1>7. QED
  BY <1>1, <1>2, <1>3, <1>4, <1>5, <1>6 DEF Script

(* A rollout of the mock, and a crash of its container. *)
LEMMA DeploymentType ==
  ASSUME TypeOK, Deployment
  PROVE  TypeOK'
<1>1. /\ \A k \in {secret', mock'} : k # {} /\ k \subseteq 0 .. made'
      /\ next' \subseteq 0 .. made'
      /\ rollout' \in {"settled", "wanted", "started"}
  BY DEF TypeOK, Deployment, PodStarts, PodReplaces, PodCrashes, script
<1>2. UNCHANGED <<vault, history, script, replicas, ghosts>>
  BY DEF Deployment, PodStarts, PodReplaces, PodCrashes
<1>3. QED
  BY <1>1, <1>2 DEF TypeOK, script, replicas, ghosts, Latest

LEMMA ReplicaType ==
  ASSUME TypeOK, NEW r \in Replicas, Boot(r) \/ Poll(r) \/ Die(r)
  PROVE  TypeOK'
<1>1. Latest \in Nat /\ MaxDelay >= 1
  BY LatestKey DEF TypeOK
<1>2. up' \in [Replicas -> BOOLEAN]
  <2>1. up \in [Replicas -> BOOLEAN]
    BY DEF TypeOK
  <2>2. up' = up \/ up' = [up EXCEPT ![r] = TRUE] \/ up' = [up EXCEPT ![r] = FALSE]
    BY Zenon DEF Boot, Poll, Die
  <2>3. QED
    BY <2>1, <2>2, Zenon
<1>3. held' \in [Replicas -> 0 .. Latest] /\ spare' \in [Replicas -> 0 .. Latest]
  <2>1. CASE Adopt(r)
    BY <2>1, AdoptType
  <2>2. CASE UNCHANGED <<held, spare>>
    BY <2>2 DEF TypeOK
  <2>3. CASE Die(r)
    BY <1>1, <2>3 DEF TypeOK, Die
  <2>4. QED
    BY <2>1, <2>2, <2>3 DEF Boot, Poll
<1>4. delay' \in [Replicas -> 1 .. MaxDelay] /\ wake' \in [Replicas -> 0 .. MaxDelay]
  <2>1. delay[r] \in 1 .. MaxDelay
    BY DEF TypeOK
  <2>2. Sleep(r, 1) \/ Sleep(r, Backoff(delay[r]))
    BY DEF Boot, Poll, Die
  <2>3. QED
    BY <1>1, <2>1, <2>2, SleepType, BackoffType
<1>5. UNCHANGED <<vault, history, script, gateway, ghosts>>
  BY DEF Boot, Poll, Die
<1>6. QED
  BY <1>2, <1>3, <1>4, <1>5 DEF TypeOK, script, gateway, ghosts, Latest

LEMMA TickType ==
  ASSUME TypeOK, Tick
  PROVE  TypeOK'
<1>1. wake' \in [Replicas -> 0 .. MaxDelay] /\ waited' \in [Operators -> 0 .. WaitTicks]
  <2>1. wake \in [Replicas -> 0 .. MaxDelay] /\ wake' \in [Replicas -> 0 .. MaxDelay]
    BY DEF TypeOK, Tick
  <2>2. waited' \in [Operators -> 0 .. WaitTicks]
    BY DEF TypeOK, Tick
  <2>3. QED
    BY <2>1, <2>2
<1>2. UNCHANGED <<vault, history, made, pc, old, new, gateway, up, held, spare, delay, ghosts>>
  BY DEF Tick
<1>3. QED
  BY <1>1, <1>2 DEF TypeOK, gateway, ghosts, Latest

LEMMA InitType == Init => TypeOK
<1> SUFFICES ASSUME Init PROVE TypeOK
  OBVIOUS
<1>1. history \in Seq(1 .. made) /\ Latest = 1 /\ made \in 1 .. MaxKeys
  BY DEF Init, Latest
<1>2. up \in [Replicas -> BOOLEAN] /\ lost \in BOOLEAN /\ overlap \in BOOLEAN /\ cut \in BOOLEAN
  BY Zenon DEF Init
<1>3. /\ pc \in [Operators -> Places] /\ \A o \in Operators : pc[o] = "idle"
      /\ old \in [Operators -> 0 .. made] /\ new \in [Operators -> 0 .. made]
      /\ waited \in [Operators -> 0 .. WaitTicks]
  BY DEF Init, Places, Ended
<1>4. /\ held \in [Replicas -> 0 .. Latest] /\ spare \in [Replicas -> 0 .. Latest]
      /\ delay \in [Replicas -> 1 .. MaxDelay] /\ wake \in [Replicas -> 0 .. MaxDelay]
  BY <1>1 DEF Init
<1>5. QED
  BY <1>1, <1>2, <1>3, <1>4 DEF Init, TypeOK, ShippedKeys

LEMMA StepType == TypeOK /\ [Next]_vars => TypeOK'
<1> SUFFICES ASSUME TypeOK, [Next]_vars PROVE TypeOK'
  OBVIOUS
<1>1. CASE VaultChanges
  BY <1>1 DEF VaultChanges, TypeOK, script, gateway, replicas, ghosts, Latest
<1>2. CASE UNCHANGED vars
  BY <1>2 DEF vars, TypeOK, script, gateway, replicas, ghosts, Latest
<1>3. QED
  BY <1>1, <1>2, ScriptType, DeploymentType, ReplicaType, TickType DEF Next

(* Every variable keeps its type, in every behaviour of the rotation. *)
THEOREM TypeCorrect == Spec => []TypeOK
  BY InitType, StepType, PTL DEF Spec

-----------------------------------------------------------------------------
(* The keys the gateway takes *)

Running(o) == pc[o] \notin Ended
InUse == history[Latest]

OneScript == \A o, p \in Operators : Running(o) /\ Running(p) => o = p

\* A list of keys has the key in use; as the manifest ships it, it has not, but
\* then the key in use is the seeded one.
Serves(keys) == InUse \in keys \/ (keys = ShippedKeys /\ Latest = 1)

InUseTaken ==
  /\ Serves(secret) /\ Serves(mock)
  /\ next # {} => Serves(next)
  /\ rollout = "settled" => next = {}

\* The rollout a script waits for is the one of its own patch.
OwnRollout ==
  /\ rollout = "started" => next = secret
  /\ rollout = "settled" => mock = secret

\* Where a running script stands decides which key is in use and what the secret
\* holds.
Stage(o) ==
  /\ Running(o) => old[o] # new[o]
  /\ pc[o] \in {"widen", "widening", "write"} => InUse = old[o]
  /\ pc[o] \in {"wait", "narrowing"} => InUse = new[o]
  /\ pc[o] \in {"widening", "write"} => secret = {old[o], new[o]}
  /\ pc[o] = "narrowing" => secret = {new[o]}
  /\ pc[o] \in {"widening", "write", "narrowing"} => OwnRollout
  /\ pc[o] = "write" => rollout = "settled"

\* The key a finished script has replaced is nowhere, and nothing brings it back.
Replaced(o) ==
  /\ old[o] \notin secret /\ old[o] \notin mock /\ old[o] \notin next
  /\ old[o] # InUse
  /\ \A p \in Operators : Running(p) => old[o] # new[p]

KeysInOrder ==
  /\ OneScript
  /\ InUseTaken
  /\ \A o \in Operators : Stage(o)
  /\ \A o \in Operators : pc[o] = "done" => Replaced(o)

\* The inductive invariant: with no write lost and no two scripts at once, the
\* keys are in order.
KeyInv == lost \/ overlap \/ KeysInOrder

(* A step that leaves the script's places and all keys alone. *)
LEMMA KeysAlone ==
  ASSUME KeysInOrder,
         UNCHANGED <<history, pc, old, new, secret, mock, next, rollout>>
  PROVE  KeysInOrder'
<1>1. Latest' = Latest /\ InUse' = InUse
  BY DEF Latest, InUse
<1>2. OneScript'
  BY DEF KeysInOrder, OneScript, Running
<1>3. InUseTaken'
  BY <1>1 DEF KeysInOrder, InUseTaken, Serves
<1>4. ASSUME NEW o \in Operators PROVE Stage(o)'
  BY <1>1, Stage(o) DEF KeysInOrder, Stage, Running, OwnRollout
<1>5. ASSUME NEW o \in Operators, pc'[o] = "done" PROVE Replaced(o)'
  BY <1>1, <1>5, Replaced(o) DEF KeysInOrder, Replaced, Running
<1>6. QED
  BY <1>2, <1>3, <1>4, <1>5 DEF KeysInOrder

(* A script that starts finds the key in use and makes one nobody has used. *)
LEMMA StartKeys ==
  ASSUME TypeOK, KeysInOrder, NEW o \in Operators, Start(o), ~overlap'
  PROVE  KeysInOrder'
<1>1. /\ UNCHANGED <<history, secret, mock, next, rollout>>
      /\ Latest' = Latest /\ InUse' = InUse
  BY DEF Start, gateway, Latest, InUse
<1>2. /\ pc' = [pc EXCEPT ![o] = pc'[o]] /\ pc'[o] \in {"failed", "widen"}
      /\ old' = [old EXCEPT ![o] = InUse] /\ new' = [new EXCEPT ![o] = made + 1]
  BY DEF Start, Goto, TypeOK, InUse
<1>3. \A p \in Operators : p # o => ~Running(p) /\ pc'[p] = pc[p] /\ old'[p] = old[p] /\ new'[p] = new[p]
  <2>1. ~(\E p \in Operators \ {o} : pc[p] \notin Ended)
    BY Zenon DEF Start
  <2>2. QED
    BY <1>2, <2>1 DEF Running, TypeOK
<1>4. old'[o] = InUse /\ new'[o] = made + 1
  BY <1>2 DEF TypeOK
<1>5. made \in Nat /\ InUse \in 1 .. made
  BY LatestKey DEF TypeOK, InUse
<1>6. OneScript'
  BY <1>3 DEF OneScript, Running
<1>7. InUseTaken'
  BY <1>1 DEF KeysInOrder, InUseTaken, Serves
<1>8. ASSUME NEW p \in Operators PROVE Stage(p)'
  <2>1. CASE p = o
    BY <1>1, <1>2, <1>4, <1>5, <2>1 DEF Stage, Running, Ended
  <2>2. CASE p # o
    BY <1>3, <2>2 DEF Stage, Running, Ended
  <2>3. QED
    BY <2>1, <2>2
<1>9. ASSUME NEW p \in Operators, pc'[p] = "done" PROVE Replaced(p)'
  <2>1. p # o
    BY <1>2, <1>9
  <2>2. pc[p] = "done" /\ Replaced(p) /\ old'[p] = old[p]
    BY <1>3, <1>9, <2>1 DEF KeysInOrder
  <2>3. old[p] \in 0 .. made
    BY DEF TypeOK
  <2>4. ASSUME NEW q \in Operators, Running(q)' PROVE old'[p] # new'[q]
    BY <1>3, <1>4, <1>5, <2>2, <2>3, <2>4 DEF Running
  <2>5. QED
    BY <1>1, <2>2, <2>4 DEF Replaced
<1>10. QED
  BY <1>6, <1>7, <1>8, <1>9 DEF KeysInOrder

(* What one script leaves of another: where one runs, it alone runs. *)
LEMMA Alone ==
  ASSUME KeysInOrder, NEW o \in Operators, Running(o), NEW p \in Operators, p # o
  PROVE  ~Running(p)
  BY DEF KeysInOrder, OneScript

(* A script that fails leaves the key in use where the gateway takes it. *)
LEMMA FailKeys ==
  ASSUME TypeOK, KeysInOrder, NEW o \in Operators, Fail(o)
  PROVE  KeysInOrder'
<1>1. /\ UNCHANGED <<history, old, new, secret, mock, next, rollout>>
      /\ Latest' = Latest /\ InUse' = InUse
  BY DEF Fail, gateway, Latest, InUse
<1>2. pc' = [pc EXCEPT ![o] = "failed"]
  BY DEF Fail, Goto
<1>3. \A p \in Operators : pc'[p] = "failed" \/ pc'[p] = pc[p]
  BY <1>2 DEF TypeOK
<1>4. OneScript'
  BY <1>3 DEF KeysInOrder, OneScript, Running, Ended
<1>5. InUseTaken'
  BY <1>1 DEF KeysInOrder, InUseTaken, Serves
<1>6. ASSUME NEW p \in Operators PROVE Stage(p)'
  BY <1>1, <1>3, Stage(p) DEF KeysInOrder, Stage, Running, OwnRollout, Ended
<1>7. ASSUME NEW p \in Operators, pc'[p] = "done" PROVE Replaced(p)'
  BY <1>1, <1>3, <1>7, Replaced(p) DEF KeysInOrder, Replaced, Running, Ended
<1>8. QED
  BY <1>4, <1>5, <1>6, <1>7 DEF KeysInOrder

(* A patch writes a list with the key in use, made of the script's own keys. *)
LEMMA PatchKeys ==
  ASSUME TypeOK, KeysInOrder, NEW o \in Operators, Running(o), NEW keys, InUse \in keys,
         NEW place \in {"widening", "narrowing"}, Patch(o, keys, place),
         keys \subseteq {InUse, new[o]},
         place = "widening" => keys = {old[o], new[o]} /\ InUse = old[o],
         place = "narrowing" => keys = {new[o]} /\ InUse = new[o]
  PROVE  KeysInOrder'
<1>1. /\ UNCHANGED <<history, old, new, mock, next>> /\ secret' = keys
      /\ Latest' = Latest /\ InUse' = InUse
  BY DEF Patch, Latest, InUse
<1>2. \/ rollout' = "wanted" /\ pc' = [pc EXCEPT ![o] = place]
      \/ rollout' = rollout /\ pc' = [pc EXCEPT ![o] = "failed"]
  BY DEF Patch, Goto
<1>3. \A p \in Operators : p # o => ~Running(p) /\ pc'[p] = pc[p]
  BY <1>2, Alone DEF TypeOK
<1>4. \/ rollout' = "wanted" /\ pc'[o] = place
      \/ rollout' = rollout /\ pc'[o] = "failed"
  BY <1>2 DEF TypeOK
<1>5. OneScript'
  BY <1>3 DEF OneScript, Running
<1>6. InUseTaken'
  BY <1>1, <1>2 DEF KeysInOrder, InUseTaken, Serves
<1>7. ASSUME NEW p \in Operators PROVE Stage(p)'
  <2>1. CASE p = o
    BY <1>1, <1>4, <2>1, Stage(o) DEF KeysInOrder, Stage, Running, OwnRollout, Ended
  <2>2. CASE p # o
    BY <1>3, <2>2 DEF Stage, Running, Ended
  <2>3. QED
    BY <2>1, <2>2
<1>8. ASSUME NEW p \in Operators, pc'[p] = "done" PROVE Replaced(p)'
  <2>1. p # o
    BY <1>4, <1>8
  <2>2. Replaced(p)
    BY <1>3, <1>8, <2>1 DEF KeysInOrder
  <2>3. old[p] # InUse /\ old[p] # new[o]
    BY <2>2 DEF Replaced
  <2>4. \A q \in Operators : Running(q)' => q = o
    BY <1>3 DEF Running
  <2>5. QED
    BY <1>1, <2>2, <2>3, <2>4 DEF Replaced
<1>9. QED
  BY <1>5, <1>6, <1>7, <1>8 DEF KeysInOrder

(* The two steps that wait for a rollout find the patch in force. *)
LEMMA WidenedKeys ==
  ASSUME TypeOK, KeysInOrder, NEW o \in Operators, Widened(o)
  PROVE  KeysInOrder'
<1>1. /\ UNCHANGED <<history, old, new, secret, mock, next, rollout>>
      /\ Latest' = Latest /\ InUse' = InUse
  BY DEF Widened, gateway, Latest, InUse
<1>2. /\ pc[o] = "widening" /\ Running(o) /\ rollout = "settled"
      /\ pc'[o] = "write" /\ \A p \in Operators : p # o => pc'[p] = pc[p]
  BY DEF Widened, RolledOut, Goto, TypeOK, Running, Ended
<1>3. \A p \in Operators : p # o => ~Running(p)
  BY <1>2, Alone
<1>4. OneScript'
  BY <1>2, <1>3 DEF OneScript, Running
<1>5. InUseTaken'
  BY <1>1 DEF KeysInOrder, InUseTaken, Serves
<1>6. ASSUME NEW p \in Operators PROVE Stage(p)'
  <2>1. CASE p = o
    BY <1>1, <1>2, <2>1, Stage(o) DEF KeysInOrder, Stage, Running, OwnRollout, Ended
  <2>2. CASE p # o
    BY <1>2, <1>3, <2>2 DEF Stage, Running, Ended
  <2>3. QED
    BY <2>1, <2>2
<1>7. ASSUME NEW p \in Operators, pc'[p] = "done" PROVE Replaced(p)'
  <2>1. p # o /\ Replaced(p)
    BY <1>2, <1>7 DEF KeysInOrder
  <2>2. \A q \in Operators : Running(q)' => Running(q)
    BY <1>2, <1>3 DEF Running
  <2>3. QED
    BY <1>1, <2>1, <2>2 DEF Replaced
<1>8. QED
  BY <1>4, <1>5, <1>6, <1>7 DEF KeysInOrder

LEMMA NarrowedKeys ==
  ASSUME TypeOK, KeysInOrder, NEW o \in Operators, Narrowed(o)
  PROVE  KeysInOrder'
<1>1. /\ UNCHANGED <<history, old, new, secret, mock, next, rollout>>
      /\ Latest' = Latest /\ InUse' = InUse
  BY DEF Narrowed, gateway, Latest, InUse
<1>2. /\ pc[o] = "narrowing" /\ Running(o) /\ rollout = "settled"
      /\ pc'[o] = "done" /\ \A p \in Operators : p # o => pc'[p] = pc[p]
  BY DEF Narrowed, RolledOut, Goto, TypeOK, Running, Ended
<1>3. \A p \in Operators : ~Running(p)'
  BY <1>2, Alone DEF Running, Ended
<1>4. OneScript'
  BY <1>3 DEF OneScript
<1>5. InUseTaken'
  BY <1>1 DEF KeysInOrder, InUseTaken, Serves
<1>6. ASSUME NEW p \in Operators PROVE Stage(p)'
  BY <1>3 DEF Stage, Running, Ended
<1>7. ASSUME NEW p \in Operators, pc'[p] = "done" PROVE Replaced(p)'
  <2>1. CASE p = o
    <3>1. /\ old[o] # new[o] /\ InUse = new[o] /\ secret = {new[o]} /\ mock = secret
          /\ next = {}
      BY <1>2, Stage(o) DEF KeysInOrder, Stage, OwnRollout, InUseTaken
    <3>2. QED
      BY <1>1, <1>3, <2>1, <3>1 DEF Replaced
  <2>2. CASE p # o
    <3>1. Replaced(p)
      BY <1>2, <1>7, <2>2 DEF KeysInOrder
    <3>2. QED
      BY <1>1, <1>3, <3>1 DEF Replaced
  <2>3. QED
    BY <2>1, <2>2
<1>8. QED
  BY <1>4, <1>5, <1>6, <1>7 DEF KeysInOrder

(* The write makes the new key the one in use; no key a finished script has
   replaced comes back. *)
LEMMA WriteKeys ==
  ASSUME TypeOK, KeysInOrder, NEW o \in Operators, Write(o), ~lost'
  PROVE  KeysInOrder'
<1>1. /\ UNCHANGED <<old, new, secret, mock, next, rollout>>
      /\ pc[o] = "write" /\ Running(o)
  BY DEF Write, gateway, Running, Ended
<1>2. \A p \in Operators : p # o => ~Running(p) /\ pc'[p] = pc[p]
  BY <1>1, Alone DEF Write, Goto, TypeOK
<1>3. \/ pc'[o] = "wait" /\ history' = Append(history, new[o])
      \/ pc'[o] = "failed" /\ history' = history
  BY DEF Write, Goto, TypeOK
<1>4. /\ secret = {old[o], new[o]} /\ mock = secret /\ next = {}
      /\ InUse = old[o] /\ old[o] # new[o]
  BY <1>1, Stage(o) DEF KeysInOrder, InUseTaken, Stage, OwnRollout
<1>5. /\ pc'[o] = "wait" => InUse' = new[o]
      /\ pc'[o] = "failed" => InUse' = InUse
  <2>1. history \in Seq(1 .. made) /\ new[o] \in 1 .. made
    BY <1>1 DEF TypeOK
  <2>2. CASE pc'[o] = "wait"
    <3>1. history' = Append(history, new[o])
      BY <1>3, <2>2
    <3>2. history'[Len(history')] = new[o]
      BY <2>1, <3>1
    <3>3. QED
      BY <2>2, <3>2 DEF InUse, Latest
  <2>3. CASE pc'[o] = "failed"
    BY <1>3, <2>3 DEF InUse, Latest
  <2>4. QED
    BY <1>3, <2>2, <2>3
<1>6. OneScript'
  BY <1>2 DEF OneScript, Running
<1>7. InUseTaken'
  BY <1>1, <1>3, <1>4, <1>5 DEF InUseTaken, Serves
<1>8. ASSUME NEW p \in Operators PROVE Stage(p)'
  <2>1. CASE p = o
    BY <1>1, <1>3, <1>4, <1>5, <2>1 DEF Stage, Running, OwnRollout, Ended
  <2>2. CASE p # o
    BY <1>2, <2>2 DEF Stage, Running, Ended
  <2>3. QED
    BY <2>1, <2>2
<1>9. ASSUME NEW p \in Operators, pc'[p] = "done" PROVE Replaced(p)'
  <2>1. p # o
    BY <1>3, <1>9
  <2>2. Replaced(p)
    BY <1>2, <1>9, <2>1 DEF KeysInOrder
  <2>3. old[p] # InUse /\ old[p] # new[o]
    BY <1>1, <2>2 DEF Replaced
  <2>4. \A q \in Operators : Running(q)' => q = o
    BY <1>2 DEF Running
  <2>5. QED
    BY <1>1, <1>3, <1>5, <2>2, <2>3, <2>4 DEF Replaced
<1>10. QED
  BY <1>6, <1>7, <1>8, <1>9 DEF KeysInOrder

(* A pod that starts, at a rollout or after a crash, reads the secret. *)
LEMMA DeploymentKeys ==
  ASSUME TypeOK, KeysInOrder, Deployment
  PROVE  KeysInOrder'
<1>1. /\ UNCHANGED <<history, pc, old, new, secret>>
      /\ Latest' = Latest /\ InUse' = InUse
  BY DEF Deployment, PodStarts, PodReplaces, PodCrashes, script, Latest, InUse
<1>2. OneScript'
  BY <1>1 DEF KeysInOrder, OneScript, Running
<1>3. InUseTaken'
  BY <1>1 DEF KeysInOrder, InUseTaken, Serves, Deployment, PodStarts, PodReplaces, PodCrashes
<1>4. ASSUME NEW o \in Operators PROVE Stage(o)'
  <2>1. Stage(o)
    BY DEF KeysInOrder
  <2>2. OwnRollout => OwnRollout'
    BY DEF KeysInOrder, InUseTaken, OwnRollout, Deployment, PodStarts, PodReplaces, PodCrashes
  <2>3. rollout = "settled" => rollout' = "settled"
    BY DEF KeysInOrder, InUseTaken, Deployment, PodStarts, PodReplaces, PodCrashes
  <2>4. QED
    BY <1>1, <2>1, <2>2, <2>3 DEF Stage, Running
<1>5. ASSUME NEW o \in Operators, pc'[o] = "done" PROVE Replaced(o)'
  <2>1. Replaced(o)
    BY <1>1, <1>5 DEF KeysInOrder
  <2>2. old[o] \notin mock' /\ old[o] \notin next'
    BY <2>1 DEF Replaced, Deployment, PodStarts, PodReplaces, PodCrashes
  <2>3. QED
    BY <1>1, <2>1, <2>2 DEF Replaced, Running
<1>6. QED
  BY <1>2, <1>3, <1>4, <1>5 DEF KeysInOrder

LEMMA InitKeys == Init => KeyInv
<1> SUFFICES ASSUME Init PROVE KeysInOrder
  BY DEF KeyInv
<1>1. InUse = 1
  BY DEF Init, InUse, Latest
<1>2. \A o \in Operators : pc[o] = "idle"
  BY DEF Init
<1>3. QED
  BY <1>1, <1>2 DEF Init, KeysInOrder, OneScript, InUseTaken, Serves, Latest, Stage, Replaced,
     Running, Ended

(* A write that was lost and an overlap of two scripts are not forgotten. *)
LEMMA GhostsStay ==
  ASSUME [Next]_vars, ~lost', ~overlap'
  PROVE  ~lost /\ ~overlap
<1>1. ASSUME lost' = lost, overlap' = overlap PROVE ~lost /\ ~overlap
  BY <1>1, Zenon
<1>2. ASSUME NEW o \in Operators, Script(o) PROVE ~lost /\ ~overlap
  <2>1. CASE Start(o)
    <3>1. lost' = lost /\ overlap' = (overlap \/ \E p \in Operators \ {o} : pc[p] \notin Ended)
      BY <2>1, Zenon DEF Start
    <3>2. QED
      BY <3>1, Zenon
  <2>2. CASE Write(o)
    <3>1. overlap' = overlap
      BY <2>2 DEF Write
    <3>2. lost' = lost \/ lost' = TRUE
      BY <2>2, Zenon DEF Write
    <3>3. lost' # TRUE
      OBVIOUS
    <3>4. lost' = lost
      BY <3>2, <3>3, Zenon
    <3>5. QED
      BY <1>1, <3>1, <3>4
  <2>3. CASE Widen(o) \/ Widened(o) \/ Narrow(o) \/ Narrowed(o)
    BY <1>1, <2>3 DEF Widen, Widened, Narrow, Narrowed, Patch, ghosts
  <2>4. QED
    BY <1>2, <2>1, <2>2, <2>3 DEF Script
<1>3. CASE (\E o \in Operators : Fail(o)) \/ Deployment \/ Tick \/ VaultChanges \/ UNCHANGED vars
  BY <1>1, <1>3 DEF Fail, Deployment, PodStarts, PodReplaces, PodCrashes, Tick, VaultChanges,
     vars, ghosts
<1>4. CASE \E r \in Replicas : Boot(r) \/ Poll(r) \/ Die(r)
  BY <1>1, <1>4 DEF Boot, Poll, Die, ghosts
<1>5. QED
  BY <1>2, <1>3, <1>4 DEF Next

LEMMA StepKeys == TypeOK /\ KeyInv /\ [Next]_vars => KeyInv'
<1> SUFFICES ASSUME TypeOK, KeyInv, [Next]_vars, ~lost', ~overlap' PROVE KeysInOrder'
  BY DEF KeyInv
<1>1. ~lost /\ ~overlap
  BY GhostsStay
<1>2. KeysInOrder
  BY <1>1 DEF KeyInv
<1>3. ASSUME NEW o \in Operators, Script(o) \/ Fail(o) PROVE KeysInOrder'
  <2>1. CASE Widen(o)
    <3>1. pc[o] = "widen" /\ Running(o) /\ InUse = old[o]
      BY <1>2, <2>1, Stage(o) DEF KeysInOrder, Stage, Widen, Running, Ended
    <3>2. QED
      BY <1>2, <2>1, <3>1, PatchKeys DEF Widen
  <2>2. CASE Narrow(o)
    <3>1. pc[o] = "wait" /\ Running(o) /\ InUse = new[o]
      BY <1>2, <2>2, Stage(o) DEF KeysInOrder, Stage, Narrow, Running, Ended
    <3>2. QED
      BY <1>2, <2>2, <3>1, PatchKeys DEF Narrow
  <2>3. QED
    BY <1>2, <1>3, <2>1, <2>2, StartKeys, FailKeys, WidenedKeys, WriteKeys, NarrowedKeys DEF Script
<1>4. CASE Deployment
  BY <1>2, <1>4, DeploymentKeys
<1>5. CASE \E r \in Replicas : Boot(r) \/ Poll(r) \/ Die(r)
  BY <1>2, <1>5, KeysAlone DEF Boot, Poll, Die, script, gateway
<1>6. CASE Tick \/ VaultChanges \/ UNCHANGED vars
  BY <1>2, <1>6, KeysAlone DEF Tick, VaultChanges, vars, script, gateway
<1>7. QED
  BY <1>3, <1>4, <1>5, <1>6 DEF Next

LEMMA KeyInvariant == Spec => []KeyInv
<1>1. TypeOK /\ KeyInv /\ [Next]_vars => KeyInv'
  BY StepKeys
<1>2. QED
  BY <1>1, InitKeys, TypeCorrect, PTL DEF Spec

(* A pod of the gateway takes the latest key in Vault at every moment, through
   widening, write, narrowing, failures and crashes, unless a write was lost
   unnoticed or two scripts ran at once.  Before the first write to Vault it may
   have the keys the manifest ships; after it no pod has them, nor gets them back. *)
THEOREM LatestTaken == Spec => []LatestAccepted
<1>1. TypeOK /\ KeyInv => LatestAccepted
  <2> SUFFICES ASSUME TypeOK, KeysInOrder, NEW keys \in Pods
               PROVE  Accepted(Latest, keys) \/ (keys = ShippedKeys /\ Latest = 1)
    BY DEF KeyInv, LatestAccepted
  <2>1. Latest # 0
    BY LatestKey DEF TypeOK
  <2>2. Serves(keys)
    BY DEF KeysInOrder, InUseTaken, Pods
  <2>3. QED
    BY <2>1, <2>2 DEF Serves, Accepted, InUse
<1>2. QED
  BY <1>1, TypeCorrect, KeyInvariant, PTL

(* A finished rotation has revoked the key it replaced, for good, with the same
   two exceptions. *)
THEOREM OldKeyStaysRevoked == Spec => []OldKeyRevoked
<1>1. KeyInv => OldKeyRevoked
  BY DEF KeyInv, KeysInOrder, Replaced, OldKeyRevoked, Pods
<1>2. QED
  BY <1>1, KeyInvariant, PTL

-----------------------------------------------------------------------------
(* Each replica as a PollingReplica, and so as a DualCredential *)

\* A replica that is down holds nothing: a new process starts from no credential.
DownEmpty == \A r \in Replicas : ~up[r] => held[r] = 0

PollsStep == \A r \in Replicas : [Polled(r)!PollNext]_(Polled(r)!pollVars)

(* A replica is left alone by a step that changes none of what it is made of. *)
LEMMA PollsStutter ==
  ASSUME NEW p \in Replicas, vault' = vault, Latest' = Latest, up'[p] = up[p],
         held'[p] = held[p], spare'[p] = spare[p], delay'[p] = delay[p], wake'[p] = wake[p]
  PROVE  UNCHANGED Polled(p)!pollVars
  BY DEF Polled!pollVars

(* A poll or a start of one replica changes nothing of another. *)
LEMMA OthersAlone ==
  ASSUME TypeOK, NEW r \in Replicas, Boot(r) \/ Poll(r) \/ Die(r), NEW p \in Replicas, p # r
  PROVE  /\ up'[p] = up[p] /\ held'[p] = held[p] /\ spare'[p] = spare[p]
         /\ delay'[p] = delay[p] /\ wake'[p] = wake[p]
<1>1. held'[p] = held[p] /\ spare'[p] = spare[p]
  BY DEF TypeOK, Boot, Poll, Die, Adopt
<1>2. delay'[p] = delay[p] /\ wake'[p] = wake[p]
  BY DEF TypeOK, Boot, Poll, Die, Sleep
<1>3. up'[p] = up[p]
  <2>1. up \in [Replicas -> BOOLEAN]
    BY DEF TypeOK
  <2>2. up' = up \/ up' = [up EXCEPT ![r] = TRUE] \/ up' = [up EXCEPT ![r] = FALSE]
    BY Zenon DEF Boot, Poll, Die
  <2>3. QED
    BY <2>1, <2>2
<1>4. QED
  BY <1>1, <1>2, <1>3

(* With Vault up a load is the contract's Adopt, or finds nothing newer; with
   Vault down it changes nothing. *)
LEMMA LoadPolls ==
  ASSUME TypeOK, NEW r \in Replicas, Latest' = Latest,
         IF vault = "up" THEN Adopt(r) ELSE UNCHANGED <<held, spare>>
  PROVE  Polled(r)!Load
<1>1. CASE vault = "up"
  <2>1. held'[r] = Latest /\ spare'[r] = IF held[r] = Latest THEN spare[r] ELSE held[r]
    BY <1>1 DEF TypeOK, Adopt
  <2>2. QED
    BY <1>1, <2>1 DEF Polled!Load, Polled!Adopt
<1>2. CASE vault # "up"
  BY <1>2 DEF Polled!Load
<1>3. QED
  BY <1>1, <1>2

LEMMA SleepPolls ==
  ASSUME TypeOK, NEW r \in Replicas, NEW d, Sleep(r, d)
  PROVE  delay'[r] = d /\ wake'[r] = d
  BY DEF TypeOK, Sleep

LEMMA BootPolls ==
  ASSUME TypeOK, DownEmpty, NEW r \in Replicas, Boot(r)
  PROVE  PollsStep
<1>1. vault' = vault /\ Latest' = Latest
  BY DEF Boot, Latest
<1>2. up'[r] = TRUE
  BY DEF TypeOK, Boot
<1>3. Polled(r)!Load
  <2>1. IF vault = "up" THEN Adopt(r) ELSE UNCHANGED <<held, spare>>
    BY DEF Boot
  <2>2. QED
    BY <1>1, <2>1, LoadPolls
<1>4. delay'[r] = 1 /\ wake'[r] = 1
  BY SleepPolls DEF Boot
<1>5. ~up[r] /\ held[r] = 0
  BY DEF Boot, DownEmpty
<1>6. Polled(r)!Start
  BY <1>1, <1>2, <1>3, <1>4, <1>5 DEF Polled!Start, Polled!Pause
<1>7. QED
  BY <1>1, <1>6, OthersAlone, PollsStutter DEF PollsStep, Polled!PollNext

LEMMA PollPolls ==
  ASSUME TypeOK, NEW r \in Replicas, Poll(r)
  PROVE  PollsStep
<1>1. vault' = vault /\ Latest' = Latest /\ up' = up
  BY DEF Poll, Latest
<1>2. up[r] /\ wake[r] = 0
  BY DEF Poll
<1>3. Polled(r)!Load
  <2>1. IF vault = "up" THEN Adopt(r) ELSE UNCHANGED <<held, spare>>
    BY DEF Poll
  <2>2. QED
    BY <1>1, <2>1, LoadPolls
<1>4. Sleep(r, IF vault = "up" THEN 1 ELSE Polled(r)!Longer)
  BY DEF Poll, Backoff, Polled!Longer
<1>5. /\ delay'[r] = IF vault = "up" THEN 1 ELSE Polled(r)!Longer
      /\ wake'[r] = IF vault = "up" THEN 1 ELSE Polled(r)!Longer
  BY <1>4, SleepPolls
<1>6. Polled(r)!Poll
  BY <1>1, <1>2, <1>3, <1>5 DEF Polled!Poll, Polled!Pause
<1>7. QED
  BY <1>1, <1>6, OthersAlone, PollsStutter DEF PollsStep, Polled!PollNext

LEMMA DiePolls ==
  ASSUME TypeOK, NEW r \in Replicas, Die(r)
  PROVE  PollsStep
<1>1. vault' = vault /\ Latest' = Latest
  BY DEF Die, Latest
<1>2. up'[r] = FALSE /\ held'[r] = 0 /\ spare'[r] = 0
  BY DEF TypeOK, Die
<1>3. delay'[r] = 1
  BY SleepPolls DEF Die
<1>4. Polled(r)!Exit
  BY <1>1, <1>2, <1>3 DEF Polled!Exit, Polled!Forget
<1>5. QED
  BY <1>1, <1>4, OthersAlone, PollsStutter DEF PollsStep, Polled!PollNext

(* A tick is one of every replica that is up; the others have no pause. *)
LEMMA TickPolls ==
  ASSUME TypeOK, Tick
  PROVE  PollsStep
<1> SUFFICES ASSUME NEW p \in Replicas
             PROVE  Polled(p)!PollNext \/ UNCHANGED Polled(p)!pollVars
  BY DEF PollsStep
<1>1. vault' = vault /\ Latest' = Latest /\ up' = up /\ held' = held /\ spare' = spare
      /\ delay' = delay
  BY DEF Tick, Latest
<1>2. wake[p] > 0 /\ wake'[p] = IF up[p] THEN wake[p] - 1 ELSE wake[p]
  BY DEF Tick
<1>3. CASE up[p]
  BY <1>1, <1>2, <1>3 DEF Polled!PollNext, Polled!Tick
<1>4. CASE ~up[p]
  BY <1>1, <1>2, <1>4, PollsStutter
<1>5. QED
  BY <1>3, <1>4

(* A write that Vault takes publishes a version to every replica. *)
LEMMA WritePolls ==
  ASSUME TypeOK, NEW o \in Operators, Write(o)
  PROVE  PollsStep
<1>1. vault' = vault /\ up' = up /\ held' = held /\ spare' = spare /\ delay' = delay /\ wake' = wake
  BY DEF Write, replicas
<1>2. history' = history \/ history' = Append(history, new[o])
  BY Zenon DEF Write
<1>3. Latest \in Nat /\ (Latest' = Latest \/ Latest' = Latest + 1)
  <2>1. history \in Seq(1 .. made)
    BY DEF TypeOK
  <2>2. Len(history) \in Nat /\ (Len(history') = Len(history) \/ Len(history') = Len(history) + 1)
    BY <1>2, <2>1
  <2>3. QED
    BY <2>2 DEF Latest
<1>4. CASE Latest' = Latest
  BY <1>1, <1>4, PollsStutter DEF PollsStep
<1>5. CASE Latest' = Latest + 1
  <2>1. ASSUME NEW p \in Replicas PROVE Polled(p)!PublishAny
    BY <1>1, <1>3, <1>5 DEF Polled!PublishAny, Polled!Publish, Polled!loopVars
  <2>2. QED
    BY <2>1 DEF PollsStep, Polled!PollNext
<1>6. QED
  BY <1>3, <1>4, <1>5

LEMMA VaultPolls ==
  ASSUME TypeOK, VaultChanges
  PROVE  PollsStep
<1>1. Latest' = Latest /\ up' = up /\ held' = held /\ spare' = spare /\ delay' = delay
      /\ wake' = wake
  BY DEF VaultChanges, replicas, Latest
<1>2. vault' = IF vault = "up" THEN "down" ELSE "up"
  BY DEF VaultChanges
<1>3. ASSUME NEW p \in Replicas PROVE Polled(p)!VaultChanges
  BY <1>1, <1>2 DEF Polled!VaultChanges, Polled!loopVars
<1>4. QED
  BY <1>3 DEF PollsStep, Polled!PollNext

LEMMA StepPolls == TypeOK /\ DownEmpty /\ [Next]_vars => PollsStep
<1> SUFFICES ASSUME TypeOK, DownEmpty, [Next]_vars PROVE PollsStep
  OBVIOUS
<1>1. ASSUME vault' = vault, Latest' = Latest, replicas' = replicas PROVE PollsStep
  BY <1>1, PollsStutter DEF PollsStep, replicas
<1>2. ASSUME NEW o \in Operators, Script(o) \/ Fail(o) PROVE PollsStep
  <2>1. CASE Write(o)
    BY <2>1, WritePolls
  <2>2. CASE Start(o) \/ Widen(o) \/ Widened(o) \/ Narrow(o) \/ Narrowed(o) \/ Fail(o)
    <3>1. vault' = vault /\ Latest' = Latest /\ replicas' = replicas
      BY <2>2 DEF Start, Widen, Widened, Narrow, Narrowed, Fail, Patch, replicas, Latest
    <3>2. QED
      BY <1>1, <3>1
  <2>3. QED
    BY <1>2, <2>1, <2>2 DEF Script
<1>3. CASE Deployment \/ UNCHANGED vars
  <2>1. vault' = vault /\ Latest' = Latest /\ replicas' = replicas
    BY <1>3 DEF Deployment, PodStarts, PodReplaces, PodCrashes, vars, replicas, Latest
  <2>2. QED
    BY <1>1, <2>1
<1>4. QED
  BY <1>2, <1>3, BootPolls, PollPolls, DiePolls, TickPolls, VaultPolls DEF Next

LEMMA StepDownEmpty == TypeOK /\ DownEmpty /\ [Next]_vars => DownEmpty'
<1> SUFFICES ASSUME TypeOK, DownEmpty, [Next]_vars PROVE DownEmpty'
  OBVIOUS
<1>1. CASE up' = up /\ held' = held
  BY <1>1 DEF DownEmpty
<1>2. ASSUME NEW r \in Replicas, Boot(r) \/ Poll(r) \/ Die(r) PROVE DownEmpty'
  <2>1. ASSUME NEW p \in Replicas, p # r, ~up'[p] PROVE held'[p] = 0
    BY <1>2, <2>1, OthersAlone DEF DownEmpty
  <2>2. ASSUME ~up'[r] PROVE held'[r] = 0
    <3>1. up \in [Replicas -> BOOLEAN] /\ held \in [Replicas -> 0 .. Latest]
      BY DEF TypeOK
    <3>2. CASE Die(r)
      BY <3>1, <3>2 DEF Die
    <3>3. CASE Boot(r)
      BY <2>2, <3>1, <3>3 DEF Boot
    <3>4. CASE Poll(r)
      BY <2>2, <3>4 DEF Poll
    <3>5. QED
      BY <1>2, <3>2, <3>3, <3>4
  <2>3. QED
    BY <2>1, <2>2 DEF DownEmpty
<1>3. QED
  BY <1>1, <1>2 DEF Next, Script, Start, Fail, Widen, Widened, Write, Narrow, Narrowed, Patch,
     Deployment, PodStarts, PodReplaces, PodCrashes, Tick, VaultChanges, vars, replicas

LEMMA DownAlwaysEmpty == Spec => []DownEmpty
<1>1. Init => DownEmpty
  BY DEF Init, DownEmpty
<1>2. QED
  BY <1>1, TypeCorrect, StepDownEmpty, PTL DEF Spec

(* Each replica loads, pauses and backs off as CredentialManager does: the
   timing the script's wait relies on is the one the connector is shown to have. *)
THEOREM ReplicasPoll == Spec => ReplicaPolls
<1>1. Init => \A r \in Replicas : Polled(r)!PollInit
  <2> SUFFICES ASSUME Init, NEW r \in Replicas PROVE Polled(r)!PollInit
    OBVIOUS
  <2>1. Latest = 1 /\ held[r] = 0 /\ spare[r] = 0 /\ up[r] = FALSE /\ delay[r] = 1
    BY DEF Init, Latest
  <2>2. QED
    BY <2>1 DEF Polled!PollInit, Polled!Init
<1>2. TypeOK /\ DownEmpty /\ [Next]_vars
        => \A r \in Replicas : [Polled(r)!PollNext]_(Polled(r)!pollVars)
  BY StepPolls DEF PollsStep
<1>3. QED
  BY <1>1, <1>2, DownAlwaysEmpty, TypeCorrect, PTL DEF Spec, ReplicaPolls

(* And so it keeps the promise of DualCredential: it holds the newest credential
   it has read and the one before it, whatever the operators, Vault and the
   gateway do. *)
THEOREM ReplicasAreDual == Spec => ReplicaDual
<1>1. (\A r \in Replicas : Polled(r)!PollInit) => \A r \in Replicas : Dual(r)!Init
  BY DEF Polled!PollInit, Polled!Init, Dual!Init
<1>2. ASSUME NEW r \in Replicas, [Polled(r)!PollNext]_(Polled(r)!pollVars)
      PROVE  [Dual(r)!Next]_(Dual(r)!vars)
  BY <1>2 DEF Polled!PollNext, Polled!Start, Polled!Poll, Polled!Tick, Polled!Stop, Polled!Exit,
     Polled!PublishAny, Polled!VaultChanges, Polled!Load, Polled!pollVars, Polled!Adopt,
     Polled!Publish, Polled!Forget, Dual!Next, Dual!vars, Dual!Adopt, Dual!Publish, Dual!Forget
<1>3. (\A r \in Replicas : [Polled(r)!PollNext]_(Polled(r)!pollVars))
        => \A r \in Replicas : [Dual(r)!Next]_(Dual(r)!vars)
  BY <1>2
<1>4. QED
  BY <1>1, <1>3, ReplicasPoll, PTL DEF ReplicaPolls, ReplicaDual

-----------------------------------------------------------------------------
(* Zero downtime *)

\* The cap lets a pause grow until it outlasts the script: 10 ticks, and 3 to wait.
LongPauses == 2 * MaxDelay > WaitTicks + 1

BothTaken(o) == secret = {old[o], new[o]} /\ mock = secret /\ rollout = "settled"

\* Between its write and its last step a script has both keys in force, and the
\* key in use is the old one until the write.
Window(o) ==
  /\ pc[o] # "wait" => waited[o] = 0
  /\ pc[o] \in {"widen", "widening", "write"} => history[Latest] = old[o]
  /\ pc[o] = "widening" => secret = {old[o], new[o]}
  /\ pc[o] = "widening" /\ rollout = "started" => next = secret
  /\ pc[o] = "widening" /\ rollout = "settled" => mock = secret
  /\ pc[o] \in {"write", "wait"} => BothTaken(o)

Windows ==
  /\ OneScript
  /\ rollout = "settled" => next = {}
  /\ \A o \in Operators : Window(o)

\* A replica that is behind polls again before the script narrows the keys.
InTime(r, o) ==
  pc[o] = "wait" /\ history[held[r]] = old[o] /\ waited[o] + wake[r] <= 2 * delay[r] - 1

Lag(r) == Behind(r) /\ ~Outlasts(r) => \E o \in Operators : InTime(r, o)

Punctual(r) == wake[r] <= delay[r] /\ (held[r] # 0 => up[r])

Replicating == \A r \in Replicas : Punctual(r) /\ Lag(r)

\* The inductive invariant: with no two scripts at once and none cut short in its
\* wait, the old key is in force for as long as a replica may have only that.
WindowInv == overlap \/ cut \/ (Windows /\ Replicating)

(* The numbers. *)
LEMMA Numbers ==
  ASSUME TypeOK, NEW r \in Replicas
  PROVE  /\ held[r] \in Nat /\ delay[r] \in Nat /\ delay[r] >= 1 /\ delay[r] <= MaxDelay
         /\ wake[r] \in Nat /\ WaitTicks \in Nat /\ MaxDelay \in Nat
         /\ \A o \in Operators : waited[o] \in Nat
         /\ Latest \in Nat /\ history \in Seq(1 .. made) /\ Latest = Len(history)
<1>1. Latest \in Nat
  BY LatestKey DEF TypeOK
<1>2. QED
  BY <1>1 DEF TypeOK, Latest

(* A step of a script that is not about its wait. *)
LEMMA LagKeeps ==
  ASSUME Replicating, UNCHANGED <<history, up, held, delay, wake>>,
         \A o \in Operators : pc[o] = "wait" =>
           pc'[o] = "wait" /\ old'[o] = old[o] /\ waited'[o] = waited[o]
  PROVE  Replicating'
<1>1. Latest' = Latest
  BY DEF Latest
<1>2. ASSUME NEW r \in Replicas PROVE Punctual(r)' /\ Lag(r)'
  <2>1. Punctual(r)'
    BY DEF Replicating, Punctual
  <2>2. Behind(r)' = Behind(r) /\ Outlasts(r)' = Outlasts(r)
    BY <1>1 DEF Behind, Outlasts
  <2>3. \A o \in Operators : InTime(r, o) => InTime(r, o)'
    BY DEF InTime
  <2>4. QED
    BY <2>1, <2>2, <2>3 DEF Replicating, Lag
<1>3. QED
  BY <1>2 DEF Replicating

(* A script moves and the others have ended: only its own place matters. *)
LEMMA WindowsOfOne ==
  ASSUME Windows, NEW o \in Operators,
         \A p \in Operators : p # o => /\ ~Running(p) /\ pc'[p] = pc[p] /\ waited'[p] = waited[p],
         rollout' = "settled" => next' = {}, Window(o)'
  PROVE  Windows'
<1>1. OneScript'
  BY DEF OneScript, Running
<1>2. ASSUME NEW p \in Operators, p # o PROVE Window(p)'
  BY <1>2 DEF Windows, Window, Running, Ended
<1>3. QED
  BY <1>1, <1>2 DEF Windows

LEMMA AloneRuns ==
  ASSUME Windows, NEW o \in Operators, Running(o), NEW p \in Operators, p # o
  PROVE  ~Running(p)
  BY DEF Windows, OneScript

LEMMA StartWindow ==
  ASSUME TypeOK, Windows, Replicating, NEW o \in Operators, Start(o), ~overlap'
  PROVE  Windows' /\ Replicating'
<1>1. UNCHANGED <<history, waited, secret, mock, next, rollout, up, held, delay, wake>>
      /\ Latest' = Latest
  BY DEF Start, gateway, replicas, Latest
<1>2. /\ pc[o] \in Ended /\ pc'[o] \in {"failed", "widen"} /\ old'[o] = history[Latest]
      /\ \A p \in Operators : p # o => pc'[p] = pc[p] /\ old'[p] = old[p]
  BY DEF Start, Goto, TypeOK
<1>3. \A p \in Operators : p # o => ~Running(p)
  <2>1. ~(\E p \in Operators \ {o} : pc[p] \notin Ended)
    BY Zenon DEF Start
  <2>2. QED
    BY <2>1 DEF Running
<1>4. Window(o)'
  BY <1>1, <1>2 DEF Windows, Window, Ended
<1>5. Windows'
  BY <1>1, <1>2, <1>3, <1>4, WindowsOfOne DEF Windows
<1>6. Replicating'
  BY <1>1, <1>2, LagKeeps DEF Ended
<1>7. QED
  BY <1>5, <1>6

LEMMA FailWindow ==
  ASSUME TypeOK, Windows, Replicating, NEW o \in Operators, Fail(o), ~cut'
  PROVE  Windows' /\ Replicating'
<1>1. /\ UNCHANGED <<history, old, new, secret, mock, next, rollout, up, held, delay, wake>>
      /\ Running(o) /\ pc[o] # "wait"
  BY DEF Fail, gateway, replicas, Running
<1>2. /\ pc'[o] = "failed" /\ waited'[o] = 0
      /\ \A p \in Operators : p # o => pc'[p] = pc[p] /\ waited'[p] = waited[p]
  BY DEF Fail, Goto, TypeOK
<1>3. Window(o)'
  BY <1>2 DEF Window
<1>4. Windows'
  BY <1>1, <1>2, <1>3, AloneRuns, WindowsOfOne DEF Windows
<1>5. Replicating'
  BY <1>1, <1>2, LagKeeps
<1>6. QED
  BY <1>4, <1>5

LEMMA WidenWindow ==
  ASSUME TypeOK, Windows, Replicating, NEW o \in Operators, Widen(o)
  PROVE  Windows' /\ Replicating'
<1>1. /\ UNCHANGED <<history, old, new, mock, next, up, held, delay, wake>> /\ Latest' = Latest
      /\ pc[o] = "widen" /\ secret' = {old[o], new[o]} /\ Running(o)
  BY DEF Widen, Patch, replicas, Latest, Running, Ended
<1>2. /\ \/ rollout' = "wanted" /\ pc'[o] = "widening"
         \/ rollout' = rollout /\ pc'[o] = "failed"
      /\ waited'[o] = 0
      /\ \A p \in Operators : p # o => pc'[p] = pc[p] /\ waited'[p] = waited[p]
  BY DEF Widen, Patch, Goto, TypeOK
<1>3. Window(o)'
  BY <1>1, <1>2 DEF Windows, Window
<1>4. Windows'
  BY <1>1, <1>2, <1>3, AloneRuns, WindowsOfOne DEF Windows
<1>5. Replicating'
  BY <1>1, <1>2, LagKeeps
<1>6. QED
  BY <1>4, <1>5

LEMMA WidenedWindow ==
  ASSUME TypeOK, Windows, Replicating, NEW o \in Operators, Widened(o) \/ Narrowed(o)
  PROVE  Windows' /\ Replicating'
<1>1. /\ UNCHANGED <<history, old, new, waited, secret, mock, next, rollout, up, held, delay, wake>>
      /\ Latest' = Latest
      /\ rollout = "settled" /\ Running(o) /\ pc[o] # "wait"
  BY DEF Widened, Narrowed, gateway, replicas, Latest, RolledOut, Running, Ended
<1>2. /\ \/ pc[o] = "widening" /\ pc'[o] = "write"
         \/ pc'[o] = "done"
      /\ \A p \in Operators : p # o => pc'[p] = pc[p]
  BY DEF Widened, Narrowed, Goto, TypeOK
<1>3. Window(o)'
  BY <1>1, <1>2 DEF Windows, Window, BothTaken
<1>4. Windows'
  BY <1>1, <1>2, <1>3, AloneRuns, WindowsOfOne DEF Windows
<1>5. Replicating'
  BY <1>1, <1>2, LagKeeps
<1>6. QED
  BY <1>4, <1>5

(* The write puts every replica that was up to date behind, with the old key,
   and its next poll at most its pause away. *)
LEMMA WriteWindow ==
  ASSUME TypeOK, Windows, Replicating, NEW o \in Operators, Write(o)
  PROVE  Windows' /\ Replicating'
<1>1. /\ UNCHANGED <<old, new, waited, secret, mock, next, rollout, up, held, delay, wake>>
      /\ pc[o] = "write" /\ Running(o)
      /\ pc'[o] \in {"wait", "failed"}
      /\ \A p \in Operators : p # o => pc'[p] = pc[p]
  BY DEF Write, Goto, TypeOK, gateway, replicas, Running, Ended
<1>2. \/ history' = history
      \/ history' = Append(history, new[o]) /\ pc'[o] = "wait"
  BY DEF Write, Goto, TypeOK
<1>3. history[Latest] = old[o] /\ waited[o] = 0 /\ BothTaken(o)
  BY <1>1 DEF Windows, Window
<1>4. Window(o)'
  BY <1>1, <1>3 DEF Window, BothTaken
<1>5. Windows'
  BY <1>1, <1>4, AloneRuns, WindowsOfOne DEF Windows
<1>6. \A p \in Operators : pc[p] # "wait"
  BY <1>1, AloneRuns DEF Running, Ended
<1>7. CASE history' = history
  <2>1. Replicating'
    BY <1>1, <1>6, <1>7, LagKeeps
  <2>2. QED
    BY <1>5, <2>1
<1>8. CASE history' = Append(history, new[o]) /\ pc'[o] = "wait"
  <2>1. ASSUME NEW r \in Replicas PROVE Lag(r)'
    <3>1. /\ Latest' = Latest + 1
          /\ held[r] = Latest => history'[held[r]] = history[Latest]
      <4>1. history \in Seq(1 .. made) /\ Latest = Len(history) /\ Latest \in 1 .. Len(history)
        BY DEF TypeOK, Latest
      <4>2. QED
        BY <1>8, <4>1 DEF Latest
    <3>2. CASE held[r] = Latest
      <4>1. wake[r] <= delay[r]
        BY DEF Replicating, Punctual
      <4>2. history'[held'[r]] = old'[o] /\ pc'[o] = "wait" /\ waited'[o] = 0
        BY <1>1, <1>3, <1>8, <3>1, <3>2
      <4>3. wake[r] \in Nat /\ delay[r] \in Nat /\ delay[r] >= 1
        BY Numbers
      <4>4. 0 + wake'[r] <= 2 * delay'[r] - 1
        BY <1>1, <4>1, <4>3
      <4>5. InTime(r, o)'
        BY <4>2, <4>4 DEF InTime
      <4>6. QED
        BY <4>5 DEF Lag
    <3>3. CASE held[r] # Latest
      <4>1. Behind(r) => Outlasts(r)
        BY <1>6 DEF Replicating, Lag, InTime
      <4>2. QED
        BY <1>1, <3>3, <4>1 DEF Lag, Behind, Outlasts
    <3>4. QED
      BY <3>2, <3>3
  <2>2. ASSUME NEW r \in Replicas PROVE Punctual(r)'
    BY <1>1 DEF Replicating, Punctual
  <2>3. Replicating'
    BY <2>1, <2>2 DEF Replicating
  <2>4. QED
    BY <1>5, <2>3
<1>9. QED
  BY <1>2, <1>5, <1>7, <1>8

(* When the wait is over, no replica is behind but one whose pause outlasts it. *)
LEMMA NarrowWindow ==
  ASSUME TypeOK, Windows, Replicating, NEW o \in Operators, Narrow(o)
  PROVE  Windows' /\ Replicating'
<1>1. /\ UNCHANGED <<history, old, new, mock, next, up, held, delay, wake>> /\ Latest' = Latest
      /\ pc[o] = "wait" /\ waited[o] >= WaitTicks /\ Running(o)
      /\ \A r \in Replicas : wake[r] > 0
  BY DEF Narrow, Waited, Patch, replicas, Latest, Running, Ended
<1>2. /\ rollout' \in {"wanted", rollout} /\ pc'[o] \in {"narrowing", "failed"}
      /\ waited'[o] = 0
      /\ \A p \in Operators : p # o => pc'[p] = pc[p] /\ waited'[p] = waited[p]
  BY DEF Narrow, Patch, Goto, TypeOK
<1>3. Window(o)'
  BY <1>2 DEF Window
<1>4. Windows'
  BY <1>1, <1>2, <1>3, AloneRuns, WindowsOfOne DEF Windows
<1>5. ASSUME NEW r \in Replicas PROVE Lag(r)' /\ Punctual(r)'
  <2>1. ASSUME NEW p \in Operators, InTime(r, p), ~Outlasts(r) PROVE FALSE
    <3>1. p = o
      BY <1>1, <2>1, AloneRuns DEF InTime, Running, Ended
    <3>2. waited[o] + wake[r] <= 2 * delay[r] - 1 /\ 2 * delay[r] <= WaitTicks + 1
      BY <2>1, <3>1, Numbers DEF InTime, Outlasts
    <3>3. QED
      BY <1>1, <3>2, Numbers
  <2>2. Behind(r) => Outlasts(r)
    BY <2>1 DEF Replicating, Lag
  <2>3. QED
    BY <1>1, <2>2 DEF Lag, Behind, Outlasts, Replicating, Punctual
<1>6. QED
  BY <1>4, <1>5 DEF Replicating

LEMMA DeploymentWindow ==
  ASSUME TypeOK, Windows, Replicating, Deployment
  PROVE  Windows' /\ Replicating'
<1>1. /\ UNCHANGED <<history, made, pc, old, new, waited, secret, up, held, spare, delay, wake>>
      /\ Latest' = Latest
  BY DEF Deployment, PodStarts, PodReplaces, PodCrashes, script, replicas, Latest
<1>2. \/ rollout = "wanted" /\ next' = secret /\ rollout' = "started" /\ mock' = mock
      \/ /\ next # {} /\ mock' = next /\ next' = {}
         /\ rollout' = IF rollout = "started" THEN "settled" ELSE rollout
      \/ mock' = secret /\ next' = next /\ rollout' = rollout
  BY DEF Deployment, PodStarts, PodReplaces, PodCrashes
<1>3. OneScript' /\ (rollout' = "settled" => next' = {})
  BY <1>1, <1>2 DEF Windows, OneScript, Running
<1>4. ASSUME NEW o \in Operators PROVE Window(o)'
  <2>1. Window(o) /\ (rollout = "settled" => next = {})
    BY DEF Windows
  <2>2. QED
    BY <1>1, <1>2, <2>1 DEF Window, BothTaken
<1>5. QED
  BY <1>1, <1>3, <1>4, LagKeeps DEF Windows

(* Where no script and no pod moves, the windows stay as they are. *)
LEMMA WindowsStay ==
  ASSUME Windows, UNCHANGED <<history, pc, old, new, secret, mock, next, rollout>>,
         \A o \in Operators : pc[o] # "wait" => waited'[o] = waited[o]
  PROVE  Windows'
<1>1. Latest' = Latest
  BY DEF Latest
<1>2. ASSUME NEW o \in Operators PROVE Window(o)'
  BY <1>1 DEF Windows, Window, BothTaken
<1>3. QED
  BY <1>2 DEF Windows, OneScript, Running

LEMMA TickWindow ==
  ASSUME TypeOK, Windows, Replicating, Tick
  PROVE  Windows' /\ Replicating'
<1>1. /\ UNCHANGED <<history, pc, old, new, secret, mock, next, rollout, up, held, delay>>
      /\ Latest' = Latest
      /\ \A r \in Replicas : wake[r] > 0
  BY DEF Tick, gateway, Latest
<1>2. \A o \in Operators : waited'[o] = IF pc[o] = "wait" /\ waited[o] < WaitTicks
                                        THEN waited[o] + 1 ELSE waited[o]
  BY DEF Tick
<1>3. \A r \in Replicas : wake'[r] = IF up[r] THEN wake[r] - 1 ELSE wake[r]
  BY DEF Tick
<1>4. Windows'
  BY <1>1, <1>2, WindowsStay
<1>5. ASSUME NEW r \in Replicas PROVE Lag(r)' /\ Punctual(r)'
  <2>1. Punctual(r)'
    BY <1>1, <1>3, Numbers DEF Replicating, Punctual
  <2>2. CASE Behind(r) /\ ~Outlasts(r)
    <3>1. PICK o \in Operators : InTime(r, o)
      BY <2>2 DEF Replicating, Lag
    <3>2. up[r]
      BY <2>2 DEF Replicating, Punctual, Behind
    <3>3. /\ wake[r] \in Nat /\ delay[r] \in Nat /\ waited[o] \in Nat
          /\ wake'[r] = wake[r] - 1 /\ waited'[o] \in {waited[o], waited[o] + 1}
          /\ delay'[r] = delay[r]
      BY <1>1, <1>2, <1>3, <3>2, Numbers
    <3>4. waited'[o] + wake'[r] <= 2 * delay'[r] - 1
      <4>1. waited[o] + wake[r] <= 2 * delay[r] - 1
        BY <3>1 DEF InTime
      <4>2. QED
        BY <3>3, <4>1
    <3>5. InTime(r, o)'
      BY <1>1, <3>1, <3>4 DEF InTime
    <3>6. QED
      BY <2>1, <3>5 DEF Lag
  <2>3. CASE ~(Behind(r) /\ ~Outlasts(r))
    BY <1>1, <2>1, <2>3 DEF Lag, Behind, Outlasts
  <2>4. QED
    BY <2>2, <2>3
<1>6. QED
  BY <1>4, <1>5 DEF Replicating

(* What another replica does leaves this one alone. *)
LEMMA LagOfOthers ==
  ASSUME Replicating, NEW r \in Replicas, UNCHANGED <<history, pc, old, waited>>,
         UNCHANGED <<up[r], held[r], delay[r], wake[r]>>
  PROVE  Punctual(r)' /\ Lag(r)'
<1>1. Latest' = Latest
  BY DEF Latest
<1>2. Punctual(r)' /\ Behind(r)' = Behind(r) /\ Outlasts(r)' = Outlasts(r)
  BY <1>1 DEF Replicating, Punctual, Behind, Outlasts
<1>3. \A o \in Operators : InTime(r, o) => InTime(r, o)'
  BY DEF InTime
<1>4. QED
  BY <1>2, <1>3 DEF Replicating, Lag

(* A replica starts up to date, dies with nothing, and after a failed poll has
   twice the pause, or the cap, which outlasts the wait. *)
LEMMA ReplicaWindow ==
  ASSUME LongPauses, TypeOK, Windows, Replicating,
         NEW r \in Replicas, Boot(r) \/ Poll(r) \/ Die(r)
  PROVE  Windows' /\ Replicating'
<1>1. /\ UNCHANGED <<history, pc, old, new, waited, secret, mock, next, rollout>>
      /\ Latest' = Latest
  BY DEF Boot, Poll, Die, script, gateway, Latest
<1>2. Windows'
  BY <1>1, WindowsStay
<1>3. ASSUME NEW q \in Replicas, q # r PROVE Punctual(q)' /\ Lag(q)'
  <2>1. UNCHANGED <<up[q], held[q], delay[q], wake[q]>>
    BY <1>3 DEF TypeOK, Boot, Poll, Die, Adopt, Sleep
  <2>2. QED
    BY <1>1, <2>1, LagOfOthers
<1>4. Punctual(r)' /\ Lag(r)'
  <2>1. CASE held'[r] \in {0, Latest} /\ wake'[r] <= delay'[r] /\ (held'[r] # 0 => up'[r])
    BY <1>1, <2>1 DEF Punctual, Lag, Behind
  <2>2. CASE Boot(r)
    <3>1. held[r] = 0
      BY <2>2 DEF Boot, Replicating, Punctual
    <3>2. held'[r] \in {0, Latest} /\ up'[r] /\ wake'[r] = 1 /\ delay'[r] = 1
      BY <2>2, <3>1 DEF TypeOK, Boot, Adopt, Sleep
    <3>3. QED
      BY <2>1, <3>2
  <2>3. CASE Die(r)
    <3>1. held'[r] = 0 /\ wake'[r] = 1 /\ delay'[r] = 1
      BY <2>3 DEF TypeOK, Die, Sleep
    <3>2. QED
      BY <2>1, <3>1
  <2>4. CASE Poll(r) /\ vault = "up"
    <3>1. held'[r] = Latest /\ up'[r] /\ wake'[r] = 1 /\ delay'[r] = 1
      BY <2>4 DEF TypeOK, Poll, Adopt, Sleep
    <3>2. QED
      BY <2>1, <3>1
  <2>5. CASE Poll(r) /\ vault # "up"
    <3>1. /\ held'[r] = held[r] /\ up'[r] = up[r] /\ wake[r] = 0
          /\ delay'[r] = Backoff(delay[r]) /\ wake'[r] = Backoff(delay[r])
      BY <2>5 DEF TypeOK, Poll, Sleep
    <3>2. PICK d \in Nat : d = delay[r] /\ d >= 1 /\ d <= MaxDelay
      BY Numbers
    <3>3. Backoff(d) = 2 * d \/ Backoff(d) = MaxDelay
      BY DEF Backoff
    <3>4. Punctual(r)'
      <4>1. wake'[r] <= delay'[r]
        BY <3>1, <3>2, <3>3, Numbers
      <4>2. QED
        BY <3>1, <4>1 DEF Replicating, Punctual
    <3>5. Lag(r)'
      <4>1. CASE Backoff(d) = MaxDelay
        BY <3>1, <3>2, <4>1 DEF Lag, Outlasts, LongPauses
      <4>2. CASE Backoff(d) = 2 * d
        <5>1. ASSUME Behind(r)', ~Outlasts(r)' PROVE \E o \in Operators : InTime(r, o)'
          <6>1. Behind(r) /\ ~Outlasts(r)
            BY <1>1, <3>1, <3>2, <4>2, <5>1, Numbers DEF Behind, Outlasts
          <6>2. PICK o \in Operators : InTime(r, o)
            BY <6>1 DEF Replicating, Lag
          <6>3. InTime(r, o)'
            <7>1. /\ pc'[o] = "wait" /\ history'[held'[r]] = old'[o] /\ waited'[o] = waited[o]
                  /\ waited[o] \in Nat /\ waited[o] <= 2 * d - 1
              BY <1>1, <3>1, <3>2, <6>2, Numbers DEF InTime
            <7>2. wake'[r] = 2 * d /\ delay'[r] = 2 * d
              BY <3>1, <3>2, <4>2
            <7>3. waited'[o] + wake'[r] <= 2 * delay'[r] - 1
              BY <3>2, <7>1, <7>2
            <7>4. QED
              BY <7>1, <7>3 DEF InTime
          <6>4. QED
            BY <6>3
        <5>2. QED
          BY <5>1 DEF Lag
      <4>3. QED
        BY <3>3, <4>1, <4>2
    <3>6. QED
      BY <3>4, <3>5
  <2>6. QED
    BY <2>2, <2>3, <2>4, <2>5
<1>5. QED
  BY <1>2, <1>3, <1>4 DEF Replicating

(* The excuses are never taken back. *)
LEMMA ExcusesStay ==
  ASSUME TypeOK, [Next]_vars, overlap \/ cut
  PROVE  overlap' \/ cut'
<1>1. ASSUME NEW o \in Operators, Script(o) \/ Fail(o) PROVE overlap' \/ cut'
  <2>1. CASE Start(o) \/ Fail(o)
    BY Zenon, <2>1 DEF Start, Fail
  <2>2. CASE Widened(o) \/ Write(o) \/ Narrowed(o)
    BY Zenon, <2>2 DEF Widened, Write, Narrowed, ghosts
  <2>3. CASE Widen(o) \/ Narrow(o)
    BY Zenon, <2>3 DEF Widen, Narrow, Patch, ghosts
  <2>4. QED
    BY Zenon, <1>1, <2>1, <2>2, <2>3 DEF Script
<1>2. CASE Deployment \/ Tick \/ VaultChanges \/ UNCHANGED vars
  <2>1. UNCHANGED ghosts
    BY Zenon, <1>2 DEF Deployment, PodStarts, PodReplaces, PodCrashes, Tick, VaultChanges, ghosts, vars
  <2>2. QED
    BY Zenon, <2>1 DEF ghosts
<1>3. ASSUME NEW r \in Replicas, Boot(r) \/ Poll(r) \/ Die(r) PROVE overlap' \/ cut'
  BY Zenon, <1>3 DEF Boot, Poll, Die, ghosts
<1>4. QED
  BY Zenon, <1>1, <1>2, <1>3 DEF Next

LEMMA StepWindow ==
  ASSUME LongPauses
  PROVE  TypeOK /\ WindowInv /\ [Next]_vars => WindowInv'
<1> SUFFICES ASSUME TypeOK, Windows, Replicating, [Next]_vars, ~overlap', ~cut'
             PROVE  Windows' /\ Replicating'
  BY ExcusesStay DEF WindowInv
<1>1. ASSUME NEW o \in Operators, Script(o) \/ Fail(o) PROVE Windows' /\ Replicating'
  BY <1>1, StartWindow, FailWindow, WidenWindow, WidenedWindow, WriteWindow, NarrowWindow DEF Script
<1>2. CASE VaultChanges \/ UNCHANGED vars
  <2>1. UNCHANGED <<history, pc, old, new, waited, secret, mock, next, rollout,
                    up, held, delay, wake>>
    BY <1>2 DEF VaultChanges, vars, script, gateway, replicas
  <2>2. QED
    BY <2>1, WindowsStay, LagKeeps
<1>3. QED
  BY <1>1, <1>2, DeploymentWindow, ReplicaWindow, TickWindow DEF Next

(* A replica that is behind, and whose pause does not outlast the wait, has the
   old key, which every pod of the gateway takes. *)
LEMMA WindowServes ==
  ASSUME TypeOK, WindowInv
  PROVE  ZeroDowntime
<1> SUFFICES ASSUME Windows, Replicating, NEW r \in Replicas, Rejected(r), ~Outlasts(r),
                    ~LatestRejected
             PROVE  FALSE
  BY DEF ZeroDowntime, WindowInv
<1>1. PICK keys \in Pods : held[r] # 0 /\ ~Accepted(held[r], keys)
  BY DEF Rejected
<1>2. held[r] # Latest
  BY <1>1 DEF LatestRejected
<1>3. PICK o \in Operators : InTime(r, o)
  BY <1>1, <1>2 DEF Replicating, Lag, Behind
<1>4. BothTaken(o) /\ next = {}
  BY <1>3 DEF Windows, Window, InTime, BothTaken
<1>5. keys = mock /\ old[o] \in mock
  BY <1>1, <1>4 DEF Pods, BothTaken
<1>6. QED
  BY <1>1, <1>3, <1>5 DEF Accepted, InTime

(* The invariant of zero downtime. *)
LEMMA WindowInvariant == ASSUME LongPauses PROVE Spec => []WindowInv
<1>1. Init => WindowInv
  <2> SUFFICES ASSUME Init PROVE Windows /\ Replicating
    BY DEF WindowInv
  <2>1. Windows
    BY DEF Init, Windows, OneScript, Running, Ended, Window
  <2>2. \A r \in Replicas : held[r] = 0 /\ delay[r] = 1 /\ wake[r] = 1
    BY DEF Init
  <2>3. \A r \in Replicas : Punctual(r) /\ ~Behind(r)
    <3>1. ASSUME NEW r \in Replicas PROVE wake[r] <= delay[r] /\ held[r] = 0
      BY <2>2
    <3>2. QED
      BY <3>1 DEF Punctual, Behind
  <2>4. Replicating
    BY Zenon, <2>3 DEF Replicating, Lag
  <2>5. QED
    BY <2>1, <2>4
<1>2. QED
  BY <1>1, StepWindow, TypeCorrect, PTL DEF Spec

(* Whatever fails, dies or restarts, and for any number of replicas and
   rotations, the gateway takes the key a replica serves through every rotation,
   with the exceptions that ZeroDowntime names. *)
THEOREM NoDowntime ==
  ASSUME LongPauses
  PROVE  Spec => []ZeroDowntime
<1>1. TypeOK /\ WindowInv => ZeroDowntime
  BY WindowServes
<1>2. QED
  BY <1>1, WindowInvariant, TypeCorrect, PTL

-----------------------------------------------------------------------------
(* Payments under way *)

\* The wait is longer than a payment may be under way: 3 ticks against one.
LongWait == WaitTicks >= 2

PaymentSet ==
  [version : Nat, fallback : Nat, again : BOOLEAN, fresh : BOOLEAN, late : BOOLEAN]
Payments == [Replicas -> PaymentSet]

\* What a payment becomes when it is sent, sent again, and when a tick passes.
Sent(r) ==
  [version |-> held[r], fallback |-> spare[r], again |-> FALSE, fresh |-> TRUE,
   late |-> Straggles(r)]
SentAgain(r) ==
  [version |-> payment[r].fallback, fallback |-> 0, again |-> TRUE, fresh |-> TRUE,
   late |-> FALSE]
Aged(r) ==
  [version |-> payment[r].version, fallback |-> payment[r].fallback,
   again |-> payment[r].again, fresh |-> FALSE, late |-> payment[r].late]

(* Payments change nothing: a step with them is a step of the rotation, or none. *)
LEMMA PaymentStep == [PayNext]_payVars => [Next]_vars
<1> SUFFICES ASSUME [PayNext]_payVars PROVE [Next]_vars
  OBVIOUS
<1>1. ASSUME NEW r \in Replicas, Send(r) \/ SendAgain(r) \/ Return(r) PROVE UNCHANGED vars
  BY <1>1, Zenon DEF Send, SendAgain, Return
<1>2. ASSUME NEW r \in Replicas, DieSending(r) PROVE Next
  BY <1>2, Zenon DEF DieSending, Next
<1>3. CASE TimePasses
  BY <1>3, Zenon DEF TimePasses, Next
<1>4. CASE Beside
  BY <1>4, Zenon DEF Beside, Next
<1>5. CASE UNCHANGED payVars
  BY <1>5, Zenon DEF payVars
<1>6. QED
  BY <1>1, <1>2, <1>3, <1>4, <1>5, Zenon DEF PayNext

(* So everything proved of the rotation holds with payments under way. *)
THEOREM PaymentsChangeNothing == PaySpec => Spec
  BY PaymentStep, PTL DEF PaySpec, PayInit, Spec

\* Every step but a tick, which is the only one that moves the wait of a script.
Untimed ==
  \/ \E o \in Operators : Script(o) \/ Fail(o)
  \/ Deployment \/ VaultChanges \/ UNCHANGED vars
  \/ \E r \in Replicas : Boot(r) \/ Poll(r) \/ Die(r)

\* What becomes of the payment of a replica in one step.
Moves(r) ==
  \/ payment'[r] = payment[r] /\ Untimed
  \/ payment'[r] = NoPayment
  \/ Tick /\ Timely(r) /\ payment'[r] = Aged(r)
  \/ UNCHANGED vars /\ held[r] # 0 /\ payment'[r] = Sent(r)
  \/ UNCHANGED vars /\ Refused(r) /\ payment[r].fallback # 0 /\ payment'[r] = SentAgain(r)

LEMMA PaymentChange ==
  ASSUME TypeOK, payment \in Payments, [PayNext]_payVars
  PROVE  payment' \in Payments /\ \A r \in Replicas : Moves(r)
<1>1. ASSUME NEW q \in Replicas, Return(q) \/ DieSending(q)
      PROVE  payment' \in Payments /\ \A r \in Replicas : Moves(r)
  <2>1. payment' = [payment EXCEPT ![q] = NoPayment]
    BY <1>1, Zenon DEF Return, DieSending
  <2>2. payment' \in Payments /\ \A r \in Replicas : payment'[r] = payment[r] \/ payment'[r] = NoPayment
    BY <2>1 DEF Payments, PaymentSet, NoPayment
  <2>3. Untimed
    BY <1>1, Zenon DEF Return, DieSending, Untimed
  <2>4. QED
    BY <2>2, <2>3, Zenon DEF Moves
<1>2. ASSUME NEW q \in Replicas, NEW p \in PaymentSet, payment' = [payment EXCEPT ![q] = p],
             UNCHANGED vars,
             \/ held[q] # 0 /\ p = Sent(q)
             \/ Refused(q) /\ payment[q].fallback # 0 /\ p = SentAgain(q)
      PROVE  payment' \in Payments /\ \A r \in Replicas : Moves(r)
  <2>1. payment' \in Payments /\ \A r \in Replicas : payment'[r] = IF r = q THEN p ELSE payment[r]
    BY <1>2 DEF Payments
  <2>2. ASSUME NEW r \in Replicas PROVE Moves(r)
    <3>1. CASE r = q
      <4>1. payment'[q] = p
        BY <2>1
      <4>2. QED
        BY <1>2, <3>1, <4>1, Zenon DEF Moves
    <3>2. CASE r # q
      <4>1. payment'[r] = payment[r]
        BY <2>1, <3>2
      <4>2. QED
        BY <1>2, <4>1, Zenon DEF Moves, Untimed
    <3>3. QED
      BY <3>1, <3>2
  <2>3. QED
    BY <2>1, <2>2
<1>3. ASSUME NEW q \in Replicas, Send(q)
      PROVE  payment' \in Payments /\ \A r \in Replicas : Moves(r)
  <2>1. PICK p : p = Sent(q)
    OBVIOUS
  <2>2. payment' = [payment EXCEPT ![q] = p] /\ UNCHANGED vars /\ held[q] # 0
    BY <1>3, <2>1, Zenon DEF Send, Sent
  <2>3. Straggles(q) \in BOOLEAN
    BY Zenon DEF Straggles
  <2>4. held[q] \in Nat /\ spare[q] \in Nat
    BY Numbers DEF TypeOK
  <2>5. p \in PaymentSet
    BY <2>1, <2>3, <2>4 DEF Sent, PaymentSet
  <2>6. QED
    BY <1>2, <2>1, <2>2, <2>5
<1>4. ASSUME NEW q \in Replicas, SendAgain(q)
      PROVE  payment' \in Payments /\ \A r \in Replicas : Moves(r)
  <2>1. PICK p : p = SentAgain(q)
    OBVIOUS
  <2>2. payment' = [payment EXCEPT ![q] = p]
    BY <1>4, <2>1 DEF SendAgain, SentAgain, Payments
  <2>3. UNCHANGED vars /\ Refused(q) /\ payment[q].fallback # 0
    BY <1>4, Zenon DEF SendAgain
  <2>4. p \in PaymentSet
    BY <2>1 DEF SentAgain, Payments, PaymentSet
  <2>5. QED
    BY <1>2, <2>1, <2>2, <2>3, <2>4
<1>5. CASE TimePasses
  <2>1. /\ Tick /\ \A r \in Replicas : Timely(r)
        /\ payment' = [r \in Replicas |-> [payment[r] EXCEPT !.fresh = FALSE]]
    BY <1>5, Zenon DEF TimePasses
  <2>2. ASSUME NEW r \in Replicas PROVE payment'[r] = Aged(r) /\ Aged(r) \in PaymentSet
    <3>1. payment[r] \in PaymentSet /\ payment'[r] = [payment[r] EXCEPT !.fresh = FALSE]
      BY <2>1 DEF Payments
    <3>2. QED
      BY <3>1 DEF Aged, PaymentSet
  <2>3. payment' \in Payments
    BY <2>1, <2>2 DEF Payments
  <2>4. QED
    BY <2>1, <2>2, <2>3, Zenon DEF Moves
<1>6. CASE Beside \/ UNCHANGED payVars
  <2>1. payment' = payment
    BY <1>6, Zenon DEF Beside, payVars
  <2>2. Untimed
    BY <1>6, Zenon DEF Beside, payVars, Untimed
  <2>3. QED
    BY <2>1, <2>2, Zenon DEF Moves
<1>7. QED
  BY <1>1, <1>3, <1>4, <1>5, <1>6, Zenon DEF PayNext

(* The history of versions only grows. *)
LEMMA HistoryGrows ==
  ASSUME TypeOK, [Next]_vars
  PROVE  \/ history' = history
         \/ \E o \in Operators : Write(o) /\ history' = Append(history, new[o])
<1>1. ASSUME NEW o \in Operators, Script(o) \/ Fail(o)
      PROVE  history' = history \/ (Write(o) /\ history' = Append(history, new[o]))
  <2>1. CASE Start(o) \/ Fail(o) \/ Widened(o) \/ Narrowed(o)
    BY <2>1, Zenon DEF Start, Fail, Widened, Narrowed
  <2>2. CASE Widen(o) \/ Narrow(o)
    BY <2>2, Zenon DEF Widen, Narrow, Patch
  <2>3. CASE Write(o)
    BY <2>3 DEF Write
  <2>4. QED
    BY <1>1, <2>1, <2>2, <2>3, Zenon DEF Script
<1>2. CASE Deployment \/ Tick \/ VaultChanges \/ UNCHANGED vars
  BY <1>2, Zenon DEF Deployment, PodStarts, PodReplaces, PodCrashes, Tick, VaultChanges, vars
<1>3. ASSUME NEW r \in Replicas, Boot(r) \/ Poll(r) \/ Die(r) PROVE history' = history
  BY <1>3, Zenon DEF Boot, Poll, Die
<1>4. QED
  BY <1>1, <1>2, <1>3, Zenon DEF Next

(* A payment carries a version that was once the latest. *)
THEOREM PaymentTypes == PaySpec => []PayTypeOK
<1>1. PayInit => PayTypeOK
  <2> SUFFICES ASSUME PayInit PROVE PayTypeOK
    OBVIOUS
  <2>1. TypeOK
    BY InitType DEF PayInit
  <2>2. 0 \in 0 .. Latest
    BY <2>1, LatestKey DEF TypeOK
  <2>3. QED
    BY <2>1, <2>2 DEF PayInit, PayTypeOK, NoPayment
<1>2. PayTypeOK /\ [PayNext]_payVars => PayTypeOK'
  <2> SUFFICES ASSUME PayTypeOK, [PayNext]_payVars PROVE PayTypeOK'
    OBVIOUS
  <2>1. TypeOK /\ TypeOK' /\ [Next]_vars
    BY StepType, PaymentStep DEF PayTypeOK
  <2>2. PICK n \in Nat : n = Latest
    BY <2>1, LatestKey DEF TypeOK
  <2>3. PICK m \in Nat : m = Latest'
    BY <2>1 DEF TypeOK, Latest
  <2>4. n <= m
    <3>1. \A k : history' = Append(history, k) => m = n + 1
      BY <2>1, <2>2, <2>3 DEF TypeOK, Latest
    <3>2. history' = history => m = n
      BY <2>2, <2>3 DEF Latest
    <3>3. QED
      BY <2>1, <3>1, <3>2, HistoryGrows
  <2>5. payment \in Payments
    BY <2>2 DEF PayTypeOK, Payments, PaymentSet
  <2>6. payment' \in Payments /\ \A r \in Replicas : Moves(r)
    BY <2>1, <2>5, PaymentChange
  <2>7. ASSUME NEW r \in Replicas
        PROVE  payment'[r].version \in 0 .. m /\ payment'[r].fallback \in 0 .. m
    <3>1. payment[r].version \in 0 .. n /\ payment[r].fallback \in 0 .. n
      BY <2>2 DEF PayTypeOK
    <3>2. held[r] \in 0 .. n /\ spare[r] \in 0 .. n
      BY <2>1, <2>2 DEF TypeOK
    <3>3. CASE payment'[r] = payment[r] \/ payment'[r] = Aged(r)
      BY <2>4, <3>1, <3>3 DEF Aged
    <3>4. CASE payment'[r] = NoPayment
      BY <3>4 DEF NoPayment
    <3>5. CASE payment'[r] = Sent(r)
      BY <2>4, <3>2, <3>5 DEF Sent
    <3>6. CASE payment'[r] = SentAgain(r)
      BY <2>4, <3>1, <3>6 DEF SentAgain
    <3>7. QED
      BY <2>6, <3>3, <3>4, <3>5, <3>6, Zenon DEF Moves
  <2>8. payment' \in [Replicas -> [version : 0 .. m, fallback : 0 .. m, again : BOOLEAN,
                                  fresh : BOOLEAN, late : BOOLEAN]]
    BY <2>6, <2>7 DEF Payments, PaymentSet
  <2>9. QED
    BY <2>1, <2>3, <2>8 DEF PayTypeOK
<1>3. QED
  BY <1>1, <1>2, PTL DEF PaySpec

\* A payment that carries a replaced key carries the old key of the script that
\* waits, and meets its pod before the wait is over.
Covered(r, o) ==
  /\ pc[o] = "wait" /\ history[payment[r].version] = old[o]
  /\ waited[o] + (IF payment[r].fresh THEN 1 ELSE 0) < WaitTicks

Carried(r) ==
  InFlight(r) /\ ~payment[r].late /\ ~payment[r].again =>
    payment[r].version = Latest \/ \E o \in Operators : Covered(r, o)

\* The inductive invariant, on top of WindowInv.
PaymentInv == overlap \/ cut \/ \A r \in Replicas : Carried(r)

(* What is sent now is up to date, or late, or has at least a tick left. *)
LEMMA SendCarried ==
  ASSUME TypeOK, Replicating, NEW r \in Replicas, UNCHANGED vars, held[r] # 0,
         payment'[r] = Sent(r)
  PROVE  Carried(r)'
<1>1. UNCHANGED <<history, pc, old, waited, held, delay>>
  BY DEF vars, script, replicas
<1>2. Latest' = Latest
  BY <1>1 DEF Latest
<1>3. payment'[r].version = held[r] /\ payment'[r].fresh /\ payment'[r].late = Straggles(r)
  BY DEF Sent
<1>4. CASE held[r] # Latest /\ ~Straggles(r)
  <2>1. ~Outlasts(r) /\ 2 * delay[r] < WaitTicks /\ Behind(r)
    BY <1>4, Numbers DEF Straggles, Behind, Outlasts
  <2>2. PICK o \in Operators : InTime(r, o)
    BY <2>1 DEF Replicating, Lag
  <2>3. waited[o] + 1 < WaitTicks
    BY <2>1, <2>2, Numbers DEF InTime
  <2>4. Covered(r, o)'
    BY <1>1, <1>3, <2>2, <2>3 DEF Covered, InTime
  <2>5. QED
    BY <2>4 DEF Carried
<1>5. CASE held[r] = Latest \/ Straggles(r)
  BY <1>2, <1>3, <1>5 DEF Carried
<1>6. QED
  BY <1>4, <1>5

(* A step that leaves the history and every wait alone leaves payments covered. *)
LEMMA CarriedKeeps ==
  ASSUME NEW r \in Replicas, Carried(r), payment'[r] = payment[r], history' = history,
         \A o \in Operators : pc[o] = "wait" =>
           pc'[o] = "wait" /\ old'[o] = old[o] /\ waited'[o] = waited[o]
  PROVE  Carried(r)'
<1>1. Latest' = Latest
  BY DEF Latest
<1>2. \A o \in Operators : Covered(r, o) => Covered(r, o)'
  BY DEF Covered
<1>3. QED
  BY <1>1, <1>2 DEF Carried, InFlight

(* The steps of a script that are not about its wait. *)
LEMMA WaitKeeps ==
  ASSUME TypeOK, Windows, ~overlap', ~cut', NEW o \in Operators,
         Start(o) \/ Fail(o) \/ Widen(o) \/ Widened(o) \/ Narrowed(o)
  PROVE  /\ history' = history
         /\ \A p \in Operators : pc[p] = "wait" =>
              pc'[p] = "wait" /\ old'[p] = old[p] /\ waited'[p] = waited[p]
<1>1. CASE Start(o)
  <2>1. history' = history /\ waited' = waited /\ pc[o] \in Ended
        /\ \A p \in Operators : p # o => pc'[p] = pc[p] /\ old'[p] = old[p]
    BY <1>1 DEF Start, Goto, TypeOK
  <2>2. QED
    BY <2>1 DEF Ended
<1>2. CASE Fail(o)
  <2>1. history' = history /\ old' = old /\ pc[o] # "wait"
        /\ \A p \in Operators : p # o => pc'[p] = pc[p] /\ waited'[p] = waited[p]
    BY <1>2 DEF Fail, Goto, TypeOK
  <2>2. QED
    BY <2>1
<1>3. CASE Widen(o)
  <2>1. history' = history /\ old' = old /\ pc[o] # "wait"
        /\ \A p \in Operators : p # o => pc'[p] = pc[p] /\ waited'[p] = waited[p]
    BY <1>3 DEF Widen, Patch, Goto, TypeOK
  <2>2. QED
    BY <2>1
<1>4. CASE Widened(o) \/ Narrowed(o)
  <2>1. history' = history /\ old' = old /\ waited' = waited /\ pc[o] # "wait"
        /\ \A p \in Operators : p # o => pc'[p] = pc[p]
    BY <1>4 DEF Widened, Narrowed, Goto, TypeOK
  <2>2. QED
    BY <2>1
<1>5. QED
  BY <1>1, <1>2, <1>3, <1>4

(* The write makes the key of a payment the old one of a wait that begins. *)
LEMMA WriteCarried ==
  ASSUME LongWait, TypeOK, Windows, NEW r \in Replicas, Carried(r), payment'[r] = payment[r],
         NEW o \in Operators, Write(o)
  PROVE  Carried(r)'
<1>1. /\ UNCHANGED <<old, waited>> /\ pc[o] = "write" /\ Running(o)
      /\ \/ history' = history
         \/ history' = Append(history, new[o]) /\ pc'[o] = "wait"
  BY DEF Write, Goto, TypeOK, Running, Ended
<1>2. history[Latest] = old[o] /\ waited[o] = 0
  BY <1>1 DEF Windows, Window
<1>3. \A p \in Operators : pc[p] # "wait"
  BY <1>1, AloneRuns DEF Running, Ended
<1>4. CASE InFlight(r) /\ ~payment[r].late /\ ~payment[r].again
  <2>1. payment[r].version = Latest
    BY <1>3, <1>4 DEF Carried, Covered
  <2>2. CASE history' = history
    BY <2>1, <2>2 DEF Carried, Latest
  <2>3. CASE history' = Append(history, new[o]) /\ pc'[o] = "wait"
    <3>1. history \in Seq(1 .. made) /\ Latest \in 1 .. Len(history)
      BY DEF TypeOK, Latest
    <3>2. history'[payment'[r].version] = old'[o]
      BY <1>1, <1>2, <2>1, <2>3, <3>1
    <3>3. waited'[o] + (IF payment'[r].fresh THEN 1 ELSE 0) < WaitTicks
      BY <1>1, <1>2, RotationAssumption DEF LongWait
    <3>4. Covered(r, o)'
      BY <2>3, <3>2, <3>3 DEF Covered
    <3>5. QED
      BY <3>4 DEF Carried
  <2>4. QED
    BY <1>1, <2>2, <2>3
<1>5. QED
  BY <1>4 DEF Carried, InFlight

(* When the wait is over, no payment carries the old key. *)
LEMMA NarrowCarried ==
  ASSUME TypeOK, Windows, NEW r \in Replicas, Carried(r), payment'[r] = payment[r],
         NEW o \in Operators, Narrow(o)
  PROVE  Carried(r)'
<1>1. history' = history /\ pc[o] = "wait" /\ waited[o] >= WaitTicks /\ Running(o)
  BY DEF Narrow, Waited, Patch, Running, Ended
<1>2. ASSUME NEW p \in Operators, Covered(r, p) PROVE FALSE
  <2>1. p = o
    BY <1>1, <1>2, AloneRuns DEF Covered, Running, Ended
  <2>2. QED
    BY <1>1, <1>2, <2>1, Numbers DEF Covered
<1>3. QED
  BY <1>1, <1>2 DEF Carried, InFlight, Latest

(* A tick takes from a payment what it adds to the wait. *)
LEMMA TickCarried ==
  ASSUME TypeOK, NEW r \in Replicas, Carried(r), Tick, Timely(r), payment'[r] = Aged(r)
  PROVE  Carried(r)'
<1>1. /\ UNCHANGED <<history, pc, old>> /\ Latest' = Latest
      /\ \A o \in Operators : waited'[o] = IF pc[o] = "wait" /\ waited[o] < WaitTicks
                                          THEN waited[o] + 1 ELSE waited[o]
  BY DEF Tick, Latest
<1>2. /\ payment'[r].version = payment[r].version /\ ~payment'[r].fresh
      /\ payment'[r].late = payment[r].late /\ payment'[r].again = payment[r].again
  BY DEF Aged
<1>3. ASSUME NEW o \in Operators, InFlight(r), Covered(r, o) PROVE Covered(r, o)'
  <2>1. payment[r].fresh /\ waited[o] \in Nat
    BY <1>3, Numbers DEF Timely
  <2>2. waited[o] + 1 < WaitTicks /\ pc[o] = "wait"
    BY <1>3, <2>1 DEF Covered
  <2>3. waited'[o] + 0 < WaitTicks
    BY <1>1, <2>1, <2>2, Numbers
  <2>4. QED
    BY <1>1, <1>2, <1>3, <2>2, <2>3 DEF Covered
<1>4. QED
  BY <1>1, <1>2, <1>3 DEF Carried, InFlight

(* The environment of the scripts leaves the history and the waits alone. *)
LEMMA OutsideKeeps ==
  ASSUME \/ Deployment \/ VaultChanges \/ UNCHANGED vars
         \/ \E r \in Replicas : Boot(r) \/ Poll(r) \/ Die(r)
  PROVE  UNCHANGED <<history, pc, old, waited>>
<1>1. CASE Deployment \/ VaultChanges \/ UNCHANGED vars
  BY <1>1 DEF Deployment, PodStarts, PodReplaces, PodCrashes, VaultChanges, vars, script
<1>2. ASSUME NEW r \in Replicas, Boot(r) \/ Poll(r) \/ Die(r)
      PROVE  UNCHANGED <<history, pc, old, waited>>
  BY <1>2 DEF Boot, Poll, Die, script
<1>3. QED
  BY <1>1, <1>2

LEMMA StepPayment ==
  ASSUME LongWait
  PROVE  PayTypeOK /\ WindowInv /\ PaymentInv /\ [PayNext]_payVars => PaymentInv'
<1> SUFFICES ASSUME PayTypeOK, WindowInv, PaymentInv, [PayNext]_payVars, ~overlap', ~cut',
                    NEW r \in Replicas
             PROVE  Carried(r)'
  BY DEF PaymentInv
<1>1. TypeOK /\ [Next]_vars /\ payment \in Payments
  <2>1. Latest \in Nat
    BY LatestKey DEF PayTypeOK, TypeOK
  <2>2. payment \in Payments
    BY <2>1 DEF PayTypeOK, Payments, PaymentSet
  <2>3. QED
    BY <2>2, PaymentStep DEF PayTypeOK
<1>2. Windows /\ Replicating /\ Carried(r)
  BY <1>1, ExcusesStay DEF WindowInv, PaymentInv
<1>3. Moves(r)
  BY <1>1, PaymentChange
<1>4. CASE payment'[r] = NoPayment
  BY <1>4 DEF Carried, InFlight, NoPayment
<1>5. CASE Tick /\ Timely(r) /\ payment'[r] = Aged(r)
  BY <1>1, <1>2, <1>5, TickCarried
<1>6. CASE UNCHANGED vars /\ held[r] # 0 /\ payment'[r] = Sent(r)
  BY <1>1, <1>2, <1>6, SendCarried
<1>7. CASE payment'[r] = payment[r] /\ Untimed
  <2>1. ASSUME NEW o \in Operators, Script(o) \/ Fail(o) PROVE Carried(r)'
    <3>1. CASE Write(o)
      BY <1>1, <1>2, <1>7, <3>1, WriteCarried
    <3>2. CASE Narrow(o)
      BY <1>1, <1>2, <1>7, <3>2, NarrowCarried
    <3>3. CASE Start(o) \/ Fail(o) \/ Widen(o) \/ Widened(o) \/ Narrowed(o)
      <4>1. /\ history' = history
            /\ \A p \in Operators : pc[p] = "wait" =>
                 pc'[p] = "wait" /\ old'[p] = old[p] /\ waited'[p] = waited[p]
        BY <1>1, <1>2, <3>3, WaitKeeps
      <4>2. QED
        BY <1>2, <1>7, <4>1, CarriedKeeps
    <3>4. QED
      BY <2>1, <3>1, <3>2, <3>3, Zenon DEF Script
  <2>2. CASE \/ Deployment \/ VaultChanges \/ UNCHANGED vars
             \/ \E q \in Replicas : Boot(q) \/ Poll(q) \/ Die(q)
    <3>1. UNCHANGED <<history, pc, old, waited>>
      BY <2>2, OutsideKeeps
    <3>2. QED
      BY <1>2, <1>7, <3>1, CarriedKeeps
  <2>3. QED
    BY <1>7, <2>1, <2>2, Zenon DEF Untimed
<1>8. CASE payment'[r] = SentAgain(r)
  BY <1>8 DEF Carried, SentAgain
<1>9. QED
  BY <1>3, <1>4, <1>5, <1>6, <1>7, <1>8, Zenon DEF Moves

(* While a covered payment is under way both keys are in force. *)
LEMMA CarriedTaken ==
  ASSUME TypeOK, WindowInv, PaymentInv
  PROVE  PaymentsTaken
<1> SUFFICES ASSUME Windows, NEW r \in Replicas, Carried(r), InFlight(r),
                    NEW keys \in Pods, ~Accepted(payment[r].version, keys),
                    ~payment[r].late, ~payment[r].again, ~LatestRejected
             PROVE  FALSE
  BY DEF PaymentsTaken, Refused, WindowInv, PaymentInv
<1>1. payment[r].version # Latest
  BY DEF LatestRejected
<1>2. PICK o \in Operators : Covered(r, o)
  BY <1>1 DEF Carried
<1>3. BothTaken(o) /\ next = {}
  BY <1>2 DEF Windows, Window, Covered, BothTaken
<1>4. keys = mock /\ old[o] \in mock
  BY <1>3 DEF Pods, BothTaken
<1>5. QED
  BY <1>2, <1>4 DEF Accepted, Covered, InFlight

(* For any number of replicas and rotations, the gateway takes the credential a
   payment was sent with until the payment returns, with the exceptions that
   PaymentsTaken names. *)
THEOREM PaymentsInRotation ==
  ASSUME LongPauses, LongWait
  PROVE  PaySpec => []PaymentsTaken
<1>1. PayInit => PaymentInv
  <2> SUFFICES ASSUME PayInit, NEW r \in Replicas PROVE Carried(r)
    BY DEF PaymentInv
  <2>1. payment[r].version = 0
    BY DEF PayInit, NoPayment
  <2>2. QED
    BY <2>1 DEF Carried, InFlight
<1>2. PayTypeOK /\ WindowInv /\ PaymentInv /\ [PayNext]_payVars => PaymentInv'
  BY StepPayment
<1>3. PayTypeOK /\ WindowInv /\ PaymentInv => PaymentsTaken
  BY CarriedTaken DEF PayTypeOK
<1>4. Spec => []WindowInv
  BY WindowInvariant
<1>5. QED
  BY <1>1, <1>2, <1>3, <1>4, PaymentsChangeNothing, PaymentTypes, PTL DEF PaySpec

-----------------------------------------------------------------------------
(* The previous credential never helps *)

KeySets == {secret, mock} \cup (IF next = {} THEN {} ELSE {next})

Increasing == \A i, j \in 1 .. Latest : i < j => history[i] < history[j]

\* None of the keys in a set is one that was replaced in Vault.
Clean(keys) == \A v \in 1 .. Latest : v < Latest => history[v] \notin keys
AllClean == \A keys \in KeySets : Clean(keys)

\* The replaced key that a set still has is the last one that was replaced, and
\* then every set has the key in use.
Recent(keys) ==
  \A v \in 1 .. Latest :
    v < Latest /\ history[v] \in keys => v = Latest - 1 /\ \A k \in KeySets : InUse \in k
AllRecent == \A keys \in KeySets : Recent(keys)

\* Where a running script stands, when its write may have been lost.
Turn(o) ==
  /\ pc[o] \in {"widen", "widening", "write"} => InUse = old[o] /\ InUse < new[o]
  /\ pc[o] \in {"widening", "write"} => secret = {old[o], new[o]} /\ OwnRollout
  /\ pc[o] = "write" => rollout = "settled"
  /\ pc[o] = "wait" => InUse = new[o] \/ (AllClean /\ InUse < new[o])

KeysRecent ==
  /\ OneScript
  /\ rollout = "settled" => next = {}
  /\ Increasing
  /\ AllRecent
  /\ \A o \in Operators : Turn(o)

\* The inductive invariant of the keys.  Unlike KeyInv it speaks of every key there
\* ever was, and it survives a lost write.
RecentInv == overlap \/ KeysRecent

(* The keys are numbers, and the latest one is greater than those before it. *)
LEMMA KeyNumbers ==
  ASSUME TypeOK
  PROVE  /\ Latest \in Nat /\ Latest >= 1 /\ Latest = Len(history) /\ InUse \in Nat
         /\ made \in Nat /\ history \in Seq(1 .. made)
         /\ \A v \in 1 .. Latest : history[v] \in Nat /\ history[v] <= made
<1>1. history \in Seq(1 .. made) /\ made \in Nat /\ Latest = Len(history) /\ Latest >= 1
  BY DEF TypeOK, Latest
<1>2. Latest \in Nat
  BY <1>1
<1>3. \A v \in 1 .. Latest : history[v] \in 1 .. made
  BY <1>1
<1>4. InUse \in 1 .. made
  BY <1>1, <1>2, <1>3 DEF InUse
<1>5. QED
  BY <1>1, <1>2, <1>3, <1>4

(* A set made of the key in use and of a newer one holds no replaced key. *)
LEMMA NewKeysClean ==
  ASSUME TypeOK, Increasing, NEW k \in Nat, InUse < k \/ k = InUse,
         NEW keys, keys \subseteq {InUse, k}
  PROVE  Clean(keys)
<1> SUFFICES ASSUME NEW v \in 1 .. Latest, v < Latest
             PROVE  history[v] # InUse /\ history[v] # k
  BY DEF Clean
<1>1. history[v] < InUse
  BY KeyNumbers DEF Increasing, InUse
<1>2. QED
  BY <1>1, KeyNumbers

\* What a step may do to the sets of keys while the history stays: to the old sets
\* it adds clean ones, with the key in use if a replaced key is in force.
CleanChange ==
  /\ history' = history
  /\ \A keys \in KeySets' :
       keys \in KeySets \/ (Clean(keys) /\ (InUse \in keys \/ AllClean))

LEMMA CleanKeeps ==
  ASSUME AllRecent, CleanChange
  PROVE  AllRecent' /\ (AllClean => AllClean')
<1>1. Latest' = Latest /\ InUse' = InUse
  BY DEF CleanChange, Latest, InUse
<1>2. \A keys : Clean(keys)' <=> Clean(keys)
  BY <1>1 DEF CleanChange, Clean
<1>3. AllClean => AllClean'
  BY <1>2 DEF CleanChange, AllClean
<1>4. ASSUME NEW keys \in KeySets', NEW v \in 1 .. Latest, v < Latest, history[v] \in keys
      PROVE  v = Latest - 1 /\ \A k \in KeySets' : InUse \in k
  <2>1. keys \in KeySets /\ ~AllClean
    BY <1>3, <1>4 DEF CleanChange, Clean, AllClean
  <2>2. v = Latest - 1 /\ \A k \in KeySets : InUse \in k
    BY <1>4, <2>1 DEF AllRecent, Recent
  <2>3. QED
    BY <2>1, <2>2 DEF CleanChange
<1>5. AllRecent'
  BY <1>1, <1>4 DEF CleanChange, AllRecent, Recent
<1>6. QED
  BY <1>3, <1>5

(* Every step but the write that takes effect makes such a change: a patch writes
   the key in use and a newer one, or the newest one, and a pod that starts reads
   what the secret holds. *)
LEMMA PatchClean ==
  ASSUME TypeOK, KeysRecent, NEW o \in Operators, Widen(o) \/ Narrow(o)
  PROVE  CleanChange
<1>1. PICK keys : secret' = keys /\ UNCHANGED <<history, mock, next>>
                  /\ Clean(keys) /\ (InUse \in keys \/ AllClean)
  <2>1. new[o] \in Nat
    BY DEF TypeOK
  <2>2. CASE Widen(o)
    <3>1. /\ secret' = {old[o], new[o]} /\ UNCHANGED <<history, mock, next>>
          /\ InUse = old[o] /\ InUse < new[o]
      BY <2>2 DEF Widen, Patch, KeysRecent, Turn
    <3>2. Clean({old[o], new[o]})
      BY <2>1, <3>1, NewKeysClean DEF KeysRecent
    <3>3. QED
      BY <3>1, <3>2
  <2>3. CASE Narrow(o)
    <3>1. /\ secret' = {new[o]} /\ UNCHANGED <<history, mock, next>>
          /\ InUse = new[o] \/ (AllClean /\ InUse < new[o])
      BY <2>3 DEF Narrow, Patch, KeysRecent, Turn
    <3>2. Clean({new[o]})
      BY <2>1, <3>1, NewKeysClean DEF KeysRecent
    <3>3. QED
      BY <3>1, <3>2
  <2>4. QED
    BY <2>2, <2>3
<1>2. \A k \in KeySets' : k \in KeySets \/ k = keys
  BY <1>1 DEF KeySets
<1>3. QED
  BY <1>1, <1>2 DEF CleanChange

LEMMA DeploymentClean ==
  ASSUME Deployment
  PROVE  CleanChange
<1>1. history' = history /\ secret' = secret
  BY DEF Deployment, PodStarts, PodReplaces, PodCrashes
<1>2. \/ next' \in {secret, next, {}} /\ mock' = mock
      \/ next' = next /\ mock' = secret
      \/ next' = {} /\ mock' = next /\ next # {}
  BY DEF Deployment, PodStarts, PodReplaces, PodCrashes
<1>3. \A k \in KeySets' : k \in KeySets
  BY <1>1, <1>2 DEF KeySets
<1>4. QED
  BY <1>1, <1>3 DEF CleanChange

LEMMA SameKeysClean ==
  ASSUME UNCHANGED <<history, secret, mock, next>>
  PROVE  CleanChange
<1>1. KeySets' = KeySets
  BY DEF KeySets
<1>2. QED
  BY <1>1 DEF CleanChange

(* Only the script that runs has a turn. *)
LEMMA TurnOfOthers ==
  ASSUME NEW p \in Operators, ~Running(p), pc'[p] = pc[p]
  PROVE  Turn(p)'
  BY DEF Turn, Running, Ended

LEMMA OneScriptAlone ==
  ASSUME KeysRecent, NEW o \in Operators, Running(o), NEW p \in Operators, p # o
  PROVE  ~Running(p)
  BY DEF KeysRecent, OneScript

(* What is left to show of a step that changes no key but the sets. *)
LEMMA RecentParts ==
  ASSUME KeysRecent, CleanChange, OneScript', rollout' = "settled" => next' = {},
         \A o \in Operators : Turn(o)'
  PROVE  KeysRecent'
<1>1. Latest' = Latest /\ history' = history
  BY DEF CleanChange, Latest
<1>2. Increasing'
  BY <1>1 DEF KeysRecent, Increasing
<1>3. AllRecent'
  BY CleanKeeps DEF KeysRecent
<1>4. QED
  BY <1>2, <1>3 DEF KeysRecent

(* The script's steps; it starts with the key in use and a newer one, *)
LEMMA StartRecent ==
  ASSUME TypeOK, KeysRecent, NEW o \in Operators, Start(o), ~overlap'
  PROVE  KeysRecent'
<1>1. UNCHANGED <<history, secret, mock, next, rollout>> /\ InUse' = InUse
  BY DEF Start, gateway, InUse, Latest
<1>2. \A p \in Operators : p # o => ~Running(p) /\ pc'[p] = pc[p]
  <2>1. ~(\E p \in Operators \ {o} : pc[p] \notin Ended)
    BY Zenon DEF Start
  <2>2. QED
    BY <2>1 DEF Start, Goto, Running, TypeOK
<1>3. old'[o] = InUse /\ new'[o] = made + 1 /\ pc'[o] \in {"failed", "widen"}
  BY DEF Start, Goto, TypeOK, InUse
<1>4. InUse <= made
  BY KeyNumbers DEF InUse
<1>5. Turn(o)'
  BY <1>1, <1>3, <1>4, KeyNumbers DEF Turn
<1>6. OneScript'
  BY <1>2 DEF OneScript, Running
<1>7. QED
  BY <1>1, <1>2, <1>5, <1>6, SameKeysClean, TurnOfOthers, RecentParts DEF KeysRecent

(* patches the secret, or fails, *)
LEMMA PatchRecent ==
  ASSUME TypeOK, KeysRecent, NEW o \in Operators, Widen(o) \/ Narrow(o)
  PROVE  KeysRecent'
<1>1. UNCHANGED <<history, old, new, mock, next>> /\ InUse' = InUse /\ Running(o)
  BY DEF Widen, Narrow, Patch, InUse, Latest, Running, Ended
<1>2. \/ rollout' = "wanted" /\ pc' = [pc EXCEPT ![o] = IF Widen(o) THEN "widening" ELSE "narrowing"]
      \/ rollout' = rollout /\ pc' = [pc EXCEPT ![o] = "failed"]
  BY DEF Widen, Narrow, Patch, Goto
<1>3. \A p \in Operators : p # o => ~Running(p) /\ pc'[p] = pc[p]
  BY <1>1, <1>2, OneScriptAlone DEF TypeOK
<1>4. Turn(o)'
  <2>1. CASE pc'[o] \in {"failed", "narrowing"}
    BY <2>1 DEF Turn
  <2>2. CASE pc'[o] \notin {"failed", "narrowing"}
    <3>1. Widen(o) /\ pc'[o] = "widening" /\ rollout' = "wanted"
      BY <1>2, <2>2 DEF TypeOK
    <3>2. secret' = {old[o], new[o]} /\ InUse = old[o] /\ InUse < new[o]
      BY <3>1 DEF Widen, Patch, KeysRecent, Turn
    <3>3. QED
      BY <1>1, <3>1, <3>2 DEF Turn, OwnRollout
  <2>3. QED
    BY <2>1, <2>2
<1>5. OneScript'
  BY <1>3 DEF OneScript, Running
<1>6. rollout' = "settled" => next' = {}
  BY <1>1, <1>2 DEF KeysRecent
<1>7. QED
  BY <1>3, <1>4, <1>5, <1>6, PatchClean, TurnOfOthers, RecentParts

LEMMA FailRecent ==
  ASSUME TypeOK, KeysRecent, NEW o \in Operators, Fail(o)
  PROVE  KeysRecent'
<1>1. UNCHANGED <<history, secret, mock, next, rollout>> /\ Running(o)
  BY DEF Fail, gateway, Running
<1>2. pc'[o] = "failed" /\ \A p \in Operators : p # o => ~Running(p) /\ pc'[p] = pc[p]
  BY <1>1, OneScriptAlone DEF Fail, Goto, TypeOK
<1>3. Turn(o)'
  BY <1>2 DEF Turn
<1>4. OneScript'
  BY <1>2 DEF OneScript, Running
<1>5. QED
  BY <1>1, <1>2, <1>3, <1>4, SameKeysClean, TurnOfOthers, RecentParts DEF KeysRecent

(* waits for its rollout, *)
LEMMA RolledOutRecent ==
  ASSUME TypeOK, KeysRecent, NEW o \in Operators, Widened(o) \/ Narrowed(o)
  PROVE  KeysRecent'
<1>1. /\ UNCHANGED <<history, old, new, secret, mock, next, rollout>> /\ InUse' = InUse
      /\ Running(o) /\ rollout = "settled"
  BY DEF Widened, Narrowed, RolledOut, gateway, InUse, Latest, Running, Ended
<1>2. \A p \in Operators : p # o => ~Running(p) /\ pc'[p] = pc[p]
  BY <1>1, OneScriptAlone DEF Widened, Narrowed, Goto, TypeOK
<1>3. Turn(o)'
  <2>1. CASE Widened(o)
    <3>1. pc[o] = "widening" /\ pc'[o] = "write" /\ Turn(o)
      BY <2>1 DEF Widened, Goto, TypeOK, KeysRecent
    <3>2. QED
      BY <1>1, <3>1 DEF Turn, OwnRollout
  <2>2. CASE Narrowed(o)
    <3>1. pc'[o] = "done"
      BY <2>2 DEF Narrowed, Goto, TypeOK
    <3>2. QED
      BY <3>1 DEF Turn
  <2>3. QED
    BY <2>1, <2>2
<1>4. OneScript'
  BY <1>2 DEF OneScript, Running
<1>5. QED
  BY <1>1, <1>2, <1>3, <1>4, SameKeysClean, TurnOfOthers, RecentParts DEF KeysRecent

(* and writes the new key, with every list of the gateway at its two keys. *)
LEMMA WriteRecent ==
  ASSUME TypeOK, KeysRecent, NEW o \in Operators, Write(o)
  PROVE  KeysRecent'
<1>1. /\ UNCHANGED <<old, new, secret, mock, next, rollout>>
      /\ pc[o] = "write" /\ Running(o) /\ KeySets' = KeySets
  BY DEF Write, gateway, Running, Ended, KeySets
<1>2. /\ InUse = old[o] /\ InUse < new[o] /\ new[o] \in Nat
      /\ KeySets = {{old[o], new[o]}} /\ next = {}
  <2>1. Turn(o) /\ (rollout = "settled" => next = {}) /\ new[o] \in Nat
    BY DEF KeysRecent, TypeOK
  <2>2. /\ InUse = old[o] /\ InUse < new[o] /\ secret = {old[o], new[o]} /\ mock = secret
        /\ next = {}
    BY <1>1, <2>1 DEF Turn, OwnRollout
  <2>3. KeySets = {secret}
    BY <2>2 DEF KeySets
  <2>4. QED
    BY <2>1, <2>2, <2>3
<1>3. \A p \in Operators : p # o => ~Running(p) /\ pc'[p] = pc[p]
  BY <1>1, OneScriptAlone DEF Write, Goto, TypeOK
<1>4. OneScript'
  BY <1>3 DEF OneScript, Running
<1>5. Clean({old[o], new[o]})
  BY <1>2, NewKeysClean DEF KeysRecent
<1>6. CASE history' = history
  <2>1. CleanChange
    BY <1>1, <1>6, SameKeysClean
  <2>2. InUse' = InUse /\ pc'[o] \in {"wait", "failed"}
    BY <1>6 DEF InUse, Latest, Write, Goto, TypeOK
  <2>3. AllClean'
    BY <1>2, <1>5, <2>1, CleanKeeps DEF KeysRecent, AllClean
  <2>4. Turn(o)'
    BY <1>1, <1>2, <2>2, <2>3 DEF Turn
  <2>5. QED
    BY <1>1, <1>2, <1>3, <1>4, <2>1, <2>4, TurnOfOthers, RecentParts
<1>7. CASE history' = Append(history, new[o]) /\ pc'[o] = "wait"
  <2>1. PICK n \in Nat : n = Latest /\ n >= 1
    BY KeyNumbers
  <2>2. /\ Latest' = n + 1
        /\ \A v \in 1 .. n : history'[v] = history[v]
        /\ history'[n + 1] = new[o]
    BY <1>7, <2>1, KeyNumbers DEF Latest
  <2>3. InUse' = new[o]
    BY <2>2 DEF InUse
  <2>4. \A v \in 1 .. n : history[v] <= InUse /\ history[v] \in Nat /\ (v < n => history[v] < InUse)
    BY <2>1, KeyNumbers DEF KeysRecent, Increasing, InUse
  <2>5. Increasing'
    <3>1. ASSUME NEW i \in 1 .. n + 1, NEW j \in 1 .. n + 1, i < j PROVE history'[i] < history'[j]
      <4>1. CASE j = n + 1
        <5>1. i \in 1 .. n
          BY <2>1, <3>1, <4>1
        <5>2. QED
          BY <1>2, <2>2, <2>4, <4>1, <5>1, KeyNumbers
      <4>2. CASE j # n + 1
        <5>1. i \in 1 .. n /\ j \in 1 .. n
          BY <2>1, <3>1, <4>2
        <5>2. QED
          BY <2>1, <2>2, <3>1, <5>1 DEF KeysRecent, Increasing
      <4>3. QED
        BY <4>1, <4>2
    <3>2. QED
      BY <2>2, <3>1 DEF Increasing
  <2>6. AllRecent'
    <3>1. ASSUME NEW v \in 1 .. n + 1, v < n + 1, history'[v] \in {old[o], new[o]} PROVE v = n
      <4>1. v \in 1 .. n /\ history'[v] = history[v]
        BY <2>1, <2>2, <3>1
      <4>2. history[v] = InUse
        BY <1>2, <2>4, <3>1, <4>1, KeyNumbers
      <4>3. QED
        BY <2>1, <2>4, <4>1, <4>2, KeyNumbers
    <3>2. \A k \in KeySets' : InUse' \in k
      BY <1>1, <1>2, <2>3
    <3>3. QED
      BY <1>1, <1>2, <2>1, <2>2, <3>1, <3>2 DEF AllRecent, Recent
  <2>7. Turn(o)'
    BY <1>1, <1>7, <2>3 DEF Turn
  <2>8. \A p \in Operators : Turn(p)'
    BY <1>3, <2>7, TurnOfOthers
  <2>9. QED
    BY <1>1, <1>2, <1>4, <2>5, <2>6, <2>8 DEF KeysRecent
<1>8. QED
  BY <1>6, <1>7 DEF Write, Goto, TypeOK

(* The pods of the mock start, replace each other and crash. *)
LEMMA DeploymentRecent ==
  ASSUME KeysRecent, Deployment
  PROVE  KeysRecent'
<1>1. UNCHANGED <<history, pc, old, new, secret>> /\ InUse' = InUse
  BY DEF Deployment, PodStarts, PodReplaces, PodCrashes, script, InUse, Latest
<1>2. rollout' = "settled" => next' = {}
  BY DEF KeysRecent, Deployment, PodStarts, PodReplaces, PodCrashes
<1>3. /\ OwnRollout => OwnRollout'
      /\ rollout = "settled" => rollout' = "settled"
  BY DEF KeysRecent, OwnRollout, Deployment, PodStarts, PodReplaces, PodCrashes
<1>4. CleanChange
  BY DeploymentClean
<1>5. AllClean => AllClean'
  BY <1>4, CleanKeeps DEF KeysRecent
<1>6. ASSUME NEW o \in Operators PROVE Turn(o)'
  BY <1>1, <1>3, <1>5, Turn(o) DEF KeysRecent, Turn
<1>7. OneScript'
  BY <1>1 DEF KeysRecent, OneScript, Running
<1>8. QED
  BY <1>2, <1>4, <1>6, <1>7, RecentParts

LEMMA KeysRecentAlone ==
  ASSUME KeysRecent, UNCHANGED <<history, pc, old, new, secret, mock, next, rollout>>
  PROVE  KeysRecent'
<1>1. CleanChange /\ InUse' = InUse
  BY SameKeysClean DEF InUse, Latest
<1>2. AllClean => AllClean'
  BY <1>1, CleanKeeps DEF KeysRecent
<1>3. ASSUME NEW o \in Operators PROVE Turn(o)'
  BY <1>1, <1>2, Turn(o) DEF KeysRecent, Turn, OwnRollout
<1>4. OneScript' /\ (rollout' = "settled" => next' = {})
  BY DEF KeysRecent, OneScript, Running
<1>5. QED
  BY <1>1, <1>3, <1>4, RecentParts

(* An overlap of two scripts is not forgotten. *)
LEMMA OverlapStays ==
  ASSUME [Next]_vars, overlap
  PROVE  overlap'
<1>1. ASSUME NEW o \in Operators, Script(o) \/ Fail(o) PROVE overlap'
  BY Zenon, <1>1 DEF Script, Fail, Start, Widen, Widened, Write, Narrow, Narrowed, Patch, ghosts
<1>2. CASE Deployment \/ Tick \/ VaultChanges \/ UNCHANGED vars
  BY Zenon, <1>2 DEF Deployment, PodStarts, PodReplaces, PodCrashes, Tick, VaultChanges, ghosts, vars
<1>3. ASSUME NEW r \in Replicas, Boot(r) \/ Poll(r) \/ Die(r) PROVE overlap'
  BY Zenon, <1>3 DEF Boot, Poll, Die, ghosts
<1>4. QED
  BY Zenon, <1>1, <1>2, <1>3 DEF Next

LEMMA StepRecent == TypeOK /\ RecentInv /\ [Next]_vars => RecentInv'
<1> SUFFICES ASSUME TypeOK, KeysRecent, [Next]_vars, ~overlap' PROVE KeysRecent'
  BY OverlapStays DEF RecentInv
<1>1. ASSUME NEW o \in Operators, Script(o) \/ Fail(o) PROVE KeysRecent'
  BY <1>1, StartRecent, PatchRecent, FailRecent, RolledOutRecent, WriteRecent DEF Script
<1>2. CASE Deployment
  BY <1>2, DeploymentRecent
<1>3. CASE Tick \/ VaultChanges \/ UNCHANGED vars
  <2>1. UNCHANGED <<history, pc, old, new, secret, mock, next, rollout>>
    BY <1>3 DEF Tick, VaultChanges, vars, script, gateway
  <2>2. QED
    BY <2>1, KeysRecentAlone
<1>4. ASSUME NEW r \in Replicas, Boot(r) \/ Poll(r) \/ Die(r) PROVE KeysRecent'
  <2>1. UNCHANGED <<history, pc, old, new, secret, mock, next, rollout>>
    BY <1>4 DEF Boot, Poll, Die, script, gateway
  <2>2. QED
    BY <2>1, KeysRecentAlone
<1>5. QED
  BY <1>1, <1>2, <1>3, <1>4 DEF Next

LEMMA InitRecent == Init => RecentInv
<1> SUFFICES ASSUME Init PROVE KeysRecent
  BY DEF RecentInv
<1>1. Latest = 1
  BY DEF Init, Latest
<1>2. Increasing /\ AllRecent
  BY <1>1 DEF Increasing, AllRecent, Recent
<1>3. \A o \in Operators : pc[o] = "idle"
  BY DEF Init
<1>4. OneScript /\ \A o \in Operators : Turn(o)
  BY <1>3 DEF OneScript, Running, Ended, Turn
<1>5. QED
  BY <1>2, <1>4 DEF Init, KeysRecent

LEMMA RecentInvariant == Spec => []RecentInv
  BY InitRecent, StepRecent, TypeCorrect, PTL DEF Spec

\* A version whose key is in force nowhere, and has been replaced in Vault.
Spent(v) ==
  /\ v \in 1 .. Latest /\ v < Latest
  /\ \A keys \in KeySets : history[v] \notin keys

(* Nothing brings a spent key back. *)
LEMMA SpentStays ==
  ASSUME TypeOK, KeysRecent, [Next]_vars, NEW v, Spent(v)
  PROVE  Spent(v)'
<1>1. ASSUME CleanChange PROVE Spent(v)'
  <2>1. Latest' = Latest /\ history' = history
    BY <1>1 DEF CleanChange, Latest
  <2>2. ASSUME NEW keys \in KeySets' PROVE history[v] \notin keys
    BY <1>1, <2>2 DEF CleanChange, Spent, Clean
  <2>3. QED
    BY <2>1, <2>2 DEF Spent
<1>2. ASSUME NEW o \in Operators, Script(o) \/ Fail(o) PROVE Spent(v)'
  <2>1. CASE Widen(o) \/ Narrow(o)
    BY <1>1, <2>1, PatchClean
  <2>2. CASE Start(o) \/ Fail(o) \/ Widened(o) \/ Narrowed(o)
    <3>1. UNCHANGED <<history, secret, mock, next>>
      BY <2>2 DEF Start, Fail, Widened, Narrowed, gateway
    <3>2. QED
      BY <1>1, <3>1, SameKeysClean
  <2>3. CASE Write(o)
    <3>1. UNCHANGED <<secret, mock, next>> /\ KeySets' = KeySets
      BY <2>3 DEF Write, gateway, KeySets
    <3>2. CASE history' = history
      BY <1>1, <3>1, <3>2, SameKeysClean
    <3>3. CASE history' = Append(history, new[o])
      <4>1. PICK n \in Nat : n = Latest
        BY KeyNumbers
      <4>2. Latest' = n + 1 /\ \A i \in 1 .. n : history'[i] = history[i]
        BY <3>3, <4>1, KeyNumbers DEF Latest
      <4>3. v \in 1 .. n /\ \A keys \in KeySets : history[v] \notin keys
        BY <4>1 DEF Spent
      <4>4. QED
        BY <3>1, <4>2, <4>3 DEF Spent
    <3>4. QED
      BY <2>3, <3>2, <3>3 DEF Write
  <2>4. QED
    BY <1>2, <2>1, <2>2, <2>3 DEF Script
<1>3. CASE Deployment
  BY <1>1, <1>3, DeploymentClean
<1>4. CASE Tick \/ VaultChanges \/ UNCHANGED vars
  <2>1. UNCHANGED <<history, secret, mock, next>>
    BY <1>4 DEF Tick, VaultChanges, vars, gateway
  <2>2. QED
    BY <1>1, <2>1, SameKeysClean
<1>5. ASSUME NEW r \in Replicas, Boot(r) \/ Poll(r) \/ Die(r) PROVE Spent(v)'
  <2>1. UNCHANGED <<history, secret, mock, next>>
    BY <1>5 DEF Boot, Poll, Die, gateway
  <2>2. QED
    BY <1>1, <2>1, SameKeysClean
<1>6. QED
  BY <1>2, <1>3, <1>4, <1>5 DEF Next

(* A key that was replaced by one some pod refuses is spent. *)
LEMMA RefusedSpends ==
  ASSUME TypeOK, KeysRecent, NEW keys \in Pods,
         NEW v \in 1 .. Latest, history[v] \notin keys, NEW s \in 1 .. Latest, s < v
  PROVE  Spent(s)
<1>1. keys \in KeySets
  BY DEF Pods, KeySets
<1>2. s < Latest
  BY KeyNumbers
<1>3. ASSUME NEW k \in KeySets, history[s] \in k PROVE FALSE
  <2>1. s = Latest - 1 /\ \A j \in KeySets : InUse \in j
    BY <1>2, <1>3 DEF KeysRecent, AllRecent, Recent
  <2>2. v = Latest
    BY <2>1, KeyNumbers
  <2>3. QED
    BY <1>1, <2>1, <2>2 DEF InUse
<1>4. QED
  BY <1>2, <1>3 DEF Spent

\* The previous credential of a replica is older than its current one, and so is
\* the one a payment falls back on.
SparesOlder == \A r \in Replicas : spare[r] # 0 => spare[r] < held[r]
FallbacksOlder ==
  \A r \in Replicas : payment[r].fallback # 0 => payment[r].fallback < payment[r].version

LEMMA SparesOlderStep == TypeOK /\ SparesOlder /\ [Next]_vars => SparesOlder'
<1> SUFFICES ASSUME TypeOK, SparesOlder, [Next]_vars PROVE SparesOlder'
  OBVIOUS
<1>1. CASE spare' = spare /\ held' = held
  BY <1>1 DEF SparesOlder
<1>2. ASSUME NEW r \in Replicas, Boot(r) \/ Poll(r) \/ Die(r) PROVE SparesOlder'
  <2>1. CASE Adopt(r)
    <3>1. \A q \in Replicas : q # r => held'[q] = held[q] /\ spare'[q] = spare[q]
      BY <2>1 DEF Adopt, TypeOK
    <3>2. held'[r] = Latest /\ spare'[r] = IF held[r] = Latest THEN spare[r] ELSE held[r]
      BY <2>1 DEF Adopt, TypeOK
    <3>3. held[r] \in 0 .. Latest /\ Latest \in Nat
      BY KeyNumbers DEF TypeOK
    <3>4. spare'[r] # 0 => spare'[r] < held'[r]
      BY <3>2, <3>3 DEF SparesOlder
    <3>5. QED
      BY <3>1, <3>4 DEF SparesOlder
  <2>2. CASE UNCHANGED <<held, spare>>
    BY <1>1, <2>2
  <2>3. CASE Die(r)
    <3>1. /\ spare'[r] = 0
          /\ \A q \in Replicas : q # r => held'[q] = held[q] /\ spare'[q] = spare[q]
      BY <2>3 DEF Die, TypeOK
    <3>2. QED
      BY <3>1 DEF SparesOlder
  <2>4. QED
    BY <1>2, <2>1, <2>2, <2>3 DEF Boot, Poll
<1>3. ASSUME NEW o \in Operators, Script(o) \/ Fail(o) PROVE spare' = spare /\ held' = held
  BY <1>3, Zenon DEF Script, Fail, Start, Widen, Widened, Write, Narrow, Narrowed, Patch, replicas
<1>4. CASE Deployment \/ Tick \/ VaultChanges \/ UNCHANGED vars
  <2>1. spare' = spare /\ held' = held
    BY <1>4, Zenon DEF Deployment, PodStarts, PodReplaces, PodCrashes, Tick, VaultChanges, vars, replicas
  <2>2. QED
    BY <1>1, <2>1
<1>5. QED
  BY <1>1, <1>2, <1>3, <1>4 DEF Next

LEMMA SparesAreOlder == Spec => []SparesOlder
<1>1. Init => SparesOlder
  BY DEF Init, SparesOlder
<1>2. QED
  BY <1>1, SparesOlderStep, TypeCorrect, PTL DEF Spec

LEMMA PaymentTyped ==
  ASSUME PayTypeOK
  PROVE  TypeOK /\ payment \in Payments
<1>1. TypeOK /\ Latest \in Nat
  BY LatestKey DEF PayTypeOK, TypeOK
<1>2. QED
  BY <1>1 DEF PayTypeOK, Payments, PaymentSet

LEMMA FallbacksOlderStep ==
  PayTypeOK /\ SparesOlder /\ FallbacksOlder /\ [PayNext]_payVars => FallbacksOlder'
<1> SUFFICES ASSUME PayTypeOK, SparesOlder, FallbacksOlder, [PayNext]_payVars, NEW r \in Replicas,
                    payment'[r].fallback # 0
             PROVE  payment'[r].fallback < payment'[r].version
  BY DEF FallbacksOlder
<1>1. Moves(r)
  BY PaymentTyped, PaymentChange
<1>2. CASE payment'[r] = payment[r] \/ payment'[r] = Aged(r)
  BY <1>2 DEF Aged, FallbacksOlder
<1>3. CASE payment'[r] = NoPayment
  BY <1>3 DEF NoPayment
<1>4. CASE payment'[r] = Sent(r)
  BY <1>4 DEF Sent, SparesOlder
<1>5. CASE payment'[r] = SentAgain(r)
  BY <1>5 DEF SentAgain
<1>6. QED
  BY <1>1, <1>2, <1>3, <1>4, <1>5, Zenon DEF Moves

LEMMA FallbacksAreOlder == PaySpec => []FallbacksOlder
<1>1. PayInit => FallbacksOlder
  BY DEF PayInit, NoPayment, FallbacksOlder
<1>2. QED
  BY <1>1, FallbacksOlderStep, SparesAreOlder, PaymentsChangeNothing, PaymentTypes, PTL DEF PaySpec

\* The inductive invariant: the second attempt carries a spent key.
AgainInv == overlap \/ \A r \in Replicas : payment[r].again => Spent(payment[r].version)

LEMMA StepAgain ==
  PayTypeOK /\ RecentInv /\ FallbacksOlder /\ AgainInv /\ [PayNext]_payVars => AgainInv'
<1> SUFFICES ASSUME PayTypeOK, RecentInv, FallbacksOlder, AgainInv, [PayNext]_payVars, ~overlap',
                    NEW r \in Replicas, payment'[r].again
             PROVE  Spent(payment[r].version)'
  BY DEF AgainInv
<1>1. TypeOK /\ payment \in Payments /\ [Next]_vars
  BY PaymentTyped, PaymentStep
<1>2. KeysRecent /\ (payment[r].again => Spent(payment[r].version))
  BY <1>1, OverlapStays DEF RecentInv, AgainInv
<1>3. Moves(r)
  BY <1>1, PaymentChange
<1>4. PICK v : v = payment'[r].version
  OBVIOUS
<1>5. Spent(v)'
  <2>1. CASE payment'[r] = payment[r] \/ payment'[r] = Aged(r)
    <3>1. Spent(v)
      BY <1>2, <1>4, <2>1 DEF Aged
    <3>2. QED
      BY <1>1, <1>2, <3>1, SpentStays
  <2>2. CASE payment'[r] = NoPayment
    BY <2>2 DEF NoPayment
  <2>3. CASE payment'[r] = Sent(r)
    BY <2>3 DEF Sent
  <2>4. CASE /\ UNCHANGED vars /\ Refused(r) /\ payment[r].fallback # 0
             /\ payment'[r] = SentAgain(r)
    <3>1. v = payment[r].fallback
      BY <1>4, <2>4 DEF SentAgain
    <3>2. PICK w : w = payment[r].version
      OBVIOUS
    <3>3. PICK keys \in Pods : ~Accepted(w, keys)
      BY <2>4, <3>2 DEF Refused
    <3>4. v # 0 /\ v < w
      BY <2>4, <3>1, <3>2 DEF FallbacksOlder
    <3>5. v \in 1 .. Latest /\ w \in 1 .. Latest
      <4>1. v \in 0 .. Latest /\ w \in 0 .. Latest
        BY <3>1, <3>2 DEF PayTypeOK
      <4>2. QED
        BY <1>1, <3>4, <4>1, KeyNumbers
    <3>6. history[w] \notin keys
      BY <3>3, <3>5 DEF Accepted
    <3>7. Spent(v)
      BY <1>1, <1>2, <3>4, <3>5, <3>6, RefusedSpends
    <3>8. QED
      BY <1>1, <1>2, <3>7, SpentStays
  <2>5. QED
    BY <1>3, <2>1, <2>2, <2>3, <2>4, Zenon DEF Moves
<1>6. QED
  BY <1>4, <1>5

(* For any number of replicas, operators, keys and payments, any wait and any
   backoff, and whatever fails or is lost, the second attempt of a payment is
   refused too, unless two scripts have run at once. *)
THEOREM FallbackNeverHelps == PaySpec => []FallbackIsIdle
<1>1. PayInit => AgainInv
  BY DEF PayInit, NoPayment, AgainInv
<1>2. PayTypeOK /\ RecentInv /\ FallbacksOlder /\ AgainInv /\ [PayNext]_payVars => AgainInv'
  BY StepAgain
<1>3. AgainInv => FallbackIsIdle
  <2> SUFFICES ASSUME AgainInv, ~overlap, NEW r \in Replicas, payment[r].again, NEW keys \in Pods
               PROVE  ~Accepted(payment[r].version, keys)
    BY DEF FallbackIsIdle
  <2>1. Spent(payment[r].version) /\ keys \in KeySets
    BY DEF AgainInv, Pods, KeySets
  <2>2. QED
    BY <2>1 DEF Spent, Accepted
<1>4. Spec => []RecentInv
  BY RecentInvariant
<1>5. QED
  BY <1>1, <1>2, <1>3, <1>4, FallbacksAreOlder, PaymentsChangeNothing, PaymentTypes, PTL DEF PaySpec
=============================================================================
