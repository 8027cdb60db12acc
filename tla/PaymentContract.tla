-------------------------- MODULE PaymentContract ---------------------------
(***************************************************************************)
(* What the payment endpoint promises the clients that use idempotency     *)
(* keys: a key has one outcome, a transaction that is charged once or an   *)
(* error for which nothing is charged, and every answer names it, the      *)
(* error by an id that the endpoint makes up - until something happens to  *)
(* the key for which it waives its promise.                                *)
(* What waives it, and how the promise is kept with caches, replicas and   *)
(* requests in flight, is the business of the module that implements this. *)
(***************************************************************************)
CONSTANT Keys

VARIABLES charged,   \* the transactions made for each key
          answers,   \* the ids that the answers to each key have named
          waived     \* the keys for which nothing is promised any more

vars == <<charged, answers, waived>>

Init ==
  /\ charged = [k \in Keys |-> {}]
  /\ answers = [k \in Keys |-> {}]
  /\ waived = {}

\* A new transaction; for a key with a promise, the first, and before any answer.
Charge(k) ==
  /\ \E t \in charged'[k] :
       /\ \A j \in Keys : t \notin charged[j] /\ t \notin answers[j]
       /\ charged' = [charged EXCEPT ![k] = @ \cup {t}]
  /\ k \notin waived => charged[k] = {} /\ answers[k] = {}
  /\ UNCHANGED <<answers, waived>>

\* The id of an error is no transaction, and no other key was told of it.
MadeUp(a, k) == \A j \in Keys : a \notin charged[j] /\ (j # k => a \notin answers[j])

\* An answer names a transaction of its key, or makes up an id.  With a promise it
\* repeats what was said before and denies no transaction.  To make room for what
\* it remembers of this key, the endpoint may forget others.
Answer(k) ==
  /\ \E a \in answers'[k] :
       /\ a \in charged[k] \/ MadeUp(a, k)
       /\ answers' = [answers EXCEPT ![k] = @ \cup {a}]
       /\ k \notin waived => answers[k] \subseteq {a} /\ (MadeUp(a, k) => charged[k] = {})
  /\ waived \subseteq waived' /\ waived' \subseteq Keys
  /\ UNCHANGED charged

\* The promise is given up for some keys.
Waive ==
  /\ waived \subseteq waived' /\ waived' \subseteq Keys
  /\ UNCHANGED <<charged, answers>>

Next == Waive \/ \E k \in Keys : Charge(k) \/ Answer(k)

Spec == Init /\ [][Next]_vars

\* All that was charged for a key and said about it is one and the same.
OneOutcome ==
  \A k \in Keys \ waived :
    \A a, b \in charged[k] \cup answers[k] : a = b
=============================================================================
