-------------------------- MODULE RotationPayments --------------------------
(***************************************************************************)
(* Payments on their way while credentials rotate.  authorize_payment of   *)
(* app/gateway_client.py reads the current credential and the previous one *)
(* before it awaits the gateway, which compares the one that was sent with *)
(* the keys of the pod the request meets: a key given up, by the replica   *)
(* and by the script, while the request is under way is refused all the    *)
(* same.  After a refusal the request is sent again with the previous      *)
(* credential.  httpx limits each phase of sending to HTTP_TIMEOUT_SECONDS,*)
(* 10 s, so an attempt meets its pod within a tick.                        *)
(*                                                                         *)
(* Payments leave the rest of the system alone, so one at a time for each  *)
(* replica stands for all.                                                 *)
(***************************************************************************)
EXTENDS Rotation

VARIABLE payment   \* the payment a replica has sent, at most one

payVars == <<vars, payment>>

\* version: of the credential it carries, 0 if there is no payment; fallback: of
\* the one it is sent with again, 0 if there is none; again: it carries that one;
\* fresh: no tick has passed since it was sent.  A ghost: late, what Straggles
\* said then.
NoPayment == [version |-> 0, fallback |-> 0, again |-> FALSE, fresh |-> FALSE, late |-> FALSE]
InFlight(r) == payment[r].version # 0

PayInit == Init /\ payment = [r \in Replicas |-> NoPayment]

Behind(r) == held[r] # 0 /\ held[r] # Latest

\* A poll of a replica that has not adopted the latest credential has failed, and
\* its pauses up to this one are no shorter than the script's wait, less a tick.
Straggles(r) == Behind(r) /\ 2 * delay[r] >= WaitTicks

Send(r) ==
  /\ ~InFlight(r)
  /\ held[r] # 0
  /\ payment' = [payment EXCEPT ![r] =
                   [version |-> held[r], fallback |-> spare[r], again |-> FALSE,
                    fresh |-> TRUE, late |-> Straggles(r)]]
  /\ UNCHANGED vars

\* A pod refuses what the payment carries.
Refused(r) == InFlight(r) /\ \E keys \in Pods : ~Accepted(payment[r].version, keys)

\* The second attempt, with the credential that was the previous one at the start.
SendAgain(r) ==
  /\ Refused(r)
  /\ payment[r].fallback # 0
  /\ payment' = [payment EXCEPT ![r] =
                   [version |-> @.fallback, fallback |-> 0, again |-> TRUE,
                    fresh |-> TRUE, late |-> FALSE]]
  /\ UNCHANGED vars

\* The gateway's answer, or none in time; after a refusal, with no second attempt left.
Return(r) ==
  /\ InFlight(r)
  /\ payment' = [payment EXCEPT ![r] = NoPayment]
  /\ UNCHANGED vars

\* The requests of a process end with it.
DieSending(r) ==
  /\ Die(r)
  /\ payment' = [payment EXCEPT ![r] = NoPayment]

\* A mistake in Timely: nothing limits the time of a request.
TimelyAlways(r) == TRUE

Timely(r) == InFlight(r) => payment[r].fresh

TimePasses ==
  /\ \A r \in Replicas : Timely(r)
  /\ Tick
  /\ payment' = [r \in Replicas |-> [payment[r] EXCEPT !.fresh = FALSE]]

Beside ==
  /\ \/ \E o \in Operators : Script(o) \/ Fail(o)
     \/ Deployment
     \/ \E r \in Replicas : Boot(r) \/ Poll(r)
     \/ VaultChanges
  /\ UNCHANGED payment

PayNext ==
  \/ \E r \in Replicas : Send(r) \/ SendAgain(r) \/ Return(r) \/ DieSending(r)
  \/ TimePasses
  \/ Beside

PaySpec == PayInit /\ [][PayNext]_payVars

\* The clock of the replicas goes on, tick after poll after tick, and payments end.
\* Nothing else is promised: a script, a rollout and a replica may stop anywhere.
Fairness ==
  /\ WF_payVars(TimePasses \/ \E r \in Replicas : Poll(r) /\ UNCHANGED payment)
  /\ \A r \in Replicas : WF_payVars(Return(r))

FairSpec == PaySpec /\ Fairness

-----------------------------------------------------------------------------
(* Properties *)

\* The type invariant.
PayTypeOK ==
  /\ TypeOK
  /\ payment \in [Replicas -> [version : 0 .. Latest, fallback : 0 .. Latest, again : BOOLEAN,
                              fresh : BOOLEAN, late : BOOLEAN]]

\* Zero downtime for payments under way: the pods take the credential a payment
\* carries for as long as it is under way, also when the replica and the script
\* have moved on.  The wait of the script covers no failed poll here: a payment
\* sent by a replica that straggles may meet a pod without its key.  The other
\* exceptions are those of ZeroDowntime.
PaymentsTaken ==
  \A r \in Replicas :
    Refused(r) /\ ~payment[r].again
      => payment[r].late \/ LatestRejected \/ overlap \/ cut

\* The second attempt never helps: when a pod has refused the credential a payment
\* was sent with, every pod refuses the previous one, then and for as long as that
\* attempt is under way, whatever failed or was lost - unless two scripts ran at
\* once.  It is the two keys of the gateway and the order of the script's steps
\* that carry payments through a rotation, not the connector's previous credential.
FallbackIsIdle ==
  \A r \in Replicas :
    payment[r].again
      => (\A keys \in Pods : ~Accepted(payment[r].version, keys)) \/ overlap
=============================================================================
