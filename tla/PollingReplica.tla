--------------------------- MODULE PollingReplica ---------------------------
(***************************************************************************)
(* What the rest of the system may assume of a connector process over      *)
(* time: a DualCredential that loads when it starts and after every pause, *)
(* adopts the newest credential exactly when Vault is good at that moment, *)
(* and pauses for CheckInterval after a good load and twice as long as     *)
(* before, up to MaxBackoff, after a bad one.                              *)
(*                                                                         *)
(* CredentialManager is shown to do this with its cache, versions and      *)
(* payloads; the replicas of Rotation, on which the length of the script's *)
(* wait depends, are shown to do no more and no less.                      *)
(***************************************************************************)
EXTENDS DualCredential

CONSTANTS CheckInterval, MaxBackoff   \* in ticks

VARIABLES
  good,      \* would a load, now, find a complete secret?
  polling,   \* is the refresh loop running?
  delay,     \* the length of its present pause
  wake       \* what is left of the pause

loopVars == <<polling, delay, wake>>
pollVars == <<latest, held, spare, good, polling, delay, wake>>

PollInit ==
  /\ Init
  /\ good \in BOOLEAN
  /\ polling = FALSE
  /\ delay = CheckInterval
  /\ wake = 0

\* A load adopts what is newest, or finds that it has it; a bad one leaves all as it was.
Load ==
  \/ good /\ Adopt
  \/ (good => held = latest) /\ UNCHANGED <<latest, held, spare>>

Pause(ticks) == delay' = ticks /\ wake' = ticks

Longer == IF 2 * delay < MaxBackoff THEN 2 * delay ELSE MaxBackoff

\* The first load of a process, whatever comes of it, and a regular pause.
Start ==
  /\ ~polling /\ held = 0
  /\ Load
  /\ polling' = TRUE
  /\ Pause(CheckInterval)
  /\ UNCHANGED good

Poll ==
  /\ polling /\ wake = 0
  /\ Load
  /\ Pause(IF good THEN CheckInterval ELSE Longer)
  /\ UNCHANGED <<good, polling>>

\* Time passes in a pause, never over the end of one.
Tick ==
  /\ polling /\ wake > 0
  /\ wake' = wake - 1
  /\ UNCHANGED <<latest, held, spare, good, polling, delay>>

\* The loop is cancelled; the process serves what it has until it ends.
Stop ==
  /\ polling
  /\ polling' = FALSE
  /\ wake' = 0
  /\ UNCHANGED <<latest, held, spare, good, delay>>

Exit ==
  /\ Forget
  /\ polling' = FALSE
  /\ delay' = CheckInterval /\ wake' = 0
  /\ UNCHANGED good

\* A new secret, good or not, and a Vault that stops or starts to answer.
PublishAny == Publish /\ good' \in BOOLEAN /\ UNCHANGED loopVars

VaultChanges ==
  /\ good' = ~good
  /\ UNCHANGED <<latest, held, spare, loopVars>>

PollNext == Start \/ Poll \/ Tick \/ Stop \/ Exit \/ PublishAny \/ VaultChanges

PollSpec == PollInit /\ [][PollNext]_pollVars
=============================================================================
