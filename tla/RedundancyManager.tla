------------------------- MODULE RedundancyManager --------------------------
(***************************************************************************)
(* src/core/redundancy/RedundancyManager.rs: monitor() polls the primary   *)
(* component and fails over to the backup, while other threads set the     *)
(* health of both.  Every access to a health flag is a step of its own, as *)
(* the flags are separate atomics.                                         *)
(***************************************************************************)
EXTENDS Naturals

CONSTANT MaxChanges    \* bound of the model: changes of health by others

ASSUME RedundancyAssumption == MaxChanges \in Nat

VARIABLES
  primary, backup,     \* Component::healthy
  pc,                  \* where monitor() is; "ok" and "err" are its results
  changes,
  lostBackup,          \* history: the backup was taken down after activation
  bothDown             \* history: so was the backup when the primary was found down

redundancyVars == <<primary, backup, pc, changes, lostBackup, bothDown>>

RedundancyTypeOK ==
  /\ primary \in BOOLEAN /\ backup \in BOOLEAN
  /\ pc \in {"check", "sleep", "activate", "confirm", "ok", "err"}
  /\ changes \in 0..MaxChanges
  /\ lostBackup \in BOOLEAN /\ bothDown \in BOOLEAN

\* Components are created healthy or not.
RedundancyInit ==
  /\ primary \in BOOLEAN /\ backup \in BOOLEAN
  /\ pc = "check" /\ changes = 0
  /\ lostBackup = FALSE /\ bothDown = FALSE

\* set_health, called by the threads that watch the components.
SetPrimary(state) ==
  /\ changes < MaxChanges /\ changes' = changes + 1
  /\ primary' = state
  /\ UNCHANGED <<backup, pc, lostBackup, bothDown>>

SetBackup(state) ==
  /\ changes < MaxChanges /\ changes' = changes + 1
  /\ backup' = state
  /\ lostBackup' = (lostBackup \/ (pc = "confirm" /\ ~state))
  /\ UNCHANGED <<primary, pc, bothDown>>

CheckPrimary ==
  /\ pc = "check"
  /\ pc' = IF primary THEN "sleep" ELSE "activate"
  /\ bothDown' = (~primary /\ ~backup)
  /\ UNCHANGED <<primary, backup, changes, lostBackup>>

\* Mutant of Sleep: the loop is left when it wakes to an unhealthy primary.
SleepUntilHealthy ==
  /\ pc = "sleep" /\ primary
  /\ pc' = "check"
  /\ UNCHANGED <<primary, backup, changes, lostBackup, bothDown>>

Sleep ==
  /\ pc = "sleep"
  /\ pc' = "check"
  /\ UNCHANGED <<primary, backup, changes, lostBackup, bothDown>>

Activate ==
  /\ pc = "activate"
  /\ backup' = TRUE
  /\ pc' = "confirm"
  /\ UNCHANGED <<primary, changes, lostBackup, bothDown>>

Confirm ==
  /\ pc = "confirm"
  /\ pc' = IF backup THEN "ok" ELSE "err"
  /\ UNCHANGED <<primary, backup, changes, lostBackup, bothDown>>

Monitor == CheckPrimary \/ Sleep \/ Activate \/ Confirm

Returned == pc \in {"ok", "err"} /\ UNCHANGED redundancyVars

RedundancyNext ==
  \/ \E state \in BOOLEAN : SetPrimary(state) \/ SetBackup(state)
  \/ Monitor
  \/ Returned

RedundancySpec == RedundancyInit /\ [][RedundancyNext]_redundancyVars

\* The monitor's thread runs; nothing is assumed of those that set the health.
RedundancyFairSpec == RedundancySpec /\ WF_redundancyVars(Monitor)

-----------------------------------------------------------------------------
\* RedundancyManager.rs:63, "Returns an error if both components are unhealthy":
\* monitor() does not report success if the backup was down, as the primary was,
\* when it found the primary down.
BothDownIsError == pc = "ok" => ~bothDown

\* When it does return an error: the backup went down between its activation
\* and the look at it.
ErrorNeedsLostBackup == pc = "err" => lostBackup

\* A primary that stays unhealthy is noticed, and monitor() returns.
FailureIsNoticed == <>[](~primary) => <>(pc \in {"ok", "err"})
=============================================================================
