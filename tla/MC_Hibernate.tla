---------------------------- MODULE MC_Hibernate ----------------------------
(***************************************************************************)
(* Bounds for Hibernate.  Periods of 6 s and a horizon of three periods   *)
(* let a relay spend its quota, sleep into the next period, wake at a     *)
(* keyed time and restart in between.  A quota of 4 with bursts of 2      *)
(* reaches the soft limit (3) and the hard limit in one or two seconds.   *)
(* The measurement window (2 s) and rate cap (4) let the expected rate    *)
(* be 0, 1, 2 or more, so wakeups fall at or after the period start.      *)
(* Recording every 3 s or 2 bytes, rounded to 2, with a 1 s save delay,   *)
(* leaves room for a crash between a record and its save.                 *)
(***************************************************************************)
EXTENDS Hibernate

MC_L == 6
MC_MaxTime == 15
MC_AccountingMax == 4
MC_MaxBurst == 2
MC_SecsPerMin == 2
MC_MinMeasurement == 2
MC_MaxConfigured == 4
MC_SoftLimPct == 95
MC_SoftLimBytes == 1
MC_SoftLimMinutes == 1
MC_NoteInterval == 3
MC_NoteBytes == 2
MC_RoundUnit == 2
MC_SaveDelay == 1
MC_ShutdownWait == 1
MC_ShutdownSlack == 1
MC_Digests == {0, 1}
MC_MaxRestarts == 1
MC_MaxReloads == 1
=============================================================================
