CONSTANTS
  L <- MC_L
  MaxTime <- MC_MaxTime
  AccountingMax <- MC_AccountingMax
  MaxBurst <- MC_MaxBurst
  SecsPerMin <- MC_SecsPerMin
  MinMeasurement <- MC_MinMeasurement
  MaxConfigured <- MC_MaxConfigured
  SoftLimPct <- MC_SoftLimPct
  SoftLimBytes <- MC_SoftLimBytes
  SoftLimMinutes <- MC_SoftLimMinutes
  NoteInterval <- MC_NoteInterval
  NoteBytes <- MC_NoteBytes
  RoundUnit <- MC_RoundUnit
  SaveDelay <- MC_SaveDelay
  ShutdownWait <- MC_ShutdownWait
  ShutdownSlack <- MC_ShutdownSlack
  Digests <- MC_Digests
  MaxRestarts <- MC_MaxRestarts
  MaxReloads <- MC_MaxReloads
SPECIFICATION Spec
INVARIANTS TypeOK IntervalCurrent SleepBounded
PROPERTIES HardLimitHonoured
