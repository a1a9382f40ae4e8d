SPECIFICATION Spec
CONSTANTS
  Cfgs <- MCCfgs
  Certs <- MCCerts
  MaxBytes = 3
  MaxSends = 2
INVARIANTS NoUseAfterFree NoLostWakeUp ReadInOrder CloseNoticed KilledByUse
PROPERTY FreedAtLast
CHECK_DEADLOCK FALSE
