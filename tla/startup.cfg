SPECIFICATION FairSpec
CONSTANTS
  WaitTicks = 3
  MaxReq = 2
  AcceptMayFail = TRUE
  SimMayFail = TRUE
  MayInterrupt = TRUE
CHECK_DEADLOCK FALSE
INVARIANTS TypeOK UpMeansSynced ExitHasCause
PROPERTIES SettlesInOrder NoOrphan
