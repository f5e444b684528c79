SPECIFICATION Spec
CONSTANTS
  a0 = a0
  a1 = a1
  Addrs <- MCAddrs
  IrqAddr = a0
  TagMod = 8
  MaxTx = 4
  MsiTest = TRUE
  Transport = "UDS"
  TimeoutAt = {"hdr"}
  Ops <- AllOps
  SimMayDie = TRUE
  GuestWaits = TRUE
CHECK_DEADLOCK FALSE
INVARIANTS RequestsOnMain PostedWritesSurviveShutdown
PROPERTIES ServedInIssueOrder ImplementsBarMemory
