SPECIFICATION FairSpec
CONSTANTS
  a0 = a0
  a1 = a1
  Addrs <- MCAddrs
  IrqAddr = a0
  TagMod = 8
  MaxTx = 2
  MsiTest = TRUE
  Transport = "UDS"
  TimeoutAt = {"hdr", "data"}
  Ops <- IrqRead
  SimMayDie = FALSE
  GuestWaits = FALSE
CHECK_DEADLOCK FALSE
PROPERTY ReadReturnsWhileFramed
