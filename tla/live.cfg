SPECIFICATION FairSpec
CONSTANTS
  a0 = a0
  a1 = a1
  Addrs <- MCAddrs
  IrqAddr = a0
  TagMod = 2
  MaxTx = 3
  MsiTest = FALSE
  Transport = "TCP"
  TimeoutAt = {"hdr"}
  Ops <- Access
  SimMayDie = TRUE
  GuestWaits = FALSE
CHECK_DEADLOCK FALSE
INVARIANTS TypeOK AcceptedReplyIsOwnOrWrapped
PROPERTIES ReadAlwaysReturns
