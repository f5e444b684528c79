SPECIFICATION FairSpec
CONSTANTS
  a0 = a0
  a1 = a1
  Addrs <- MCAddrs
  IrqAddr = a0
  TagMod = 8
  MaxTx = 3
  MsiTest = TRUE
  Transport = "UDS"
  TimeoutAt = {}
  Ops <- Writes
  SimMayDie = TRUE
  GuestWaits = FALSE
CHECK_DEADLOCK FALSE
INVARIANTS NoSpuriousInterrupt ChannelRestored
PROPERTIES EveryInterruptDelivered SimStopsAfterDisconnect
