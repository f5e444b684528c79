SPECIFICATION FairSpec
CONSTANTS
  NRuns = 2
  MaxBackups = 2
  MaxFaults = 1
  Spared = {"sniffer"}
INVARIANTS TypeOK OwnBridge OneBridge RecentLogsKept NothingLeft
PROPERTY TeardownEnds
CHECK_DEADLOCK FALSE
