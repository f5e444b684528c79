SPECIFICATION Spec
CONSTANTS
  BarSize = 3
  Window = 3
  BufSize = 2
  Vals <- MCVals
  Pattern <- MCPattern
  MsiTest = TRUE
  Accesses <- AsMemory
CHECK_DEADLOCK FALSE
INVARIANTS TypeOK ReadsBack IrqIffDoorbell
