SPECIFICATION Spec
CONSTANTS
  BarSize = 3
  Window = 2
  BufSize = 1
  Vals <- MCVals
  Pattern <- MCPattern
  MsiTest = FALSE
  Accesses <- Anything
INVARIANT ReadsBack
