SPECIFICATION Spec
CONSTANTS
  Kinds = {"both"}
  MaxTag = 2
  MaxFaults = 1
  MaxEdits = 1
  Alike = {}
INVARIANT AlignedAtTag
