SPECIFICATION FairSpec
CONSTANTS
  Kinds = {"tag", "branch", "both"}
  MaxTag = 2
  MaxFaults = 3
  MaxEdits = 4
  Alike <- MCAlike
INVARIANTS TypeOK NothingLost StashGivenBack CleanRunAligns
PROPERTY Converges
