SPECIFICATION FairSpec
CONSTANTS
  Scopes <- MCScopes
  BaseRepos <- MCBaseRepos
  RepoScopes <- MCRepoScopes
  Sparse <- MCSparse
  Linked <- MCLinked
  BasePkgs <- MCBasePkgs
  Pkgs <- MCPkgs
  Roots <- MCRoots
  Ebpf = TRUE
  MaxFaults = 1
  MaxRemoves = 2
INVARIANTS TypeOK CompleteWhenDone RemovableOptions
PROPERTIES OptionsKept SetupCompletes
