SPECIFICATION Spec
CONSTANTS
  r1 = r1
  r2 = r2
  Reqs <- MCReqs
  Names = {1, 2}
  FoldOf <- MCFold
  Files <- MCFiles
  Dirs <- MCDirs
  Targets <- MCTargets
  Transfers <- MCTransfers
  MaxContents = 2
INVARIANTS
  TypeOK
  
PROPERTIES
  NothingLost
  OverwriteHonoured
SYMMETRY Symmetry
