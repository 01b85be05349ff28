\* A directory whose name cannot be rendered, after a file at fault.
SPECIFICATION Spec
CONSTANTS
  Name <- MCName
  Rank <- MCRank
  Value <- MCValue
  Bad = Bad
  Matched <- MCMatched
  TargetPath <- MCTargetPath
  Request <- OneRequest
  InitialSources <- Unnamed
  InitialTargets <- MCInitialTargets
  SourcePaths <- MCEditPaths
  OtherPaths <- MCOtherPaths
  IgnoreSets <- MCIgnoreSets
  MaxEdits = 0
  MaxSyncs = 1
  MaxOthers = 0
  MaxFaults = 0
PROPERTY
  FaultsReachTheStatus
CHECK_DEADLOCK FALSE
