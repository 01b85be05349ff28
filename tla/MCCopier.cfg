\* A sync of a small tree, with everything that can be asked of it.
SPECIFICATION Spec
CONSTANTS
  Name <- MCName
  Rank <- MCRank
  Value <- MCValue
  Bad = Bad
  Matched <- MCMatched
  TargetPath <- MCTargetPath
  Request <- MCRequest
  InitialSources <- MCInitialSources
  InitialTargets <- MCInitialTargets
  SourcePaths <- MCEditPaths
  OtherPaths <- MCOtherPaths
  IgnoreSets <- MCIgnoreSets
  MaxEdits = 1
  MaxSyncs = 1
  MaxOthers = 1
  MaxFaults = 1
INVARIANTS
  TypeOK
  CopyIsOverlay
  ResyncOnlyRestamps
  EveryFaultIsReported
PROPERTIES
  SyncsOnlyAdd
  AdditiveLeavesOthers
CHECK_DEADLOCK FALSE
