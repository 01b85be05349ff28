\* Liveness: an overriding Repo, no crash.
SPECIFICATION FairSpec
CONSTANTS
  Overrides = {TRUE}
  CloneFrom <- NoBranch
  InitialBranches <- ExistingBranch
  StatusSteps = 2
  MaxOrigin = 2
  MaxOthers = 1
  MaxRewrites = 1
  MaxOutages = 1
  MaxFaults = 1
  MaxEdits = 1
  MaxTouches = 0
  MaxLosses = 1
  MaxRewinds = 0
  MaxCrashes = 0
  MaxUpsets = 3
PROPERTIES
  ReadyIsTruthful
  OriginIsPublished
  DeletedIsReleased
CHECK_DEADLOCK FALSE
