\* The commit of an update fails and is taken for nothing to do.
SPECIFICATION FairSpec
CONSTANTS
  Overrides = {TRUE}
  CloneFrom <- NoBranch
  InitialBranches <- ExistingBranch
  StatusSteps = 2
  MaxOrigin = 2
  MaxOthers = 0
  MaxRewrites = 0
  MaxOutages = 0
  MaxFaults = 1
  MaxEdits = 0
  MaxTouches = 0
  MaxLosses = 0
  MaxRewinds = 0
  MaxCrashes = 0
  MaxUpsets = 1
PROPERTY
  UpdatesArePushed
CHECK_DEADLOCK FALSE
