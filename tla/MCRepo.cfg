\* Safety: every disturbance.
SPECIFICATION Spec
CONSTANTS
  Overrides = {TRUE, FALSE}
  CloneFrom <- NoBranch
  InitialBranches <- EitherBranch
  StatusSteps = 2
  MaxOrigin = 2
  MaxOthers = 1
  MaxRewrites = 1
  MaxOutages = 1
  MaxFaults = 1
  MaxEdits = 1
  MaxTouches = 1
  MaxLosses = 1
  MaxRewinds = 1
  MaxCrashes = 1
  MaxUpsets = 3
INVARIANTS
  TypeOK
  RecordIsConsistent
  SucceededIsNamed
PROPERTY
  OneShot
CHECK_DEADLOCK FALSE
