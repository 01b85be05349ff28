\* A fromRef object that changes during a sync.
SPECIFICATION FairSpec
CONSTANTS
  CR <- OnlyA
  Other = Other
  Version <- MCVersions
  Absent = Absent
  NoHash = NoHash
  File <- MCFiles
  FileOf <- MCFileOfA
  CloneFrom <- NoBranch
  InitialBranches <- ExistingBranch
  InitialVersion <- MCInitialVersionA
  ContentOf <- MCContents
  Edits <- Forward
  FromRef <- OnlyA
  Override <- OnlyA
  SyncEnabled <- OnlyA
  Deletable <- Nobody
  PushSteps = 2
  StatusSteps = 2
  MaxEdits = 1
  MaxTouches = 0
  MaxFaults = 0
  MaxCrashes = 0
  MaxOthers = 0
  MaxRecreations = 0
  MaxUpsets = 2
PROPERTY
  SourcesArePublished
