\* A one-shot resource that is deleted, and created anew with another source.
SPECIFICATION FairSpec
CONSTANTS
  CR <- OnlyA
  Other = Other
  Version <- MCVersions
  Absent = Absent
  NoHash = NoHash
  File <- MCFiles
  FileOf <- MCFileOfA
  CloneFrom <- NoBranch
  InitialBranches <- ExistingBranch
  InitialVersion <- MCInitialVersionA
  ContentOf <- MCContents
  Edits <- Forward
  FromRef <- Nobody
  Override <- OnlyA
  SyncEnabled <- Nobody
  Deletable <- OnlyA
  PushSteps = 2
  StatusSteps = 2
  MaxEdits = 0
  MaxTouches = 0
  MaxFaults = 0
  MaxCrashes = 0
  MaxOthers = 0
  MaxRecreations = 1
  MaxUpsets = 1
PROPERTY
  CreatedIsPublished
\* The resource that is gone for good leaves nothing to do.
CHECK_DEADLOCK FALSE
