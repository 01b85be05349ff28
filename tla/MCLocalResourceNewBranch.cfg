\* A new branch cloned from one that holds the file already.
SPECIFICATION FairSpec
CONSTANTS
  CR <- OnlyA
  Other = Other
  Version <- MCVersions
  Absent = Absent
  NoHash = NoHash
  File <- MCFiles
  FileOf <- MCFileOfA
  CloneFrom <- MainWithFile
  InitialBranches <- NewBranch
  InitialVersion <- MCInitialVersionA
  ContentOf <- MCContents
  Edits <- Forward
  FromRef <- Nobody
  Override <- OnlyA
  SyncEnabled <- OnlyA
  Deletable <- Nobody
  PushSteps = 2
  StatusSteps = 2
  MaxEdits = 0
  MaxTouches = 0
  MaxFaults = 0
  MaxCrashes = 0
  MaxOthers = 0
  MaxRecreations = 0
  MaxUpsets = 2
INVARIANT
  RecordedBranchExists
