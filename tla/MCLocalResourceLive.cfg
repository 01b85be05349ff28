\* Liveness: both synced and inline, a overriding; no crash.
SPECIFICATION FairSpec
CONSTANTS
  CR <- MCResources
  Other = Other
  Version <- LiveVersions
  Absent = Absent
  NoHash = NoHash
  File <- MCFiles
  FileOf <- MCFileOf
  CloneFrom <- NoBranch
  InitialBranches <- LiveBranch
  InitialVersion <- MCInitialVersion
  ContentOf <- LiveContents
  Edits <- AndBackAnew
  FromRef <- Nobody
  Override <- OnlyA
  SyncEnabled <- Both
  Deletable <- OnlyA
  PushSteps = 2
  StatusSteps = 3
  MaxEdits = 2
  MaxTouches = 0
  MaxFaults = 1
  MaxCrashes = 0
  MaxOthers = 0
  MaxRecreations = 1
  MaxUpsets = 2
PROPERTIES
  SourcesArePublished
  DeletedIsReleased
  Settles
