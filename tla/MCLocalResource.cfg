\* Safety: a is synced, overriding and inline; b is published once from a fromRef.
SPECIFICATION Spec
CONSTANTS
  CR <- MCResources
  Other = Other
  Version <- MCVersions
  Absent = Absent
  NoHash = NoHash
  File <- MCFiles
  FileOf <- MCFileOf
  CloneFrom <- NoBranch
  InitialBranches <- AnyBranch
  InitialVersion <- MCInitialVersion
  ContentOf <- MCContents
  Edits <- Forward
  FromRef <- OnlyB
  Override <- OnlyA
  SyncEnabled <- OnlyA
  Deletable <- OnlyA
  PushSteps = 2
  StatusSteps = 2
  MaxEdits = 1
  MaxTouches = 1
  MaxFaults = 1
  MaxCrashes = 1
  MaxOthers = 1
  MaxRecreations = 1
  MaxUpsets = 2
INVARIANTS
  TypeOK
  RecordedIsOnBranch
  CreatesOnlyUnpublished
  WedgedOnlyByCrash
  RetriesArePaid
  AvailableIsPublished
PROPERTY
  ImplementsPublish
