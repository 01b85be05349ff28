\* Three goroutines; without symmetry, which liveness does not allow.
SPECIFICATION FairSpec
CONSTANTS
  p1 = p1
  p2 = p2
  p3 = p3
  NoProc = NoProc
  NoOp = NoOp
  Proc <- MCProc
  Cookie <- MCCookie
  Op <- MCOp
INVARIANTS
  TypeOK
  NoRegistryRace
  OwnSettings
  DefaultsRestored
PROPERTIES
  ImplementsAbstract
  EveryCallReturns
