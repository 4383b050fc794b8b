SPECIFICATION FairSpec
VIEW Relevant
CONSTANTS
  Nodes = {1, 2}
  Objects = {1, 2}
  MaxBatch = 1
  RecoveryTime = 1
  MaxClock = 1
INVARIANTS
  TypeOK
  FailedAreOffline
PROPERTIES
  ImplementsLifecycle
  GoodbyeUnsubscribes
  ResubscribesOnce
  BootRecoveryDrains
