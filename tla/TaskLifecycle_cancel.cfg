SPECIFICATION FairSpec
CONSTANTS
  A = A
  B = B
  C = C
  r1 = r1
  r2 = r2
  Worker = Worker
  NoOwner = NoOwner
  Holders = {Worker, r1}
  Instances = {A, B, C}
  InstanceOf <- MCInstanceOf
  LeaseDuration = 2
  MaxClock = 3
  MaxGeneration = 3
  ClockStepsBack = FALSE
  Reconcilers = {r1}
  ReconcileOutcomes = {"completed", "cancelled", "lost", "orphaned"}
  MaxCancelCalls = 2
  MaxFaults = 0
  MayCrash = FALSE
INVARIANTS ReconcilerSeesNoConflict OwnerLeavesTerminal EarlyCancelReachesBackend
PROPERTIES FinalizingShutsOutCancel ImplementsContract AllReturn ImplementsSingleWriter
CHECK_DEADLOCK FALSE
