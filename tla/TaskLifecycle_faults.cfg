SPECIFICATION Spec
CONSTANTS
  A = A
  B = B
  C = C
  r1 = r1
  r2 = r2
  Worker = Worker
  NoOwner = NoOwner
  Holders = {Worker, r1}
  Instances = {A, B, C}
  InstanceOf <- MCInstanceOf
  LeaseDuration = 1
  MaxClock = 3
  MaxGeneration = 2
  ClockStepsBack = FALSE
  Reconcilers = {r1}
  ReconcileOutcomes = {"lost"}
  MaxCancelCalls = 1
  MaxFaults = 1
  MayCrash = TRUE
INVARIANTS NeverDispatchedIsTrue
PROPERTIES TerminalStable
CHECK_DEADLOCK FALSE
