\* Three launch calls; two tasks by key, or three of one run.
SPECIFICATION MCSpec
CONSTANTS
  Situations = {"keys", "runs"}
  c1 = c1  c2 = c2  c3 = c3
  P = P  Q = Q
  k1 = k1  r1 = r1
  Callers = {c1, c2, c3}
  Processes = {P, Q}
  ProcessOf <- MCProcessOf
  Requests <- AllRequests
  Keys = {k1}  NoKey = NoKey
  Runs = {r1}  NoRun = NoRun
  SlotLimit = 2
  MaxTasks = 3
  MaxCalls = 3
  MaxFaults = 1
  MaxClock = 3
  MayCrash = TRUE
CHECK_DEADLOCK FALSE
INVARIANTS OneTaskPerName AnswersAgree SlotsStand DispatchBudget RuntimeBudget
SYMMETRY SameProcess
