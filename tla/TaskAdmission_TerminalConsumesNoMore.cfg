\* One task of a run, reconciled as lost.
SPECIFICATION MCSpec
CONSTANTS
  Situations = {"runs"}
  c1 = c1  c2 = c2  c3 = c3
  P = P  Q = Q
  k1 = k1  r1 = r1
  Callers = {c1, c2, c3}
  Processes = {P, Q}
  ProcessOf <- MCProcessOf
  Requests <- RunRequests
  Keys = {k1}  NoKey = NoKey
  Runs = {r1}  NoRun = NoRun
  SlotLimit = 2
  MaxTasks = 1
  MaxCalls = 1
  MaxFaults = 0
  MaxClock = 3
  MayCrash = TRUE
CHECK_DEADLOCK FALSE
PROPERTY TerminalConsumesNoMore
