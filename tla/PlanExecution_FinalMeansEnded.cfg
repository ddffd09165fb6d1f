\* A stale pump and the one that ends the plan.
SPECIFICATION MCSpec
CONSTANTS
  Situations = {"processes"}
  plan = plan  old = old  new = new
  t1 = t1  t2 = t2  other = other  P = P  Q = Q
  c1 = c1  c2 = c2  c3 = c3
  Workflows = {plan, old, new}
  Specs <- MCSpecs
  Tasks = {t1, t2, other}
  NoTask = NoTask
  Fits <- MCFits
  Verdicts = {"PASSED", "FAILED", "NEEDS_REVIEW", "NOT_REQUESTED", "UNAVAILABLE"}
  Plan = plan
  StepTask <- MCStepTask
  Threads = {c1, c2, c3}
  Processes = {P, Q}
  HomeOf <- MCHomeOf
  PumpTurns = 4
  MaxCalls = 3
  Faults = FALSE
CHECK_DEADLOCK FALSE
INVARIANT FinalMeansEnded
