SPECIFICATION Spec
CONSTANTS
  Scenes = {"tools", "dispatch", "migration", "context", "planner", "verification", "usage",
            "lease"}
  Disks <- MCDisks
  MaxLimit = 2
  MaxEdits = 2
  Dispatchers = {c1, c2}
  c1 = c1
  c2 = c2
  Demands <- MCDemands
  Rooms <- MCRooms
  RoomOfKey <- MCRoomOfKey
  FreshRoom <- MCFreshRoom
  NoDemandKey = "none"
  MaxSaves = 2
  Openers = {c1, c2}
  FileAges = {0, 3, 10, 12}
  MaxOpens = 2
  Callers = {c1, c2}
  FileOrder <- MCFileOrder
  f1 = f1
  f2 = f2
  f3 = f3
  SizeOf <- MCSizeOf
  Asks <- MCAsks
  MaxTotal = 2
  MaxScope = 3
  MaxContents = 2
  Clients = {c1, c2}
  PlanIds = {"p1"}
  Intents <- MCIntents
  MaxRequests = 3
  Files = {f1, f2}
  AddedFiles = {f2}
  Plans <- MCPlans
  MaxText = 2
  MaxWork = 2
  UsageRoutes = {"codebuddy", "sdk", "qoder"}
  Updates <- MCUpdates
  MaxUpdates = 3
  MaxTies = 1
  MaxRefused = 1
  w1 = w1
  w2 = w2
  r1 = r1
  A = A
  B = B
  NoOwner = NoOwner
  Holders = {w1, w2, r1}
  Instances = {A, B}
  InstanceOf <- MCInstanceOf
  LeaseDuration = 2
  MaxClock = 4
  MaxGeneration = 4
  ClockStepsBack = TRUE
CHECK_DEADLOCK FALSE
INVARIANTS ToolsAnswer RoomsStand TextStands SchemaStands ContextStands PlansStand VerdictsStand AdviceStands UsageStands Exclusive
PROPERTIES RowsStand WritesOrdered
