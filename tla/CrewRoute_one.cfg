\* One call, one canceller, a program that writes one line it was not asked for.
SPECIFICATION RouteSpec
CONSTANTS
  Jobs <- MCJobs
  MaxExtra = 1
  MaxUnread = 1
  MaxDuration = 1
  IdleLimit = 1
  RequestLimit = 1
INVARIANTS OwnReply RouteStands
CHECK_DEADLOCK FALSE
PROPERTIES ImplementsRoute RouteReturns
