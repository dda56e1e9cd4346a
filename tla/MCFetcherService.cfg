CONSTANTS
  None = None
  f1 = f1
  f2 = f2
  f3 = f3
  Fetcher <- MCFetcher
  HostOf <- MCHostOf
  Priority <- MCPriority
  Refused <- MCRefused
  Authorizing <- MCAuthorizing
  Retrying <- MCRetrying
  MaxRunning = 1
  MaxRetries = 1
  MaxEvents = 1
  LateHost = FALSE
SPECIFICATION Spec
INVARIANTS
  AnsweredOnce
  ConnectionLimit
  SessionsUsable
PROPERTIES
  FetchEnds
CHECK_DEADLOCK FALSE
