SPECIFICATION FairToolSpec
CONSTANTS
  alice = alice  bob = bob  user = user
  Actor <- MCClient
  AllowedActor <- MCClient
  Client <- OneClient
  Target <- MCTarget
  BadName = {}
  Request <- Reads
  MaxRequests = 0  ReadMaxRequests = None  Window = 1
  Lifetime = 0
  MaxTime = 0
  MaxCalls = 2
  Backlog = 2
  None = None  Null = Null  Blank = Blank  Zero = Zero  Proper = Proper  Odd = Odd
PROPERTIES ShutdownCompletes
