SPECIFICATION AuditSpec
CONSTANTS
  alice = alice  bob = bob  nobody = nobody  user = user  badname = badname
  Actor <- MCActor
  AllowedActor <- MCAllowedActor
  Target <- MCTarget
  BadName <- MCBadName
  Request <- MCRequest
  MaxRequests = 2  ReadMaxRequests = 1  Window = 1
  Lifetime = 0
  MaxTime = 1
  MaxCalls = 3
  None = None  Null = Null  Blank = Blank  Zero = Zero  Proper = Proper  Odd = Odd
SYMMETRY Symmetry
INVARIANTS ApiTypeOK WindowExact RanAsConfirmed TrailIsExact TroubleIsLogged
PROPERTIES ApiImplementsOneShot
