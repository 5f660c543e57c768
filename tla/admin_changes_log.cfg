SPECIFICATION AuditSpec
CONSTANTS
  alice = alice  bob = bob  nobody = nobody  user = user  badname = badname
  Actor <- MCActor
  AllowedActor <- MCAllowedActor
  Target <- MCTarget
  BadName <- MCBadName
  Request <- PlainChanges
  MaxRequests = 0  ReadMaxRequests = None  Window = 1
  Lifetime = 1
  MaxTime = 0
  MaxCalls = 2
  None = None  Null = Null  Blank = Blank  Zero = Zero  Proper = Proper  Odd = Odd
INVARIANTS ChangesLogged
