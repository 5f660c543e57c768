SPECIFICATION Spec
CONSTANTS
  u1 = u1  u2 = u2  staff = staff  default = default  a = a  b = b  p1 = p1  p2 = p2
  User <- MCUser
  Group <- MCGroup
  ProtectedGroup <- MCProtected
  Ip <- MCIp
  NoUser = NoUser  NoGroup = NoGroup  NoIp = NoIp
  Absent = Absent  DefaultText = DefaultText  HandMade = HandMade
  JsonStore = FALSE
  Proc = {p1}
  NoProc = NoProc  NoRequest = NoRequest  Down = Down  NoChange = NoChange
  Requests <- AccountRequests
  InitialDisks <- MCInitialDisks
  MaxRequests = 3
  AllowCrash = TRUE
  AllowTimeout = FALSE
INVARIANT LastChangeUndoable
