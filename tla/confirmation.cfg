SPECIFICATION Spec
CONSTANTS
  t1 = t1  t2 = t2  alice = alice  bob = bob
  Token <- MCToken
  Actor <- MCActor
  Lifetime = 1
  MaxTime = 4
  NoRecord = NoRecord  NoToken = NoToken  Torn = Torn
SYMMETRY Symmetry
INVARIANTS StoreInv ExecutedAtMostOnce CancelIsFinal RestartKeepsOpen
PROPERTIES ImplementsOneShot
