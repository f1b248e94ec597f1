\* Three Broadcasts over two rounds, two waiters and a Manager.Stop.
CONSTANTS
  b1 = b1
  b2 = b2
  b3 = b3
  g1 = g1
  g2 = g2
  s1 = s1
  NoCall = NoCall
  Calls = {b1, b2, b3, g1, g2, s1}
  Req <- ReqOf
  MaxRound = 2
SYMMETRY CallSymmetry
SPECIFICATION Spec
INVARIANTS
  TypeOK
  WaiterRegistered
  SendNeverBlocks
  NoOverlappingStops
  BroadcastLeavesNothing
PROPERTIES
  StartServesWaiters
CHECK_DEADLOCK FALSE
