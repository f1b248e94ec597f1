\* A Broadcast and a Manager.Stop, fair scheduling.
CONSTANTS
  b1 = b1
  b2 = b2
  b3 = b3
  g1 = g1
  g2 = g2
  s1 = s1
  NoCall = NoCall
  Calls = {b1, g1, s1}
  Req <- ReqOf
  MaxRound = 2
SPECIFICATION FairSpec
PROPERTIES
  ManagerStopTerminates
CHECK_DEADLOCK FALSE
