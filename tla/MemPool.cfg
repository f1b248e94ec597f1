\* Pushes, pulls, a lister and a deletion of two batches.
CONSTANTS
  h1 = h1
  h2 = h2
  s1 = s1
  s2 = s2
  p1 = p1
  p2 = p2
  p3 = p3
  q1 = q1
  q2 = q2
  q3 = q3
  q4 = q4
  l1 = l1
  d1 = d1
  NoCall = NoCall
  NoBatch = NoBatch
  Hashes = {h1, h2}
  Signers = {s1, s2}
  Calls = {p1, p2, p3, q1, q2, q3, q4, l1, d1}
  Req <- ReqOf
SYMMETRY CallSymmetry
SPECIFICATION Spec
INVARIANTS
  TypeOK
  SendNeverBlocks
  ListerSleepsForReason
  UndisturbedPullerServed
CHECK_DEADLOCK FALSE
