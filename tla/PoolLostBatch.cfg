\* One push, one deletion and two pulls of one batch.
CONSTANTS
  h1 = h1
  h2 = h2
  s1 = s1
  s2 = s2
  p1 = p1
  p2 = p2
  p3 = p3
  q1 = q1
  q2 = q2
  q3 = q3
  q4 = q4
  l1 = l1
  d1 = d1
  NoCall = NoCall
  NoBatch = NoBatch
  Hashes = {h1, h2}
  Signers = {s1, s2}
  Calls = {p2, q3, q4, d1}
  Req <- ReqOf
SPECIFICATION Spec
INVARIANTS
  PullerServed
CHECK_DEADLOCK FALSE
