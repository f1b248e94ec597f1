\* Three includers: a node that deletes a complete certificate.
CONSTANTS
  a = a
  b = b
  c = c
  m1 = m1
  m2 = m2
  m3 = m3
  Keys = {a, b, c}
  Includers <- MCIncluders
  Stake <- MCStake
  Weight <- MCWeight
  Signer <- MCSigner
  MaxInt64 = 40
  Nodes = {a, b, c}
  Publishers = {a, b, c}
  Ids = {m1, m2, m3}
  Own <- MCOwn
  Lacking = {c}
SPECIFICATION Spec
INVARIANTS
  RoundAlwaysHasQuorum
CHECK_DEADLOCK FALSE
