\* Three nodes; two of them, with a quorum of the stake, publish.
CONSTANTS
  a = a
  b = b
  c = c
  m1 = m1
  m2 = m2
  m3 = m3
  Keys = {a, b, c}
  Includers <- MCIncluders
  Stake <- MCStake
  Weight <- MCWeight
  Signer <- MCSigner
  MaxInt64 = 40
  Nodes = {a, b, c}
  Publishers = {a, b}
  Ids = {m1, m2}
  Own <- MCOwn
  Lacking = {b}
SPECIFICATION FairSpec
INVARIANTS
  TypeOK
  SignaturesBacked
  RoundHasQuorum
PROPERTIES
  ReliableRoundSpec
  BroadcastTerminates
CHECK_DEADLOCK FALSE
