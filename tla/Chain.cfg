\* Two heights of three nodes: one may end, or batches are late, lost or expire.
CONSTANTS
  a = a
  b = b
  c = c
  a1 = a1
  a2 = a2
  b1 = b1
  b2 = b2
  c1 = c1
  Nodes = {a, b, c}
  Keys = {a, b, c}
  Includers = {a, b, c}
  Stake <- MCStake
  Weight <- MCWeight
  Ids <- MCIds
  Signer <- MCSigner
  MaxInt64 = 40
  Batches = {a1, a2, b1, b2, c1}
  Owner <- MCOwner
  Scenarios <- MCScenarios
  MaxHeight = 2
SPECIFICATION FairSpec
INVARIANTS
  TypeOK
  DataAvailable
  CommonParent
  NoBatchLost
PROPERTY AdvancesUnlessRefused
CHECK_DEADLOCK FALSE
