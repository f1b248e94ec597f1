\* Three calls, fair scheduling.
CONSTANTS
  a = a
  b = b
  m1 = m1
  m2 = m2
  c1 = c1
  c2 = c2
  c3 = c3
  c4 = c4
  NoCall = NoCall
  Keys = {a, b}
  Includers <- MCIncluders
  Stake <- MCStake
  Weight <- MCWeight
  Ids = {m1, m2}
  Signer <- MCSigner
  MaxInt64 = 40
  Calls = {c1, c2, c3}
  Scenarios <- Waiting
  ChanSize = 1
SPECIFICATION FairSpec
PROPERTIES
  StopCompletes
  AcceptedIsExecuted
  ClosedReleasesCallers
  CertificateReachesWaiter
CHECK_DEADLOCK FALSE
