\* Four calls that publish, await, sign and delete messages and stop the round.
CONSTANTS
  a = a
  b = b
  m1 = m1
  m2 = m2
  c1 = c1
  c2 = c2
  c3 = c3
  c4 = c4
  NoCall = NoCall
  Keys = {a, b}
  Includers <- MCIncluders
  Stake <- MCStake
  Weight <- MCWeight
  Ids = {m1, m2}
  Signer <- MCSigner
  MaxInt64 = 40
  Calls = {c1, c2, c3, c4}
  Scenarios <- Everything
  ChanSize = 2
SYMMETRY CallSymmetry
SPECIFICATION Spec
INVARIANTS
  TypeOK
  NoMissedCertificate
  WaiterRemembered
  GetNeverNilNil
  FinalIffQuorum
  EffectDurable
  LoopNeverStuck
PROPERTIES
  StopIsFinal
  QuorumCertificateSpec
CHECK_DEADLOCK FALSE
