\* Two messages of one producer, one of another, one of a key outside the set.
CONSTANTS
  a = a
  b = b
  c = c
  out = out
  m1 = m1
  m2 = m2
  m3 = m3
  m4 = m4
  Keys <- MCKeys
  Includers <- MCIncluders
  Stake <- MCStake
  Weight <- MCWeight
  Ids <- MCIds
  Signer <- MCSigner
  MaxInt64 = 60
SPECIFICATION Spec
INVARIANTS
  TypeOK
  CertificateSound
  NeverLate
  FinalizeExact
PROPERTY FinalizeStable
CHECK_DEADLOCK FALSE
