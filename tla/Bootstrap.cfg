\* Four nodes; two of them may fail to reach each other, one the bootstrapper.
CONSTANTS
  a = a
  b = b
  c = c
  d = d
  Nodes = {a, b, c, d}
  Bootstrapper = a
  NetworkSize = 4
  Flaky <- MCFlaky
  Settle = 2
  Delay = 1
  KickoffTimeout = 4
SPECIFICATION FairSpec
INVARIANTS
  MembersAgree
PROPERTY BootstrapTerminates
CHECK_DEADLOCK FALSE
