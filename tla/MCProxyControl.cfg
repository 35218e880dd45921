CONSTANTS
  Services = {s1, s2}
  NoService = none
  Programs = {t1, t2}
  NoProgram = none
  FdTries = 2
  QueueBound = 2
  Faults = {"vpn", "null", "tl", "tun", "slow", "exit", "destroy", "revoke", "proxy dies", "main dies", "recreate"}
SPECIFICATION FairSpec
CONSTRAINT TwoKindsOfMishap
INVARIANTS
  OneOperation
  IdleMeansStopped
  NothingOrphaned
  SwitchTellsTruth
  RunningMeansProxied
PROPERTIES
  SwitchComesBack
