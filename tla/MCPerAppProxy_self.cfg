CONSTANTS
  Services = {s1}
  NoService = NoService
  Programs = {p1}
  NoProgram = NoProgram
  FdTries = 1
  QueueBound = 2
  Faults = {"vpn", "proxy dies", "main dies"}
  Apps = {a1}
  self = self
SPECIFICATION PerAppSpec
CONSTRAINT TwoKindsOfMishap
INVARIANT NotInItsOwnTunnel
