CONSTANTS
  BCONNECTION_SEND_LIMIT = 2
  BCONNECTION_RECV_LIMIT = 2
  MaxData = 6
SPECIFICATION FairSpec
CHECK_DEADLOCK FALSE
INVARIANTS
  ConnectionAgrees
PROPERTIES
  OperationsEnd
