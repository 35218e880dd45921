CONSTANTS
  Clients = {c1, c2}
  NoClient = none
  TcpWnd = 2
  SndBuf = 1
  SocksRecvBuf = 2
  UpBytes = 3
  DownBytes = 2
SYMMETRY Symmetry
SPECIFICATION Spec
INVARIANTS
  TypeOK
  AssertsHold
  CountersAgree
  NoClientIsStuck
  BytesInOrder
  NothingDangles
  AbortIsReported
PROPERTIES
  CloseAfterDelivery
