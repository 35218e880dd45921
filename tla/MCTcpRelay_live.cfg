CONSTANTS
  Clients = {c1}
  NoClient = none
  TcpWnd = 2
  SndBuf = 1
  SocksRecvBuf = 2
  UpBytes = 2
  DownBytes = 2
SPECIFICATION FairSpec
PROPERTIES
  HalfClosedIsFreed
