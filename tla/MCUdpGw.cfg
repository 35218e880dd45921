CONSTANTS
  Locals = {l1, l2}
  Remotes = {r1, r2}
  NoAddr = NoAddr
  max_connections = 2
  send_buffer_size = 1
  KeepaliveFlow = KeepaliveFlow
  NoFlow = NoFlow
  MaxBuffered = 2
  MaxSubmitted = 3
  MaxAnswers = 1
SPECIFICATION FairSpec
CHECK_DEADLOCK FALSE
INVARIANTS
  TablesAgree
  LinkAgrees
  PipeAgrees
  WrittenInOrder
PROPERTIES
  RebindAnnounced
  QueuesDrain
