CONSTANTS
  Flows = {f1, f2, f3}
  NoFlow = NoFlow
  FAIRQUEUE_MAX_TIME = 7
  Amounts = {1, 2}
  Tolerance = 2
  Data = {d1, d2}
  NoData = NoData
  block = 2
  input_mtu = 3
  num_packets = 2
SYMMETRY Symmetry
SPECIFICATION FlowSpec
CHECK_DEADLOCK FALSE
INVARIANTS
  QueueAgrees
  FairOnceServed
  BufferAgrees
PROPERTIES
  OnlyServiceCounts
  IsFifo
