CONSTANTS
  header = 2
  output_mtu = 3
  Sizes = {0, 1, 3, 4}
  MaxPackets = 4
  MaxStreams = 3
SPECIFICATION FairStreamSpec
CHECK_DEADLOCK FALSE
INVARIANTS
  DecoderAgrees
PROPERTIES
  NextInOrder
  Delivered
