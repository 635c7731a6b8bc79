CONSTANTS
  Clients = {c1, c2, c3}
  StreamingBufferSize = 2
  MaxBlocks = 4
SPECIFICATION Spec
SYMMETRY Symmetry
INVARIANTS
  MuxIsSound NeverStranded HeaderForAll FaultNeedsDeparture OneFeeder
  DescriptorReleased
PROPERTIES
  InOrder FreshStart
CHECK_DEADLOCK FALSE
