CONSTANTS
  Clients = {c1, c2, c3}
  Window = 2
  MaxSequence = 5
  Slots = 3
SPECIFICATION FairSpec
CHECK_DEADLOCK FALSE
INVARIANTS
  QueueIsSound PlaysUndisturbed
PROPERTIES
  NoRepeat PlaysOn
