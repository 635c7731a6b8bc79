CONSTANT
  Fetches = {f1, f2, f3}
SPECIFICATION FairSpec
CHECK_DEADLOCK FALSE
INVARIANTS
  HoldsWhatItUses
PROPERTY
  CompletionsHandled
