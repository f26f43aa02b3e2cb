SPECIFICATION FairSpec
CONSTANTS
  Outputs = {2, 3}
  Sizes = {0, 1}
  Consumers = {v}
  MaxPublished = 3
  MaxSwitches = 2
INVARIANTS CallsAllocated Settled ChainRule
PROPERTIES WithdrawnSafely EndsInTime
CHECK_DEADLOCK FALSE
