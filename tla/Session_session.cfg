SPECIFICATION FairSpec
CONSTANTS
  MaxRestarts = 1
  MaxConnects = 2
  MaxRequests = 2
  MaxStrays = 1
INVARIANTS TypeOK AnsweredInOrder OfThisPeer
PROPERTIES EndsCleanly SessionEnds
CHECK_DEADLOCK FALSE
