\* Two requests, tables and identities that change, sessions that end.
SPECIFICATION FairSpec
CONSTANTS
  None = None
  RomTables = {rom}
  AuthoredTables = {authored}
  Peers <- MCPeers
  MAX_QUEUED = 1
  MAX_PENDING = 1
  CAPACITY = 1
  MaxId = 2
  MaxEpoch = 2
  MaxIdentity = 1
  MaxRequests = 2
  MaxLosses = 1
INVARIANTS TypeOK AnsweredOnce OwnTable
PROPERTIES Answered
