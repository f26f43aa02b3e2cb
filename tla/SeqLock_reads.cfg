\* Three Writes against one reader, every load as stale as C++ allows.
SPECIFICATION FairSpec
CONSTANTS
  Readers = {r1}
  Word = {0, 1, 2}
  Zero = 0
  Capacity = 2
  Payloads <- MCPayloads
  MAX_RETRIES = 1
  MAX_YIELDS = 1
  MaxWrites = 3
INVARIANTS NoTornRead
PROPERTIES ImplementsAtomic ReadReturns
