\* One table that may end; the daemon refuses, the connection is lost, the daemon restarts.
SPECIFICATION Spec
CONSTANTS
  None = None
  Machines = {m1}
  RomIds = {}
  MaxGameOps = 2
  MaxQueuedOps = 2
  PeerAuthored = {TRUE}
  Refusals = TRUE
  MaxEpoch = 2
  MaxChanges = 0
  MaxCalls = 4
  MaxLosses = 2
  MaxRestarts = 1
CONSTRAINT Bounded
INVARIANTS Retained QueueWhole WholeGames
