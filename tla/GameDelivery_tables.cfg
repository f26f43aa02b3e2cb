\* Tables, machines and a ROM change under the batches on their way.
SPECIFICATION FairSpec
CONSTANTS
  None = None
  Machines = {m1, m2}
  RomIds = {r1}
  MaxGameOps = 2
  MaxQueuedOps = 3
  PeerAuthored = {TRUE, FALSE}
  Refusals = FALSE
  MaxEpoch = 2
  MaxChanges = 1
  MaxCalls = 2
  MaxLosses = 1
  MaxRestarts = 0
INVARIANTS TypeOK TableOrder
PROPERTIES Settles
