\* Requests, Polls, frames, games and Clears of one daemon; a wait and an unload end.
SPECIFICATION FairSpec
CONSTANTS
  a = a
  b = b
  Sets <- MCSets
  Handlers = {"Ok", "Busy", "Unsupported"}
  MaxRequests = 2
  MaxFrames = 2
  MaxGames = 2
  MaxClears = 1
INVARIANTS TypeOK AnsweredTruly
PROPERTIES WaitsEnd
\* An unloaded plugin has nothing left to do.
CHECK_DEADLOCK FALSE
