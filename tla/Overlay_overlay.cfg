\* The two writers, and a consumer of an override; uploads that fit and that do not, time.
SPECIFICATION MCFairSpec
CONSTANTS
  p = p
  q = q
  v = v
  Bitmaps = {p}
  Unfit = {q}
  Durations = {0, 1}
  Consumers = {v}
  PENDING_LIMIT = 2
  MayBeNull = TRUE
  MaxPosts = 3
  MaxAnswers = 2
  MaxNow = 2
  MaxFrames = 2
  MaxPlatform = 1
  MaxEvents = 5
INVARIANTS ArrivalOrder ShownTruly
PROPERTIES NotOutlived Drained
\* A detached overlay that nobody asks has nothing left to do.
CHECK_DEADLOCK FALSE
