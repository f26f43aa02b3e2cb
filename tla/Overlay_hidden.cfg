\* A still picture, over which the overlay is hidden.
SPECIFICATION OverlaySpec
CONSTANTS
  p = p
  q = q
  v = v
  Bitmaps = {p}
  Unfit = {}
  Durations = {0}
  Consumers = {v}
  PENDING_LIMIT = 2
  MayBeNull = FALSE
  MaxPosts = 3
  MaxAnswers = 3
  MaxNow = 1
  MaxFrames = 1
  MaxPlatform = 0
  MaxEvents = 7
INVARIANT HiddenIsShown
