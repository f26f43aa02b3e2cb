SPECIFICATION FairSpec
CONSTANTS
  Displays <- MCDisplays
  Controllers = {"pinmame"}
  MAX_PIXELS = 1
  MaxFrames <- MCFrames
  MaxLives = 2
  MaxControllers = 1
INVARIANTS TypeOK ReadWhileAlive FrameOfItsSource
PROPERTIES ServedTruly TapProgress
CHECK_DEADLOCK FALSE
