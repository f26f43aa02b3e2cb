SPECIFICATION Spec
CONSTANTS
  Displays <- MCDisplays
  Controllers = {"pinmame"}
  MAX_PIXELS = 1
  MaxFrames <- MCFrames
  MaxLives = 2
  MaxControllers = 1
INVARIANT NeverTorn

CHECK_DEADLOCK FALSE
