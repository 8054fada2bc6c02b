SPECIFICATION EitherSpec
CONSTANTS
  Token = {"num", "+", "-", "*", "|", "~", "(", ")", "sep", "eol", "name"}
  MaxTokens = 8
  Base = 4
  LineLength = 3
  PicoAddress = 200
  Pico = 999
  Corners = {12, 60, 124}
  Image <- Images
INVARIANTS AssertionsHold AcceptsExpressions WindowIsEnough
INVARIANTS BytesComeBack RangeComesBack FilesAccepted
PROPERTIES EveryImageEnds
CHECK_DEADLOCK FALSE
