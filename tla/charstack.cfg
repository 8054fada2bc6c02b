SPECIFICATION Spec
CONSTANTS
  x = x
  y = y
  mac_n = mac_n
  mac_f = mac_f
  mac_r = mac_r
  p1 = p1
  p2 = p2
  Char <- Chars
  Source <- Texts
  File <- Files
  Macro <- Table
  Param <- Two
  Include = Include
  Open = Open
  Close = Close
  Comma = Comma
  Eol = Eol
  Eof = Eof
  None = None
  Nul = Nul
  Params = Params
  MaxNestedMacros = 3
  ParamStackLen = 8
  MaxFiles = 2
INVARIANTS LevelsInStep RegionsLive
PROPERTIES ImplementsStream
CHECK_DEADLOCK FALSE
