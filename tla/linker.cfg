CONSTANTS
  fun_f = fun_f
  fun_g = fun_g
  fun_h = fun_h
  Name = {fun_f, fun_g, fun_h}
  Plain = Plain
  Libraries <- SomeLibraries
  Reach = 8
  Origins = {0, 5, 32}
  MaxStatements = 4
SPECIFICATION Spec
INVARIANTS LinksWhatIsNeeded PlacedAtLabel FunctionsWhole
PROPERTIES LinkEnds
CHECK_DEADLOCK FALSE
