SPECIFICATION SpecEither
CONSTANTS
  Forms <- AllForms
  Homes = {512, 8192, 32790, 262144, 2097152, 8388608, 268435456}
  ByteSamples = {0, 1, 90, 127, 128, 255}
  WordSamples = {0, 1, 255, 4660, 32767, 32768, 65535}
INVARIANTS OperandsComeBack OperandsApart RefusedIsOutOfReach
INVARIANTS ComparisonsDecide SumsExact WaysAgree
CHECK_DEADLOCK FALSE
