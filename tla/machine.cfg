SPECIFICATION MachineSpec
CONSTANTS
  Space = 8
  PageSize = 2
  Address = {0, 1, 5}
  Byte = {0, 1}
  Line = {1}
  Cpu = {"msp430", "i8008", "m6502", "m65816", "avr8", "z80", "stm8", "mips", "riscv", "rv32em", "c1802", "tms1000", "lc3", "f100_l"}
  Top = 4
  PageWords = 2
  MaxCommands = 3
  MaxNested = 3
  Programs <- SomePrograms
INVARIANTS PagesDisjoint BreakStops StepIsOne UnmatchedReturnEnds
PROPERTIES ImplementsFlat CallKeepsStack RunEnds
CHECK_DEADLOCK FALSE
