--------------------------- MODULE MCInstructions ---------------------------
(* The forms of all CPUs, at homes that are large enough for their         *)
(* offsets: 32790 lies in the middle of a memory of 64 kB.  A behaviour    *)
(* either follows one instruction through the program, or runs one of the  *)
(* short programs on its simulator; the other part stays as it is.         *)
EXTENDS Instructions, Branches, Mips, Riscv, RiscOperands, ControllerOperands,
        Programs

AllForms ==
  BranchForms \o MipsForms \o RiscvForms \o RiscOperandsForms
    \o ControllerOperandsForms

NoProgram ==
  /\ task = NoTask
  /\ left = 0 /\ right = 0 /\ carry = 0 /\ way = 1
  /\ machine = << >> /\ before = << >>

NoInstruction ==
  /\ form = 1 /\ at = 0 /\ step = "none"
  /\ operands = << >> /\ code = << >> /\ shown = << >> /\ taken = {}

InitEither == (Init /\ NoProgram) \/ (NoInstruction /\ ProgramInit)

NextEither ==
  \/ Next /\ UNCHANGED programVars
  \/ ProgramNext /\ UNCHANGED vars

SpecEither == InitEither /\ [][NextEither]_<<vars, programVars>>
=============================================================================
