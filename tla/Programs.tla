------------------------------ MODULE Programs ------------------------------
(***************************************************************************)
(* Short programs on the processors that naken_util simulates.  What the   *)
(* instructions do to registers, flags and memory is in the modules of the *)
(* processors; here programs of a few of them run, one instruction at a    *)
(* time, and must give what a programmer expects of them together.         *)
(***************************************************************************)
EXTENDS Stm8, Z80, Processors

CONSTANTS
  ByteSamples,    \* operands of 8 bits
  WordSamples     \* operands of 16 bits

Tasks == Stm8Tasks \union Z80Tasks \union Mos6502Tasks \union Mos65816Tasks \union Avr8Tasks
         \union Msp430Tasks \union I8008Tasks \union Rca1802Tasks

VARIABLES
  task,           \* what is claimed of which programs
  left, right,    \* the operands,
  carry,          \* and the carry they start with
  way,            \* 1: the first of two programs runs, 2: the second
  machine,        \* the registers, flags and memory of the processor
  before          \* what the first program has left

programVars == <<task, left, right, carry, way, machine, before>>

Start(t, l, r, c) ==
  CASE t.cpu = "stm8" -> Stm8Start(t.kind, l, r, c)
    [] t.cpu = "z80" -> Z80Start(t.kind, l, r, c)
    [] t.cpu = "6502" -> Mos6502Start(t.kind, l, r, c)
    [] t.cpu = "65816" -> Mos65816Start(t.kind, l, r, c)
    [] t.cpu = "avr8" -> AvrStart(t.kind, l, r, c)
    [] t.cpu = "msp430" -> MspStart(t.kind, l, r, c)
    [] t.cpu = "8008" -> I8008Start(t.kind, l, r, c)
    [] t.cpu = "1802" -> RcaStart(t.kind, l, r, c)

\* The pc is past the instruction when the instruction is executed.
Executed(cpu, s, i) ==
  LET next == [s EXCEPT !.pc = @ + 1]
  IN CASE cpu = "stm8" -> Stm8Step(next, i)
       [] cpu = "z80" -> Z80Step(s, i)
       [] cpu = "6502" -> Mos6502Step(next, i)
       [] cpu = "65816" -> Mos65816Step(next, i)
       [] cpu = "avr8" -> AvrStep(next, i)
       [] cpu = "msp430" -> MspStep(next, i)
       [] cpu = "8008" -> I8008Step(next, i)
       [] cpu = "1802" -> RcaStep(s, i)

Code == IF way = 1 THEN task.code ELSE task.also
Origin == Start(task, left, right, carry).pc
Place == machine.pc - Origin + 1

Finished == Place \notin DOMAIN Code

Taken == Place > Len(Code) + 1

\* What a program leaves: all registers but the ones in task.but, the cells of
\* the data, and where it goes on.
Left(s) ==
  [f \in DOMAIN s \ (task.but \union {"pc", "m"}) |-> s[f]]
  @@ [exit |-> Place - Len(Code), data |-> [a \in 16..31 |-> Peek(s, a)]]

ProgramInit ==
  /\ task \in Tasks
  /\ LET samples == IF task.kind = "bytes" THEN ByteSamples ELSE WordSamples
     IN left \in samples /\ right \in samples
  /\ carry \in {0, 1}
  /\ way = 1
  /\ machine = Start(task, left, right, carry)
  /\ before = << >>

\* The simulator executes the next instruction.
Execute ==
  /\ task # NoTask
  /\ machine.known
  /\ Place \in DOMAIN Code
  /\ machine' = Executed(task.cpu, machine, Code[Place])
  /\ UNCHANGED <<task, left, right, carry, way, before>>

\* The second program starts as the first one did.
StartAgain ==
  /\ task.claim = "agree" /\ way = 1
  /\ Finished
  /\ way' = 2
  /\ machine' = Start(task, left, right, carry)
  /\ before' = Left(machine)
  /\ UNCHANGED <<task, left, right, carry>>

ProgramNext == Execute \/ StartAgain

-----------------------------------------------------------------------------
SizeOf == IF task.kind = "bytes" THEN 8 ELSE 16

Related(relation) ==
  LET l == Signed(SizeOf, left)
      r == Signed(SizeOf, right)
  IN CASE relation = "=" -> left = right
       [] relation = "#" -> left # right
       [] relation = "<" -> left < right
       [] relation = "<=" -> left <= right
       [] relation = ">" -> left > right
       [] relation = ">=" -> left >= right
       [] relation = "signed <" -> l < r
       [] relation = "signed <=" -> l <= r
       [] relation = "signed >" -> l > r
       [] relation = "signed >=" -> l >= r

Term(t) == t[1] * (CASE t[2] = "m" -> Peek(machine, t[3])
                     [] t[2] = "one" -> 1
                     [] t[2] = "r" -> machine.r[t[3]]
                     [] OTHER -> machine[t[2]])

Total == MapThenSumSet(LAMBDA k : Term(task.terms[k]), DOMAIN task.terms)

Expected ==
  CASE task.relation = "add" -> left + right
    [] task.relation = "adc" -> left + right + carry
    [] task.relation = "sub" -> left - right
    [] task.relation = "sbc" -> left - right - carry
    [] task.relation = "mul" -> left * right

(***************************************************************************)
(* A comparison, or a subtraction, and the conditional branch behind it    *)
(* decide as the operands compare, as unsigned or as signed numbers: the   *)
(* flags that one instruction leaves are those that the other one asks.    *)
(***************************************************************************)
ComparisonsDecide ==
  task.claim = "decide" /\ Finished => (Taken <=> Related(task.relation))

(***************************************************************************)
(* Sums and differences of several bytes are exact with the carry that one *)
(* instruction hands to the next, a product has all its bits, and quotient *)
(* and remainder give the dividend again.                                  *)
(***************************************************************************)
SumsExact ==
  task.claim = "sum" /\ Finished =>
    IF task.relation # "div" THEN Total = Expected
    ELSE LET quotient == Term(task.terms[1])
             rest == Term(task.terms[2])
         IN right # 0 => left = quotient * right + rest /\ rest < right

(***************************************************************************)
(* Two programs that mean the same leave the same: an operation through    *)
(* each mode of addressing and on each register, an operation of 16 bits   *)
(* and the two of 8 bits, a flag changed by its instruction and in its     *)
(* byte on the stack, and calls, pushes and rotations and what takes them  *)
(* back.  None of the instructions is unknown to the simulator.            *)
(***************************************************************************)
WaysAgree ==
  task # NoTask => machine.known /\ (way = 2 /\ Finished => Left(machine) = before)
=============================================================================
